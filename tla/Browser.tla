------------------------------- MODULE Browser -------------------------------
(***************************************************************************)
(* A run of the browser agent.  The client owns the browser sessions: it    *)
(* creates, describes and closes them when the agent's calls ask it to, in  *)
(* whatever order it likes, and the user may close a window or switch tabs  *)
(* at any time.  Commands of the agent run a helper program of the server   *)
(* on the session the run is bound to.  The binding is updated from the     *)
(* results of each segment of calls, and again from all the results of the  *)
(* turn when it is complete.                                                *)
(***************************************************************************)
EXTENDS Naturals, Sequences, FiniteSets

CONSTANTS
  Sessions,  \* browser sessions the client may create
  MaxTurns,  \* max_steps of the call that started the run
  MaxCalls,  \* bound: calls of a turn
  MaxTab,    \* bound: tabs of a session
  None       \* no session, no binding

VARIABLES
  phase,     \* "start", "model", "calls", "complete", "ended"
  turn,      \* turns begun
  batch,     \* calls of the turn: [tool, session]
  at,        \* the first call of the segment
  st,        \* calls: "wait", "requested", "running", "answered", "done"
  res,       \* calls: None or [ok, session, tab]
  binding,   \* None or [session, name, endpoint]
  target,    \* None or where the command that runs goes: [session, name, endpoint]
  browser,   \* sessions: [life, tab] at the client
  known,     \* sessions the model was told of
  cancelled, \* the user aborted the query
  terminal,  \* None or why the run ended
  latest,    \* ghost: the binding the last create or state result described
  shut       \* ghost: sessions a close result named since

run == <<phase, turn, batch, at, cancelled, terminal>>
ghosts == <<latest, shut>>
vars == <<run, st, res, binding, target, browser, known, ghosts>>

ClientRouted == {"browser_session_create", "browser_session_state", "browser_session_close", "browser_ask_human"}
NeedsSession == ClientRouted \ {"browser_session_create"}

CallsOf(names) ==
  [tool : {"browser_session_create", "agent_browser_command", "browser_agent_final_result"}, session : {None}]
    \cup [tool : NeedsSession, session : names]

Batches(names) == UNION {[1..n -> CallsOf(names)] : n \in 0..MaxCalls}

Slots == DOMAIN batch
routeToClient(i) == batch[i].tool \in ClientRouted
Segment == {i \in Slots : i >= at /\ \A j \in at..i : routeToClient(j) = routeToClient(at)}

\* What the client says of a session, as private metadata of its result.
Described(s, tab) == [session |-> s, name |-> s, endpoint |-> <<s, tab>>]

Failed == [ok |-> FALSE, session |-> None, tab |-> 0]
Silent == [ok |-> TRUE, session |-> None, tab |-> 0]
Says(s) == [ok |-> TRUE, session |-> s, tab |-> browser[s].tab]

-----------------------------------------------------------------------------
(* The binding                                                             *)

\* Incomplete descriptions change nothing.
UpdateBrowserSession(b, r) == IF r.session = None THEN b ELSE Described(r.session, r.tab)

\* Bug: the helper keeps the name of the session it was started for.
UpdateEndpoint(b, r) ==
  IF r.session = None THEN b
  ELSE [Described(r.session, r.tab) EXCEPT !.name = IF b = None THEN @ ELSE b.name]

ClearIfBrowserSession(b, r) == IF b # None /\ b.session = r.session THEN None ELSE b

UpdateTaskBindingFromToolResult(b, tool, r) ==
  CASE r.ok /\ tool \in {"browser_session_create", "browser_session_state"} -> UpdateBrowserSession(b, r)
    [] r.ok /\ tool = "browser_session_close" -> ClearIfBrowserSession(b, r)
    [] OTHER -> b

\* The binding after the results of calls i to j are applied to b in their order.
Applied(b, i, j) ==
  LET f[k \in (i - 1)..j] ==
        IF k = i - 1 THEN b ELSE UpdateTaskBindingFromToolResult(f[k - 1], batch[k].tool, res[k])
  IN f[j]

\* Bug: the results of the turn are applied from the last to the first.
AppliedBackwards(b) ==
  LET f[k \in 1..(Len(batch) + 1)] ==
        IF k = Len(batch) + 1 THEN b ELSE UpdateTaskBindingFromToolResult(f[k + 1], batch[k].tool, res[k])
  IN f[1]

UpdateTaskBindingFromResults(b) == Applied(b, 1, Len(batch))

-----------------------------------------------------------------------------
Init ==
  /\ phase = "start" /\ turn = 0 /\ batch = <<>> /\ at = 1 /\ st = <<>> /\ res = <<>>
  /\ binding = None /\ target = None
  /\ browser = [s \in Sessions |-> [life |-> "none", tab |-> 0]]
  /\ known = {} /\ cancelled = FALSE /\ terminal = None
  /\ latest = None /\ shut = {}

\* The call of the browser_agent tool: a goal, a number of steps and a start address
\* that are allowed, and a scheduler.
Execute ==
  /\ phase = "start"
  /\ \/ phase' = "model" /\ UNCHANGED terminal
     \/ phase' = "ended" /\ terminal' = "invalid_input"
     \/ phase' = "ended" /\ terminal' = "dependency_fail"
  /\ UNCHANGED <<turn, batch, at, st, res, binding, target, browser, known, cancelled, ghosts>>

End(why) == phase' = "ended" /\ terminal' = why

\* The model's next turn; a turn without calls is the last.
ModelReplies ==
  /\ phase = "model"
  /\ IF cancelled \/ turn = MaxTurns
     THEN /\ End(IF cancelled THEN "aborted" ELSE "max_turns")
          /\ UNCHANGED <<turn, batch, at, st, res>>
     ELSE \E b \in Batches(known) :
            /\ turn' = turn + 1 /\ batch' = b /\ at' = 1
            /\ st' = [i \in DOMAIN b |-> "wait"] /\ res' = [i \in DOMAIN b |-> None]
            /\ IF b = <<>> THEN End("completed") ELSE phase' = "calls" /\ UNCHANGED terminal
  /\ UNCHANGED <<binding, target, browser, known, cancelled, ghosts>>

Return(i, r) == st' = [st EXCEPT ![i] = "done"] /\ res' = [res EXCEPT ![i] = r]

\* All the calls of a client segment are sent before any is waited for.
RequestSegment ==
  /\ phase = "calls" /\ at \in Slots /\ routeToClient(at) /\ st[at] = "wait"
  /\ st' = [i \in Slots |-> IF i \in Segment THEN "requested" ELSE st[i]]
  /\ UNCHANGED <<run, res, binding, target, browser, known, ghosts>>

Answer(i, r) == st' = [st EXCEPT ![i] = "answered"] /\ res' = [res EXCEPT ![i] = r]

\* The client opens a session; one without a debugging endpoint is not described in full.
ClientCreates(i) ==
  /\ batch[i].tool = "browser_session_create"
  /\ \/ \E s \in Sessions :
          /\ browser[s].life = "none"
          /\ browser' = [browser EXCEPT ![s].life = "open"]
          /\ \E r \in {Says(s), Silent} : Answer(i, r)
     \/ UNCHANGED browser /\ Answer(i, Failed)

ClientDescribes(i) ==
  LET s == batch[i].session IN
  /\ batch[i].tool = "browser_session_state"
  /\ Answer(i, IF browser[s].life = "open" THEN Says(s) ELSE Failed)
  /\ UNCHANGED browser

\* The session may be closed and its end reported badly.
ClientCloses(i) ==
  LET s == batch[i].session IN
  /\ batch[i].tool = "browser_session_close"
  /\ IF browser[s].life = "open"
     THEN /\ browser' = [browser EXCEPT ![s].life = "closed"]
          /\ \E r \in {Says(s), Silent, Failed} : Answer(i, r)
     ELSE Answer(i, Failed) /\ UNCHANGED browser

ClientAsksHuman(i) ==
  batch[i].tool = "browser_ask_human" /\ Answer(i, Silent) /\ UNCHANGED browser

ClientActs(i) ==
  /\ st[i] = "requested"
  /\ ClientCreates(i) \/ ClientDescribes(i) \/ ClientCloses(i) \/ ClientAsksHuman(i)
  /\ UNCHANGED <<run, binding, target, known, ghosts>>

\* Results are taken in the order of the calls; one that is missing when the query is
\* cancelled is not waited for.
Collect(i) ==
  /\ phase = "calls" /\ i \in Segment /\ \A j \in Segment : j < i => st[j] = "done"
  /\ \/ st[i] = "answered" /\ Return(i, res[i])
     \/ st[i] \in {"requested", "answered"} /\ cancelled /\ Return(i, Failed)
  /\ UNCHANGED <<run, binding, target, browser, known, ghosts>>

\* Server calls are run one at a time.
Turns(i) ==
  /\ phase = "calls" /\ at \in Slots /\ ~routeToClient(at)
  /\ i \in Segment /\ st[i] = "wait" /\ \A j \in Segment : j < i => st[j] = "done"

IsReady == binding # None

\* A command goes to the session of the binding, by its name and its endpoint.
StartCommand(i) ==
  /\ Turns(i) /\ batch[i].tool = "agent_browser_command"
  /\ IF ~cancelled /\ IsReady
     THEN target' = binding /\ st' = [st EXCEPT ![i] = "running"] /\ UNCHANGED res
     ELSE Return(i, Failed) /\ UNCHANGED target
  /\ UNCHANGED <<run, binding, browser, known, ghosts>>

\* The helper answers, fails, runs out of time or is killed with the query.
EndCommand(i) ==
  /\ st[i] = "running"
  /\ \E r \in {Failed} \cup (IF browser[target.session].life = "open" THEN {Silent} ELSE {}) : Return(i, r)
  /\ target' = None
  /\ UNCHANGED <<run, binding, browser, known, ghosts>>

\* The loop of the run is configured without a contract.
HasContract == FALSE

\* The final result is checked against the schema of the contract.
FinalResult(i) ==
  /\ Turns(i) /\ batch[i].tool = "browser_agent_final_result"
  /\ Return(i, IF HasContract /\ ~cancelled THEN Silent ELSE Failed)
  /\ UNCHANGED <<run, binding, target, browser, known, ghosts>>

\* The ghosts take the results of calls i to j in their order.
Named(i, j) == {res[k].session : k \in {k \in i..j : res[k].ok /\ batch[k].tool = "browser_session_close"}}
Describing(i, j) ==
  {k \in i..j : /\ res[k].ok /\ res[k].session # None
                /\ batch[k].tool \in {"browser_session_create", "browser_session_state"}}

Observe(i, j) ==
  LET ks == Describing(i, j) IN
  IF ks = {} THEN latest' = latest /\ shut' = shut \cup Named(i, j)
  ELSE LET k == CHOOSE k \in ks : \A l \in ks : l <= k IN
         latest' = Described(res[k].session, res[k].tab) /\ shut' = Named(k + 1, j)

\* The results of a segment reach the hooks in the order of the calls.
EndSegment ==
  /\ phase = "calls" /\ at \in Slots /\ \A i \in Segment : st[i] = "done"
  /\ LET last == at + Cardinality(Segment) - 1 IN
       /\ binding' = Applied(binding, at, last)
       /\ Observe(at, last)
       /\ at' = last + 1
       /\ phase' = IF last = Len(batch) THEN "complete" ELSE phase
  /\ UNCHANGED <<turn, batch, st, res, target, browser, known, cancelled, terminal>>

\* The turn's results go through the binding once more and into the conversation.
OnTurnComplete ==
  /\ phase = "complete"
  /\ binding' = UpdateTaskBindingFromResults(binding)
  /\ known' = known \cup ({res[i].session : i \in Slots} \ {None})
  /\ IF cancelled THEN End("aborted") ELSE phase' = "model" /\ UNCHANGED terminal
  /\ UNCHANGED <<turn, batch, at, st, res, target, browser, cancelled, ghosts>>

-----------------------------------------------------------------------------
(* The user                                                                *)

CloseWindow(s) ==
  /\ phase # "ended" /\ browser[s].life = "open"
  /\ browser' = [browser EXCEPT ![s].life = "closed"]
  /\ UNCHANGED <<run, st, res, binding, target, known, ghosts>>

SwitchTab(s) ==
  /\ phase # "ended" /\ browser[s].life = "open" /\ browser[s].tab < MaxTab
  /\ browser' = [browser EXCEPT ![s].tab = @ + 1]
  /\ UNCHANGED <<run, st, res, binding, target, known, ghosts>>

Cancel ==
  /\ phase \in {"model", "calls", "complete"} /\ ~cancelled /\ cancelled' = TRUE
  /\ UNCHANGED <<phase, turn, batch, at, terminal, st, res, binding, target, browser, known, ghosts>>

Next ==
  \/ Execute \/ ModelReplies \/ RequestSegment \/ EndSegment \/ OnTurnComplete \/ Cancel
  \/ \E i \in Slots : ClientActs(i) \/ Collect(i) \/ StartCommand(i) \/ EndCommand(i) \/ FinalResult(i)
  \/ \E s \in Sessions : CloseWindow(s) \/ SwitchTab(s)

Spec == Init /\ [][Next]_vars

-----------------------------------------------------------------------------
(* Properties                                                              *)

\* Where a command must go: the session the agent last created or asked about, as it
\* was then described, unless a result since said that it is closed.
Current == IF latest # None /\ latest.session \in shut THEN None ELSE latest

\* Commands go to the session and tab of the latest description in the order of the
\* calls, whatever the order the client worked in and however often results are applied;
\* and between turns the binding is that description.
CommandsFollowResults ==
  /\ target # None => target = Current
  /\ phase = "model" => binding = Current

\* What the prompt of the agent asks for: a final result can be handed in.
FinalCanBeAccepted ==
  \A i \in Slots : batch[i].tool = "browser_agent_final_result" /\ st[i] = "done" /\ ~cancelled => res[i].ok
=============================================================================
