------------------------------ MODULE Scheduler ------------------------------
(***************************************************************************)
(* Sub-agent runs: internal/engine/scheduler (dispatcher, middlewares,     *)
(* task table, sync and async strategies, disk output), the runtime that   *)
(* carries a run (internal/engine/loop/runtime/llm.go), the way a          *)
(* sub-agent asks for permission (internal/engine/agent/common) and the    *)
(* callers that start a run: the tools freelance, dispatch, browser_agent. *)
(*                                                                         *)
(* Runs form a tree under Root, the query a client sent.  Each run owns a  *)
(* bounded event stream; the strategy that started it reads the stream and *)
(* forwards each event to the stream of the parent run: texts are dropped  *)
(* when the parent's stream is full, a permission request waits for room.  *)
(*                                                                         *)
(* Left out: moving a foreground run to the background (the signal is never*)
(* sent: no caller of RequestBackground), the identities in a context.     *)
(***************************************************************************)
EXTENDS Naturals, Sequences, FiniteSets, SequencesExt

CONSTANTS
  Root,       \* the query at the top of the tree
  Runs,       \* the sub-agent runs
  Parent,     \* [Runs -> Runs \cup {Root}]: the run whose tool call starts it
  ToolOf,       \* [Runs -> {"freelance", "dispatch", "browser"}]: that tool
  Planner,    \* the runs whose agent is the planner
  Cap,        \* capacity of an event stream
  MaxTexts    \* bound: texts a run sends

Streams == Runs \cup {Root}
VARIABLES
  phase,      \* what the loop of a run is doing
  buf,        \* the events in a run's stream
  strat,      \* the strategy that started the run
  fwd,        \* the reader of the stream: "off", "read", or "perm" (holding a request)
  held,       \* the run whose request that reader holds
  task,       \* the run's row in the task table
  sent, got,  \* texts sent by the run; accumulated by (or written to disk for) its caller
  term, seen, \* how the loop ended; the terminal its caller has read
  asked,      \* the run has asked for permission
  shown,      \* requests the client has been shown
  allowed,    \* the session allows the tool without asking
  reply,      \* the tool result of the call that started the run
  plan,       \* the runs whose plan is the query's reminder
  cancelled,  \* the contexts that are cancelled, by the run that owns them
  crashed     \* the process has panicked

vars == <<phase, buf, strat, fwd, held, task, sent, got, term, seen, asked, shown,
          allowed, reply, plan, cancelled, crashed>>
loopVars == <<phase, sent, term, asked>>
callVars == <<strat, fwd, held, task, got, seen, reply, plan>>
userVars == <<shown, allowed, cancelled>>

Strategies == {"none", "sync", "async"}
Terminals  == {"none", "completed", "aborted", "failed"}
Replies    == {"none", "invalid_input", "dependency_fail", "user_aborted",
               "launched", "failed", "ok"}
Event      == [kind : {"start", "text", "perm", "done", "end"}, run : Streams]

(* A run started in the foreground shares the context of its parent; one   *)
(* started in the background is detached from it.                          *)
CtxOf[r \in Streams] ==
  IF r = Root \/ strat[r] = "async" THEN r ELSE CtxOf[Parent[r]]
Cancelled(r) == CtxOf[r] \in cancelled

Closed(s)  == phase[s] = "closed"
HasRoom(s) == Len(buf[s]) < Cap
Put(b, s, e) == [b EXCEPT ![s] = Append(@, e)]
Offer(b, s, e) == IF Len(b[s]) < Cap THEN Put(b, s, e) ELSE b
Ev(k, r) == [kind |-> k, run |-> r]

(* A parent is blocked in its tool call while a foreground run lasts. *)
Busy(s) == \E r \in Runs : Parent[r] = s /\ strat[r] = "sync" /\ fwd[r] # "off"

Init ==
  /\ phase = [s \in Streams |-> IF s = Root THEN "loop" ELSE "idle"]
  /\ buf = [s \in Streams |-> <<>>]
  /\ strat = [r \in Runs |-> "none"]
  /\ fwd = [r \in Runs |-> "off"]
  /\ held = [r \in Runs |-> Root]
  /\ task = [r \in Runs |-> "none"]
  /\ sent = [s \in Streams |-> 0]
  /\ got = [r \in Runs |-> 0]
  /\ term = [s \in Streams |-> "none"]
  /\ seen = [r \in Runs |-> "none"]
  /\ asked = {}
  /\ shown = {}
  /\ allowed = FALSE
  /\ reply = [r \in Runs |-> "none"]
  /\ plan = {}
  /\ cancelled = {}
  /\ crashed = FALSE

-----------------------------------------------------------------------------
(* Starting a run.  The tool checks its input, the dispatcher picks the    *)
(* strategy and runs the middlewares: only a background run gets a row.    *)

(* The task table.  A row ends once, whoever tries again. *)
Register(t, r)             == [t EXCEPT ![r] = IF @ \in {"none", "foreground"} THEN "running" ELSE @]
Terminate(t, r, status)    == [t EXCEPT ![r] = IF @ = "running" THEN status ELSE @]
RegisterForeground(t, r)   == [t EXCEPT ![r] = IF @ = "none" THEN "foreground" ELSE @]
UnregisterForeground(t, r) == [t EXCEPT ![r] = IF @ = "foreground" THEN "none" ELSE @]
NeedsTaskRow(s)            == s = "async"

MayCall(r) == phase[r] = "idle" /\ reply[r] = "none" /\ strat[r] = "none"
              /\ phase[Parent[r]] = "loop" /\ ~Busy(Parent[r]) /\ ~crashed

(* Bad input, an unknown agent, plan mode: nothing is dispatched. *)
Rejected(r) ==
  /\ MayCall(r)
  /\ reply' = [reply EXCEPT ![r] = "invalid_input"]
  /\ UNCHANGED <<loopVars, strat, fwd, held, task, got, seen, plan, buf, userVars, crashed>>

(* Strategies in order: async if the call asks for it, else sync. *)
Handles(s, background) == s = "sync" \/ background
Selected(r, background) ==
  IF ToolOf[r] = "freelance" /\ Handles("async", background) THEN "async" ELSE "sync"

(* What a failed dispatch tells the model: only the tool dispatch looks at *)
(* the context to tell the user's stop from a failure.                     *)
ErrorReply(r) ==
  IF ToolOf[r] = "dispatch" /\ Cancelled(r) THEN "user_aborted" ELSE "dependency_fail"

(* The sub-session, tool pool, prompt and skills are in place; the loop's  *)
(* goroutine announces the run in its stream.                              *)
Launch(r) ==
  /\ phase' = [phase EXCEPT ![r] = "loop"]
  /\ buf' = Offer(buf, r, Ev("start", r))

SpawnSync(r) ==
  /\ MayCall(r)
  /\ Selected(r, FALSE) = "sync"
  /\ strat' = [strat EXCEPT ![r] = "sync"]
  /\ fwd' = [fwd EXCEPT ![r] = "read"]
  /\ task' = RegisterForeground(task, r)
  /\ Launch(r)
  /\ UNCHANGED <<sent, term, asked, held, got, seen, reply, plan, userVars, crashed>>

(* The runtime could not be set up: the placeholder row is removed again. *)
SpawnSyncFails(r) ==
  /\ MayCall(r)
  /\ Selected(r, FALSE) = "sync"
  /\ strat' = [strat EXCEPT ![r] = "sync"]
  /\ reply' = [reply EXCEPT ![r] = ErrorReply(r)]
  /\ UNCHANGED <<loopVars, fwd, held, task, got, seen, plan, buf, userVars, crashed>>

SpawnAsync(r) ==
  /\ MayCall(r)
  /\ Selected(r, TRUE) = "async"
  /\ strat' = [strat EXCEPT ![r] = "async"]
  /\ LET row == IF NeedsTaskRow("async") THEN Register(task, r) ELSE task IN
     \/ (* the goroutine runs on a context of its own *)
        /\ reply' = [reply EXCEPT ![r] = "launched"]
        /\ fwd' = [fwd EXCEPT ![r] = "read"]
        /\ task' = row
        /\ Launch(r)
     \/ (* the runtime fails inside that goroutine *)
        /\ reply' = [reply EXCEPT ![r] = "launched"]
        /\ task' = Terminate(row, r, "failed")
        /\ UNCHANGED <<fwd, phase, buf>>
     \/ (* the output file cannot be opened *)
        /\ reply' = [reply EXCEPT ![r] = "dependency_fail"]
        /\ task' = Terminate(row, r, "failed")
        /\ UNCHANGED <<fwd, phase, buf>>
  /\ UNCHANGED <<sent, term, asked, held, got, seen, plan, userVars, crashed>>

-----------------------------------------------------------------------------
(* The loop of a run writes to its own stream with plain sends: no context *)
(* gets it out of a full one.                                              *)

LoopText(s) ==
  /\ phase[s] = "loop" /\ ~Busy(s) /\ ~crashed /\ sent[s] < MaxTexts
  /\ phase' = [phase EXCEPT ![s] = "send"]
  /\ UNCHANGED <<sent, term, asked, buf, callVars, userVars, crashed>>

SendText(s) ==
  /\ phase[s] = "send" /\ HasRoom(s) /\ ~crashed
  /\ phase' = [phase EXCEPT ![s] = "loop"]
  /\ sent' = [sent EXCEPT ![s] = @ + 1]
  /\ buf' = Put(buf, s, Ev("text", s))
  /\ UNCHANGED <<term, asked, callVars, userVars, crashed>>

(* BuildSubAgentApprovalFn: a tool the session allows is approved at once; *)
(* otherwise the request is registered with the root session and sent.     *)
Ask(r) ==
  /\ phase[r] = "loop" /\ ~Busy(r) /\ ~crashed /\ r \notin asked
  /\ asked' = asked \cup {r}
  /\ phase' = IF allowed THEN phase ELSE [phase EXCEPT ![r] = "ask"]
  /\ UNCHANGED <<sent, term, buf, callVars, userVars, crashed>>

SendAsk(r) ==
  /\ phase[r] = "ask" /\ HasRoom(r) /\ ~crashed
  /\ phase' = [phase EXCEPT ![r] = "wait"]
  /\ buf' = Put(buf, r, Ev("perm", r))
  /\ UNCHANGED <<sent, term, asked, callVars, userVars, crashed>>

AskCancelled(r) ==
  /\ phase[r] = "wait" /\ Cancelled(r) /\ ~crashed
  /\ phase' = [phase EXCEPT ![r] = "loop"]
  /\ UNCHANGED <<sent, term, asked, buf, callVars, userVars, crashed>>

(* The client answers a request it was shown, for this call or for the session. *)
Answer(r) ==
  /\ phase[r] = "wait" /\ r \in shown /\ ~crashed
  /\ phase' = [phase EXCEPT ![r] = "loop"]
  /\ \E session \in BOOLEAN : allowed' = (allowed \/ session)
  /\ UNCHANGED <<sent, term, asked, buf, callVars, shown, cancelled, crashed>>

Finish(r) ==
  /\ phase[r] = "loop" /\ ~Busy(r) /\ ~crashed
  /\ phase' = [phase EXCEPT ![r] = "finish"]
  /\ \E t \in IF Cancelled(r) THEN {"aborted"} ELSE {"completed", "failed"} :
       term' = [term EXCEPT ![r] = t]
  /\ UNCHANGED <<sent, asked, buf, callVars, userVars, crashed>>

SendDone(r) ==
  /\ phase[r] = "finish" /\ HasRoom(r) /\ ~crashed
  /\ phase' = [phase EXCEPT ![r] = "end"]
  /\ buf' = Put(buf, r, Ev("done", r))
  /\ UNCHANGED <<sent, term, asked, callVars, userVars, crashed>>

(* subagent.end is offered, then the stream is closed. *)
Close(r) ==
  /\ phase[r] = "end" /\ ~crashed
  /\ phase' = [phase EXCEPT ![r] = "closed"]
  /\ buf' = Offer(buf, r, Ev("end", r))
  /\ UNCHANGED <<sent, term, asked, callVars, userVars, crashed>>

-----------------------------------------------------------------------------
(* The reader of a run's stream. *)

Reading(r) == fwd[r] = "read" /\ buf[r] # <<>> /\ ~crashed

AccumulateForwarded(r, e) ==
  /\ got' = IF e = Ev("text", r) /\ HasRoom(Parent[r]) THEN [got EXCEPT ![r] = @ + 1] ELSE got
  /\ seen' = IF e = Ev("done", r) THEN [seen EXCEPT ![r] = term[r]] ELSE seen
(* accumulate, or the file on disk and the row's counters. *)
Accumulate(r, e) ==
  /\ got' = IF e = Ev("text", r) THEN [got EXCEPT ![r] = @ + 1] ELSE got
  /\ seen' = IF e = Ev("done", r) THEN [seen EXCEPT ![r] = term[r]] ELSE seen

(* A text or a lifecycle event goes up if there is room; done stays here.  *)
(* A send on a closed stream panics even inside a select with a default.   *)
ForwardOne(r) ==
  LET e == Head(buf[r])
      p == Parent[r]
      rest == [buf EXCEPT ![r] = Tail(@)]
  IN /\ Reading(r) /\ e.kind # "perm"
     /\ Accumulate(r, e)
     /\ IF e = Ev("done", r) THEN buf' = rest /\ UNCHANGED crashed
        ELSE IF Closed(p) THEN buf' = rest /\ crashed' = TRUE
        ELSE buf' = Offer(rest, p, e) /\ UNCHANGED crashed
     /\ UNCHANGED <<loopVars, strat, fwd, held, task, reply, plan, userVars>>

TakePerm(r) ==
  /\ Reading(r) /\ Head(buf[r]).kind = "perm"
  /\ fwd' = [fwd EXCEPT ![r] = "perm"]
  /\ held' = [held EXCEPT ![r] = Head(buf[r]).run]
  /\ buf' = [buf EXCEPT ![r] = Tail(@)]
  /\ UNCHANGED <<loopVars, strat, task, got, seen, reply, plan, userVars, crashed>>

ForwardPerm(r) ==
  /\ fwd[r] = "perm" /\ ~crashed /\ (HasRoom(Parent[r]) \/ Closed(Parent[r]))
  /\ fwd' = [fwd EXCEPT ![r] = "read"]
  /\ IF Closed(Parent[r]) THEN crashed' = TRUE /\ UNCHANGED buf
     ELSE buf' = Put(buf, Parent[r], Ev("perm", held[r])) /\ UNCHANGED crashed
  /\ UNCHANGED <<loopVars, strat, held, task, got, seen, reply, plan, userVars>>

(* The foreground caller leaves as soon as its context is cancelled; the   *)
(* run is left to itself and its stream is read by nobody.                 *)
SyncCancelled(r) ==
  /\ strat[r] = "sync" /\ fwd[r] # "off" /\ Cancelled(r) /\ ~crashed
  /\ fwd' = [fwd EXCEPT ![r] = "off"]
  /\ task' = UnregisterForeground(task, r)
  /\ reply' = [reply EXCEPT ![r] = ErrorReply(r)]
  /\ UNCHANGED <<loopVars, strat, held, got, seen, plan, buf, userVars, crashed>>

Drained(r) == fwd[r] = "read" /\ buf[r] = <<>> /\ Closed(r) /\ ~crashed

(* The planner completed; whether its deliverables have a plan file is up  *)
(* to it.                                                                  *)
PlanMade == {r \in Planner : ToolOf[r] = "dispatch" /\ seen[r] = "completed"}

OutcomeReply(t) == IF t \in {"none", "completed"} THEN "ok" ELSE "failed"

SyncReturns(r) ==
  /\ strat[r] = "sync" /\ Drained(r)
  /\ fwd' = [fwd EXCEPT ![r] = "off"]
  /\ task' = UnregisterForeground(task, r)
  /\ reply' = [reply EXCEPT ![r] = OutcomeReply(seen[r])]
  /\ plan' \in {plan} \cup {plan \cup {q} : q \in {r} \cap PlanMade}
  /\ UNCHANGED <<loopVars, strat, held, got, seen, buf, userVars, crashed>>

(* The row is completed however the run ended. *)
AsyncReturns(r) ==
  /\ strat[r] = "async" /\ Drained(r)
  /\ fwd' = [fwd EXCEPT ![r] = "off"]
  /\ task' = Terminate(task, r, "completed")
  /\ UNCHANGED <<loopVars, strat, held, got, seen, reply, plan, buf, userVars, crashed>>

-----------------------------------------------------------------------------
(* The query's stream is read by the channel as long as it lasts. *)
ClientReads ==
  /\ buf[Root] # <<>> /\ ~crashed
  /\ LET e == Head(buf[Root]) IN
       shown' = IF e.kind = "perm" THEN shown \cup {e.run} ELSE shown
  /\ buf' = [buf EXCEPT ![Root] = Tail(@)]
  /\ UNCHANGED <<loopVars, callVars, allowed, cancelled, crashed>>

RootEnds ==
  /\ phase[Root] = "loop" /\ ~Busy(Root) /\ ~crashed
  /\ phase' = [phase EXCEPT ![Root] = "closed"]
  /\ UNCHANGED <<sent, term, asked, buf, callVars, userVars, crashed>>

Stop ==
  /\ Root \notin cancelled /\ ~Closed(Root) /\ ~crashed
  /\ cancelled' = cancelled \cup {Root}
  /\ UNCHANGED <<loopVars, callVars, buf, shown, allowed, crashed>>

(* What the code does by itself, without the user. *)
RunStep(r) ==
  \/ SendText(r) \/ SendAsk(r) \/ AskCancelled(r) \/ Finish(r) \/ SendDone(r) \/ Close(r)
  \/ ForwardOne(r) \/ TakePerm(r) \/ ForwardPerm(r)
  \/ SyncCancelled(r) \/ SyncReturns(r) \/ AsyncReturns(r)

Next ==
  \/ \E r \in Runs : \/ Rejected(r) \/ SpawnSync(r) \/ SpawnSyncFails(r) \/ SpawnAsync(r)
                     \/ LoopText(r) \/ Ask(r) \/ Answer(r) \/ RunStep(r)
  \/ ClientReads \/ RootEnds \/ Stop

Fairness ==
  /\ \A r \in Runs : WF_vars(SyncCancelled(r)) /\ WF_vars(RunStep(r))
  /\ WF_vars(ClientReads) /\ WF_vars(RootEnds)

Spec == Init /\ [][Next]_vars /\ Fairness

-----------------------------------------------------------------------------
Path[s \in Streams] == IF s = Root THEN {Root} ELSE {s} \cup Path[Parent[s]]

TypeOK ==
  /\ phase \in [Streams -> {"idle", "loop", "send", "ask", "wait", "finish", "end", "closed"}]
  /\ \A s \in Streams : buf[s] \in Seq(Event) /\ Len(buf[s]) <= Cap
  /\ strat \in [Runs -> Strategies]
  /\ fwd \in [Runs -> {"off", "read", "perm"}]
  /\ held \in [Runs -> Streams]
  /\ task \in [Runs -> {"none", "foreground", "running", "completed", "failed"}]
  /\ sent \in [Streams -> 0 .. MaxTexts] /\ got \in [Runs -> 0 .. MaxTexts]
  /\ term \in [Streams -> Terminals] /\ seen \in [Runs -> Terminals]
  /\ asked \subseteq Runs /\ shown \subseteq Runs /\ cancelled \subseteq Streams
  /\ plan \subseteq Planner
  /\ reply \in [Runs -> Replies] /\ allowed \in BOOLEAN /\ crashed \in BOOLEAN

(* The task table tells what became of the runs: a foreground run has its  *)
(* placeholder exactly while its caller reads, a background run is running *)
(* exactly while its goroutine does, and a completed one has ended and has *)
(* been written out whole.                                                 *)
SchedulerInv ==
  /\ TypeOK
  /\ \A r \in Runs :
      /\ task[r] = "foreground" <=> strat[r] = "sync" /\ fwd[r] # "off"
      /\ task[r] = "running" <=> strat[r] = "async" /\ fwd[r] # "off"
      /\ task[r] = "completed" => Closed(r) /\ got[r] = sent[r]

(* Dropping texts on the way up never costs the caller anything: a         *)
(* foreground run that returned normally gave it every text the run sent   *)
(* and the terminal the run ended with.                                    *)
ResultIsWhole ==
  \A r \in Runs : reply[r] \in {"ok", "failed"} =>
    got[r] = sent[r] /\ seen[r] = term[r] /\ (reply[r] = "ok" <=> term[r] = "completed")

(* A request that waits for the user is never lost between the run and the *)
(* client, however full the streams are: as long as no caller above it was *)
(* cancelled it is in a stream, in the hands of a reader, or on the screen.*)
Travelling(r) == \/ \E q \in Path[r] : Ev("perm", r) \in ToSet(buf[q])
                 \/ \E q \in Path[r] \ {Root} : fwd[q] = "perm" /\ held[q] = r
PermissionOnItsWay ==
  \A r \in Runs :
    phase[r] = "wait" /\ ~crashed /\ (\A q \in Path[r] : ~Cancelled(q))
      => r \in shown \/ Travelling(r)

(* After the user's stop every foreground call up the tree returns, even   *)
(* one that is waiting for room in a stream nobody reads any more.  A run  *)
(* is started once, so that again and again none is held.                  *)
NoCallIsHeld ==
  \A r \in Runs : strat[r] = "sync" /\ Root \in cancelled
                    => crashed \/ CtxOf[r] # Root \/ fwd[r] = "off"

(* async.go detaches a background run from the query that started it; it   *)
(* is expected to go on when the query has ended.                          *)
BackgroundOutlivesQuery == ~crashed
=============================================================================
