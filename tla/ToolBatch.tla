------------------------------ MODULE ToolBatch ------------------------------
(***************************************************************************)
(* The tool calls of one turn of a run of the loop.  The batch is split     *)
(* into segments of calls the client runs and of calls the server runs.  A  *)
(* server segment runs its calls that are safe side by side, then the       *)
(* others one at a time; each passes the permission check, which may ask    *)
(* the user.  A client segment sends its calls, then collects the answers.  *)
(* The other agents of the conversation run at the same time and share the  *)
(* approvals the user gave for the session.                                 *)
(***************************************************************************)
EXTENDS Naturals, Sequences

CONSTANTS
  Tools,     \* names of the registered tools
  Kind,      \* what each of them is, a record of Kinds
  Keys,      \* what the user can approve for the session, elsewhere too
  Batches,   \* batches of calls: sequences of [tool, key]
  Settings,  \* agents: [main, mode, allowed, denied, list, strip, inherited, asks]
  Queue,     \* events the channel of the run holds
  MaxLength, \* bound: calls of a batch
  None       \* no result, no answer

Kinds ==
  [enabled : BOOLEAN, readOnly : BOOLEAN, concurrent : BOOLEAN, client : BOOLEAN, long : BOOLEAN,
   edits : BOOLEAN, risky : BOOLEAN, dispatch : BOOLEAN, blocked : BOOLEAN,
   pre : {"none", "allow", "deny"}]
Modes == {"default", "plan", "accept_edits", "bypass", "dont_ask", "auto"}

ASSUME ToolsAssumption ==
  /\ Kind \in [Tools -> Kinds] /\ Queue \in Nat \ {0}
  /\ MaxLength \in Nat
  /\ \A b \in Batches : /\ Len(b) \in 1..MaxLength /\ DOMAIN b = 1..Len(b)
                         /\ \A i \in DOMAIN b : b[i].tool \in Tools
  /\ \A s \in Settings : s.mode \in Modes /\ s.list \subseteq Tools

\* What a call returns to the model, as far as it matters.
Results ==
  {"ok", "failed", "panic", "timeout", "aborted", "cancelled", "denied", "unknown", "invalid"}

ASSUME NoneAssumption == None \notin Results

VARIABLES
  agent,     \* the agent of the run
  batch,     \* its calls
  first,     \* the first call of the segment that is being run
  state,     \* calls: "new", "check", "ask", "asking", "waiting", "run", "ending", "requested", "done"
  result,    \* calls: None or what is returned to the model
  reply,     \* client calls: None or the answer that arrived
  awaits,    \* calls registered with the conversation for an answer of the client
  granted,   \* keys approved for the session
  out,       \* events not yet taken from the run's channel: <<what, call>>
  cancelled, \* whether the query was cancelled
  ran,       \* ghost: calls whose tool ran on the server
  yes        \* ghost: calls the user approved

vars == <<agent, batch, first, state, result, reply, awaits, granted, out, cancelled, ran, yes>>

Calls == DOMAIN batch
KindOf(i) == Kind[batch[i].tool]

-----------------------------------------------------------------------------
(* The tools of the agent. *)

FilterByNames(pool, names) == pool \cap names
WithoutNames(pool, names) == pool \ names

\* What no sub-agent may call unless its definition lists it.
FilterToolsForAgent(pool) == {t \in pool : ~Kind[t].blocked}

BuildToolPool(pool, names, strip) ==
  WithoutNames(IF names # {} THEN FilterByNames(pool, names) ELSE FilterToolsForAgent(pool),
               IF strip THEN {t \in Tools : Kind[t].dispatch} ELSE {})

Pool ==
  LET enabled == {t \in Tools : Kind[t].enabled}
  IN IF ~agent.main THEN BuildToolPool(enabled, agent.list, agent.strip)
     ELSE IF agent.list # {} THEN FilterByNames(enabled, agent.list) ELSE enabled

Known(i) == batch[i].tool \in Pool /\ KindOf(i).enabled
Client(i) == KindOf(i).client /\ batch[i].tool \in Pool
Parallel(i) == (KindOf(i).readOnly \/ KindOf(i).concurrent) /\ batch[i].tool \in Pool

-----------------------------------------------------------------------------
(* The permission check. *)

DenyRule(t) == t \in agent.denied

ModeDefault(t) ==
  CASE agent.mode = "dont_ask" -> "allow"
    [] agent.mode = "accept_edits" -> IF Kind[t].edits THEN "allow" ELSE "ask"
    [] agent.mode \in {"plan", "auto"} -> "ask"
    [] OTHER -> IF Kind[t].risky THEN "ask" ELSE "allow"

\* The step that would ask the tool is never given the tool.
Pipeline(t) ==
  IF DenyRule(t) THEN "deny"
  ELSE IF agent.mode = "bypass" \/ t \in agent.allowed \/ Kind[t].readOnly THEN "allow"
  ELSE ModeDefault(t)

OuterChecker(t) ==
  LET inner == Pipeline(t)
  IN IF inner = "ask" /\ agent.mode = "dont_ask" THEN "deny" ELSE inner

MainChecker(t) == IF agent.mode = "bypass" THEN "allow" ELSE OuterChecker(t)

\* The names of tools are looked up among the keys the user approved.
InheritedChecker(t) ==
  IF agent.inherited = {} \/ Kind[t].readOnly \/ t \in agent.inherited THEN "allow" ELSE "ask"

\* The tool's own word counts before any rule.
Decision(i) ==
  LET t == batch[i].tool
  IN IF Kind[t].pre # "none" THEN Kind[t].pre
     ELSE IF agent.main THEN MainChecker(t) ELSE InheritedChecker(t)

-----------------------------------------------------------------------------
(* Segments and their order. *)

Init ==
  /\ agent \in Settings /\ batch \in Batches
  /\ first = 1 /\ state = [i \in Calls |-> "new"]
  /\ result = [i \in Calls |-> None] /\ reply = [i \in Calls |-> None]
  /\ awaits = {} /\ granted = agent.inherited /\ out = <<>> /\ cancelled = FALSE
  /\ ran = {} /\ yes = {}

Segment == {i \in Calls : i >= first /\ \A j \in first..i : Client(j) = Client(first)}
Finished == first > Len(batch)

NextSegment ==
  /\ ~Finished /\ \A i \in Segment : state[i] = "done"
  /\ \E last \in Calls : Segment = first..last /\ first' = last + 1
  /\ UNCHANGED <<agent, batch, state, result, reply, awaits, granted, out, cancelled, ran, yes>>

Move(i, s) == state' = [state EXCEPT ![i] = s]
Room == Len(out) < Queue
Emit(what, i) == Room /\ out' = Append(out, <<what, i>>)
Unseen(i) == \E n \in DOMAIN out : out[n] = <<"question", i>>

\* Bug: serial calls wait for serial ones only.
EarlierSerialDone(i) ==
  i \in Segment /\ \A j \in Segment : j < i /\ ~Parallel(j) => Parallel(i) \/ state[j] = "done"

\* Serial calls wait for the parallel ones, and for the serial ones before them.
MayStart(i) ==
  /\ i \in Segment
  /\ Parallel(i) \/ \A j \in Segment : Parallel(j) \/ j < i => state[j] = "done"

Skip(i) ==
  /\ state[i] = "new" /\ cancelled /\ MayStart(i) /\ ~Client(i) /\ ~Parallel(i)
  /\ Move(i, "done") /\ result' = [result EXCEPT ![i] = "cancelled"]
  /\ UNCHANGED <<agent, batch, first, reply, awaits, granted, out, cancelled, ran, yes>>

Start(i) ==
  /\ state[i] = "new" /\ MayStart(i) /\ ~Client(i) /\ (Parallel(i) \/ ~cancelled)
  /\ Emit("start", i) /\ Move(i, "check")
  /\ UNCHANGED <<agent, batch, first, result, reply, awaits, granted, cancelled, ran, yes>>

Refuse(i, why) == Move(i, "ending") /\ result' = [result EXCEPT ![i] = why]

\* The tool, its input and the permission.
Check(i) ==
  /\ state[i] = "check"
  /\ \/ ~Known(i) /\ Refuse(i, "unknown") /\ UNCHANGED ran
     \/ Known(i) /\ Refuse(i, "invalid") /\ UNCHANGED ran
     \/ Known(i) /\ Decision(i) = "deny" /\ Refuse(i, "denied") /\ UNCHANGED ran
     \/ Known(i) /\ Decision(i) = "allow" /\ Move(i, "run") /\ ran' = ran \cup {i} /\ UNCHANGED result
     \/ Known(i) /\ Decision(i) = "ask" /\ Move(i, "ask") /\ UNCHANGED <<result, ran>>
  /\ UNCHANGED <<agent, batch, first, reply, awaits, granted, out, cancelled, yes>>

\* A question that is answered for the session is not asked again.
Ask(i) ==
  /\ state[i] = "ask"
  /\ \/ ~agent.asks /\ Refuse(i, "denied") /\ UNCHANGED <<awaits, ran>>
     \/ agent.asks /\ batch[i].key \in granted
        /\ Move(i, "run") /\ ran' = ran \cup {i} /\ UNCHANGED <<result, awaits>>
     \/ agent.asks /\ batch[i].key \notin granted
        /\ Move(i, "asking") /\ awaits' = awaits \cup {i} /\ UNCHANGED <<result, ran>>
  /\ UNCHANGED <<agent, batch, first, reply, granted, out, cancelled, yes>>

\* The question takes its place in the channel, however long that takes.
Show(i) ==
  /\ state[i] = "asking" /\ Emit("question", i) /\ Move(i, "waiting")
  /\ UNCHANGED <<agent, batch, first, result, reply, awaits, granted, cancelled, ran, yes>>

Approve(i) ==
  /\ state[i] = "waiting" /\ ~Unseen(i)
  /\ Move(i, "run") /\ awaits' = awaits \ {i} /\ ran' = ran \cup {i} /\ yes' = yes \cup {i}
  /\ granted' \in {granted, granted \cup {batch[i].key}}
  /\ UNCHANGED <<agent, batch, first, result, reply, out, cancelled>>

\* The user says no, or every open question of the conversation is closed.
Denied(i) ==
  /\ state[i] = "waiting" /\ (~Unseen(i) \/ cancelled)
  /\ Refuse(i, "denied") /\ awaits' = awaits \ {i}
  /\ UNCHANGED <<agent, batch, first, reply, granted, out, cancelled, ran, yes>>

Abandon(i) ==
  /\ state[i] = "waiting" /\ cancelled
  /\ Refuse(i, "denied") /\ awaits' = awaits \ {i}
  /\ UNCHANGED <<agent, batch, first, reply, granted, out, cancelled, ran, yes>>

\* Long tools have their own clock; the others are stopped by the executor's.
Outcomes(i) ==
  {"ok", "failed", "panic"}
    \cup (IF KindOf(i).long THEN {} ELSE {"timeout"})
    \cup (IF cancelled THEN {"aborted"} ELSE {})

Run(i) ==
  /\ state[i] = "run"
  /\ \E r \in Outcomes(i) : Refuse(i, r)
  /\ UNCHANGED <<agent, batch, first, reply, awaits, granted, out, cancelled, ran, yes>>

End(i) ==
  /\ state[i] = "ending" /\ Emit("end", i) /\ Move(i, "done")
  /\ UNCHANGED <<agent, batch, first, result, reply, awaits, granted, cancelled, ran, yes>>

-----------------------------------------------------------------------------
(* Calls the client runs. *)

InClientSegment(i) == i \in Segment /\ Client(i)

\* Bug: the registration is left behind.
KeepTool(i) == awaits' = awaits \cup {i}

ForgetTool(i) == awaits' = awaits \ {i}

\* Registered, then sent unless the query is cancelled first.
Request(i) ==
  /\ state[i] = "new" /\ InClientSegment(i) /\ \A j \in Segment : j < i => state[j] # "new"
  /\ \/ Emit("call", i) /\ awaits' = awaits \cup {i} /\ Move(i, "requested") /\ UNCHANGED result
     \/ /\ cancelled /\ ForgetTool(i) /\ Move(i, "done")
        /\ result' = [result EXCEPT ![i] = "cancelled"] /\ UNCHANGED out
  /\ UNCHANGED <<agent, batch, first, reply, granted, cancelled, ran, yes>>

\* In order, each for its answer or the end of the query.
Collect(i) ==
  /\ state[i] = "requested"
  /\ \A j \in Segment : state[j] # "new" /\ (j < i => state[j] = "done")
  /\ \/ reply[i] # None /\ result' = [result EXCEPT ![i] = reply[i]] /\ UNCHANGED awaits
     \/ cancelled /\ result' = [result EXCEPT ![i] = "cancelled"] /\ ForgetTool(i)
  /\ Move(i, "done")
  /\ UNCHANGED <<agent, batch, first, reply, granted, out, cancelled, ran, yes>>

\* The status of the answer becomes that of the result.
ClientAnswers(i) ==
  /\ i \in awaits /\ Client(i) /\ \A n \in DOMAIN out : out[n] # <<"call", i>>
  /\ \E r \in {"ok", "failed"} : reply' = [reply EXCEPT ![i] = r]
  /\ awaits' = awaits \ {i}
  /\ UNCHANGED <<agent, batch, first, state, result, granted, out, cancelled, ran, yes>>

-----------------------------------------------------------------------------
(* The rest of the program. *)

Cancel ==
  /\ ~cancelled /\ ~Finished /\ cancelled' = TRUE
  /\ UNCHANGED <<agent, batch, first, state, result, reply, awaits, granted, out, ran, yes>>

\* The reader of the run's events.
Relay ==
  /\ out # <<>> /\ out' = Tail(out)
  /\ UNCHANGED <<agent, batch, first, state, result, reply, awaits, granted, cancelled, ran, yes>>

\* The user answers another agent of the conversation, for the session.
ApprovedElsewhere ==
  /\ ~Finished
  /\ \E k \in Keys \cap {batch[i].key : i \in {j \in Calls : state[j] \in {"check", "ask", "waiting"}}} :
       granted' = granted \cup {k}
  /\ UNCHANGED <<agent, batch, first, state, result, reply, awaits, out, cancelled, ran, yes>>

Progress(i) ==
  \/ Skip(i) \/ Start(i) \/ Check(i) \/ Ask(i) \/ Show(i) \/ Abandon(i) \/ Run(i) \/ End(i)
  \/ Request(i) \/ Collect(i)

Answer(i) == Approve(i) \/ Denied(i) \/ ClientAnswers(i)

Next ==
  \/ \E i \in Calls : Progress(i) \/ Answer(i)
  \/ NextSegment \/ Cancel \/ Relay \/ ApprovedElsewhere

\* The run, its tools and the reader of its events go on; the user and the client need not.
Fairness ==
  /\ \A i \in 1..MaxLength : WF_vars(i \in Calls /\ Progress(i))
  /\ WF_vars(NextSegment) /\ WF_vars(Relay)

Spec == Init /\ [][Next]_vars /\ Fairness

-----------------------------------------------------------------------------
(* Properties. *)

\* Between its first and its last event a call that is not safe in parallel has the batch to
\* itself, also while it waits for the user (ExecuteBatch and dispatchTools).
SerialAlone ==
  LET Busy == {i \in Calls : state[i] \notin {"new", "done", "requested"}}
  IN \A i, j \in Busy : i # j => Parallel(i) /\ Parallel(j)

AllowedBySettings(t) ==
  IF agent.main
  THEN \/ agent.mode \in {"bypass", "dont_ask"} \/ t \in agent.allowed
       \/ agent.mode = "accept_edits" /\ Kind[t].edits
       \/ agent.mode = "default" /\ ~Kind[t].risky
  ELSE agent.inherited = {} \/ t \in agent.inherited

\* Whatever the order of answers, of approvals for the session and of cancellations: a tool ran
\* on the server only when the agent has it, no rule denies it, and it is harmless, allowed by
\* the settings, by itself, or by the user, for the call or for the session.
RunsAsAllowed ==
  \A i \in ran :
    LET t == batch[i].tool
    IN /\ Kind[t].enabled /\ (agent.list # {} => t \in agent.list)
       /\ \/ Kind[t].pre = "allow"
          \/ /\ Kind[t].pre = "none"
             /\ agent.main /\ agent.mode # "bypass" => t \notin agent.denied
             /\ \/ Kind[t].readOnly \/ AllowedBySettings(t)
                \/ i \in yes \/ batch[i].key \in granted

\* When the batch is over each call has its result, and nothing of it is left registered with
\* the conversation, where an answer that comes late would find it (executeClientTools).
EveryCallAnswered ==
  Finished => awaits = {} /\ \A i \in Calls : result[i] # None

\* Tools run when they may: alone unless safe in parallel, and with consent; and when a batch
\* is over each call has its result.
RunsWhenAllowed == SerialAlone /\ RunsAsAllowed /\ EveryCallAnswered
=============================================================================
