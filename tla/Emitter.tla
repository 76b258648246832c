------------------------------- MODULE Emitter -------------------------------
(***************************************************************************)
(* What the builder (internal/channel/emit/v2, builder.go) adds to what    *)
(* the translator asks for: who speaks, and the card it hangs under.       *)
(*                                                                         *)
(* An emitter speaks for one agent: that of a connection for the main      *)
(* agent, and a child of it (Sub) for each sub-agent.  Each keeps a stack  *)
(* of the cards opened through it; all share the tracker, which remembers  *)
(* for ever under which card a card was opened.  Frames are built before   *)
(* they are sent: by the translator, one event at a time, and by the       *)
(* watchdog.                                                               *)
(*                                                                         *)
(* The engine is reduced to what opens and closes cards: Main calls tools  *)
(* in order, one of which may run an agent that calls a tool of its own.   *)
(* When a card has been quiet for too long is left to Cards: here the      *)
(* watchdog may take a watched card at any time.                           *)
(***************************************************************************)
EXTENDS Naturals, Sequences, SequencesExt

CONSTANTS
  Connections,  \* of one session, each with its emitter
  Agents,       \* sub-agents
  Calls,        \* agent or "main" -> its tool calls, in order
  Spawns,       \* tool call -> the agent it runs, or None
  MaxQueries,   \* bound
  MaxSweeps,    \* bound: cards the watchdog takes
  None

Everyone == Agents \cup {"main"}
ToolCalls == UNION {ToSet(Calls[x]) : x \in Everyone}
Queries == 1 .. MaxQueries
Emitters == Connections \cup (Agents \X Queries)

TurnCard(q) == <<"turn", "main", q>>
MessageCard(x, q) == <<"message", x, q>>
ToolCard(t, q) == <<"tool", t, q>>
AgentCard(a, q) == <<"agent", a, q>>
Card == {TurnCard(q) : q \in Queries} \cup {MessageCard(x, q) : x \in Everyone, q \in Queries}
        \cup {ToolCard(t, q) : t \in ToolCalls, q \in Queries}
        \cup {AgentCard(a, q) : a \in Agents, q \in Queries}

VARIABLES
  stack,     \* Emitter.parents
  open,      \* Tracker.open: the cards watched, and whether they can expire
  parentOf,  \* Tracker.parentOf, which Close does not clear
  maker,     \* the emitter a tracked card was opened through (openCard.builder)
  todo,      \* what an actor still has to emit
  frame,     \* the frame an actor has built and not yet sent
  under,     \* ghost: the card the client hangs a card under
  quitted,   \* ghost: cards the client was told to close
  now, em,   \* the query, and the emitter Reply chose for it
  turn, msg, tools, child,  \* sessionState
  pc, call,  \* the engine
  swept      \* cards the watchdog has taken so far

wire == <<stack, open, parentOf, maker, todo, frame, under, quitted>>
session == <<now, em, turn, msg, tools, child>>
vars == <<wire, session, pc, call, swept>>

Actor == {"translator", "watchdog"}
Op == [how : {"add", "update", "close"}, by : Emitters, card : Card,
       below : Card \cup {None}, watched : BOOLEAN]
Emit(how, e, c, p, w) == [how |-> how, by |-> e, card |-> c, below |-> p, watched |-> w]

Init ==
  /\ stack = [e \in Emitters |-> <<>>] /\ open = [c \in Card |-> "no"]
  /\ parentOf = [c \in Card |-> None] /\ maker = [c \in Card |-> None]
  /\ todo = [k \in Actor |-> <<>>] /\ frame = [k \in Actor |-> None]
  /\ under = [c \in Card |-> None] /\ quitted = {}
  /\ now = 0 /\ em = None /\ turn = None /\ msg = [x \in Everyone |-> None] /\ tools = {}
  /\ child = [a \in Agents |-> None]
  /\ pc = [x \in Everyone |-> "idle"] /\ call = [t \in ToolCalls |-> "none"] /\ swept = 0

(***************************************************************************)
(* The builder.                                                            *)
(***************************************************************************)
Top(e) == IF stack[e] = <<>> THEN None ELSE Last(stack[e])

\* the card the stack names, whatever the frame is about
TopOfStack(op) == Top(op.by)

\* popParentOverrideOrTop for an add, lookupParent for the rest
Parent(op) ==
  IF op.below # None THEN op.below
  ELSE IF op.how = "add" /\ Top(op.by) # None THEN Top(op.by) ELSE parentOf[op.card]

\* buildEnvelope
Build(k) ==
  /\ todo[k] # <<>> /\ frame[k] = None
  /\ frame' = [frame EXCEPT ![k] = [parent |-> Parent(Head(todo[k]))]]
  /\ UNCHANGED <<stack, open, parentOf, maker, todo, under, quitted, session, pc, call, swept>>

\* popParent: the last occurrence of the card, wherever it is
PopParent(q, c) ==
  IF c \notin ToSet(q) THEN q
  ELSE RemoveAt(q, CHOOSE i \in DOMAIN q : q[i] = c /\ \A j \in DOMAIN q : q[j] = c => j <= i)

\* Add opens what the tracker watches, and a chain-only entry for what opted out
Send(k) ==
  /\ frame[k] # None
  /\ frame' = [frame EXCEPT ![k] = None] /\ todo' = [todo EXCEPT ![k] = Tail(@)]
  /\ LET op == Head(todo[k])
         c == op.card
     IN  \/ /\ op.how = "add"
            /\ stack' = [stack EXCEPT ![op.by] = Append(@, c)]
            /\ open' = [open EXCEPT ![c] = IF op.watched THEN "watched" ELSE "kept"]
            /\ parentOf' = [parentOf EXCEPT ![c] = frame[k].parent]
            /\ maker' = [maker EXCEPT ![c] = op.by]
            /\ under' = [under EXCEPT ![c] = frame[k].parent] /\ quitted' = quitted \ {c}
         \/ op.how = "update" /\ UNCHANGED <<stack, open, parentOf, maker, under, quitted>>
         \/ /\ op.how = "close"
            /\ stack' = [stack EXCEPT ![op.by] = PopParent(@, c)]
            /\ open' = [open EXCEPT ![c] = "no"]
            /\ quitted' = quitted \cup {c} /\ UNCHANGED <<parentOf, maker, under>>
  /\ UNCHANGED <<session, pc, call, swept>>

\* sweep takes a card under the lock and closes it later, through the builder that opened it
Sweep(c) ==
  /\ open[c] = "watched" /\ swept < MaxSweeps
  /\ swept' = swept + 1
  /\ open' = [open EXCEPT ![c] = "no"]
  /\ todo' = [todo EXCEPT !["watchdog"] = Append(@, Emit("close", maker[c], c, None, FALSE))]
  /\ UNCHANGED <<stack, parentOf, maker, frame, under, quitted, session, pc, call>>

(***************************************************************************)
(* The translator: one event at a time.                                    *)
(***************************************************************************)
Ready == todo["translator"] = <<>>
Translate(ops) ==
  /\ todo' = [todo EXCEPT !["translator"] = ops]
  /\ UNCHANGED <<stack, open, parentOf, maker, frame, under, quitted, swept>>

Scope(x) == IF x # "main" /\ child[x] # None THEN x ELSE "main"   \* scopeFor
Speaker(x) == IF Scope(x) = "main" THEN em ELSE child[x]
MainParent == IF msg["main"] # None THEN msg["main"] ELSE turn      \* parentForTool
Home(x) == IF Scope(x) = "main" THEN turn ELSE AgentCard(x, now)
ToolParent(x) ==                                                   \* parentForToolInScope
  IF msg[Scope(x)] # None THEN msg[Scope(x)] ELSE IF Scope(x) = "main" THEN turn ELSE Home(x)

\* a query begins, over one of the connections: the turn is given no parent
Ask(e) ==
  /\ Ready /\ pc["main"] = "idle" /\ now < MaxQueries
  /\ now' = now + 1 /\ em' = e /\ turn' = TurnCard(now + 1)
  /\ pc' = [pc EXCEPT !["main"] = "llm"]
  /\ call' = [t \in ToolCalls |-> "none"]
  /\ Translate(<<Emit("add", e, TurnCard(now + 1), None, TRUE)>>)
  /\ UNCHANGED <<msg, tools, child>>

\* text, into the open message of x or a new one
Text(x) ==
  /\ Ready /\ pc[x] = "llm"
  /\ LET m == MessageCard(Scope(x), now) IN
     /\ msg' = [msg EXCEPT ![Scope(x)] = m]
     /\ Translate(IF msg[Scope(x)] # None THEN <<Emit("update", Speaker(x), m, None, FALSE)>>
                  ELSE <<Emit("add", Speaker(x), m, Home(x), TRUE),
                         Emit("update", Speaker(x), m, None, FALSE)>>)
  /\ UNCHANGED <<now, em, turn, tools, child, pc, call>>

\* ToolQueued goes to the emitter of the connection, whoever calls the tool; it may be dropped.
\* The message of Main ends.
Queued(x, told) ==
  [i \in DOMAIN told |-> Emit("add", em, ToolCard(told[i], now), MainParent, FALSE)]
Respond(x) ==
  /\ Ready /\ pc[x] = "llm"
  /\ pc' = [pc EXCEPT ![x] = "tools"]
  /\ call' = [t \in ToolCalls |-> IF t \in ToSet(Calls[x]) THEN "queued" ELSE call[t]]
  /\ \E told \in {Calls[x], <<>>} :
       /\ tools' = tools \cup ToSet(told)
       /\ Translate(IF x = "main" /\ msg[x] # None
                    THEN Append(Queued(x, told), Emit("close", em, msg[x], None, FALSE))
                    ELSE Queued(x, told))
  /\ msg' = IF x = "main" THEN [msg EXCEPT ![x] = None] ELSE msg
  /\ UNCHANGED <<now, em, turn, child>>

Owner(t) == CHOOSE x \in Everyone : t \in ToSet(Calls[x])
Next1(x) == SelectSeq(Calls[x], LAMBDA t : call[t] # "ended")

ToolStart(t) ==
  LET x == Owner(t) IN
  /\ Ready /\ pc[x] = "tools" /\ call[t] = "queued" /\ Head(Next1(x)) = t
  /\ call' = [call EXCEPT ![t] = "running"]
  /\ pc' = IF Spawns[t] # None THEN [pc EXCEPT ![Spawns[t]] = "born"] ELSE pc
  /\ tools' = tools \cup {t}
  /\ Translate(<<IF t \in tools THEN Emit("update", Speaker(x), ToolCard(t, now), None, FALSE)
                 ELSE Emit("add", Speaker(x), ToolCard(t, now), ToolParent(x), Spawns[t] = None)>>)
  /\ UNCHANGED <<now, em, turn, msg, child>>

\* closed through the emitter of the agent that called it.  A call that runs an agent ends before
\* the agent when the query is stopped: nothing more is heard of the agent.
ToolEnd(t) ==
  LET x == Owner(t) IN
  /\ Ready /\ pc[x] = "tools" /\ call[t] = "running"
  /\ call' = [call EXCEPT ![t] = "ended"] /\ tools' = tools \ {t}
  /\ pc' = IF Spawns[t] # None THEN [pc EXCEPT ![Spawns[t]] = "idle"] ELSE pc
  /\ Translate(<<Emit("close", Speaker(x), ToolCard(t, now), None, FALSE)>>)
  /\ UNCHANGED <<now, em, turn, msg, child>>

\* Sub: the child starts with what its parent has on top
AgentStart(a) ==
  LET t == CHOOSE u \in ToolCalls : Spawns[u] = a IN
  /\ Ready /\ pc[a] = "born"
  /\ pc' = [pc EXCEPT ![a] = "llm"]
  /\ child' = [child EXCEPT ![a] = <<a, now>>] /\ msg' = [msg EXCEPT ![a] = None]
  /\ stack' = [stack EXCEPT ![<<a, now>>] = IF Top(em) = None THEN <<>> ELSE <<Top(em)>>]
  /\ todo' = [todo EXCEPT !["translator"] =
                <<Emit("add", <<a, now>>, AgentCard(a, now), ToolCard(t, now), TRUE)>>]
  /\ UNCHANGED <<open, parentOf, maker, frame, under, quitted, now, em, turn, tools, call,
                 swept>>

\* a sub-agent reports no end of its message, and its next run has another id
AgentEnd(a) ==
  /\ Ready /\ pc[a] = "tools" /\ Next1(a) = <<>>
  /\ pc' = [pc EXCEPT ![a] = "idle"]
  /\ child' = [child EXCEPT ![a] = None]
  /\ Translate(<<Emit("close", child[a], AgentCard(a, now), None, FALSE)>>)
  /\ UNCHANGED <<now, em, turn, msg, tools, call>>

\* EngineEventDone.  When the query was stopped, calls that had not begun were never reported.
Done ==
  /\ Ready /\ pc["main"] = "tools" /\ \A t \in ToSet(Calls["main"]) : call[t] # "running"
  /\ pc' = [pc EXCEPT !["main"] = "idle"]
  /\ turn' = None /\ msg' = [msg EXCEPT !["main"] = None] /\ tools' = {}
  /\ Translate((IF msg["main"] # None THEN <<Emit("close", em, msg["main"], None, FALSE)>> ELSE <<>>)
               \o <<Emit("close", em, turn, None, FALSE)>>)
  /\ UNCHANGED <<now, em, child, call>>

Next ==
  \/ \E k \in Actor : Build(k) \/ Send(k)
  \/ \E c \in Card : Sweep(c)
  \/ \E e \in Connections : Ask(e)
  \/ \E x \in Everyone : Text(x) \/ Respond(x)
  \/ \E t \in ToolCalls : ToolStart(t) \/ ToolEnd(t)
  \/ \E a \in Agents : AgentStart(a) \/ AgentEnd(a)
  \/ Done

Spec == Init /\ [][Next]_vars

(***************************************************************************)
(* Properties.                                                             *)
(***************************************************************************)
\* Types, and what the emitters and the tracker know of each other: a card on a stack was opened
\* through that emitter or was on top of the stack the emitter was made from, a tracked card is on
\* the stack of the emitter that opened it, and its parent is the one the client was told.
EmitterInv ==
  /\ stack \in [Emitters -> Seq(Card)]
  /\ open \in [Card -> {"no", "watched", "kept"}]
  /\ \A k \in Actor : ToSet(todo[k]) \subseteq Op /\ (frame[k] # None => todo[k] # <<>>)
  /\ \A c \in Card : /\ open[c] # "no" => /\ maker[c] # None /\ c \notin quitted
                                           /\ c \in ToSet(stack[maker[c]])
                     /\ parentOf[c] = under[c]
  /\ \A e \in Emitters : \A i \in DOMAIN stack[e] :
       maker[stack[e][i]] = e \/ (i = 1 /\ e \notin Connections)

\* Every frame about a card names the card it was added under, whatever other cards have been
\* opened and closed since, by whatever emitter, and by whichever of translator and watchdog
\* (builder.go, lookupParent).
FramesNameTheirParent ==
  \A k \in Actor : frame[k] # None /\ Head(todo[k]).how # "add" =>
    frame[k].parent = under[Head(todo[k]).card]

\* A turn hangs under nothing (docs/protocols/websocket.md, card kinds).
TurnIsRoot == \A q \in Queries : under[TurnCard(q)] = None
=============================================================================
