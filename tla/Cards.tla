------------------------------- MODULE Cards -------------------------------
(***************************************************************************)
(* What one query shows on the wire: the cards a client draws.  The engine *)
(* (internal/engine/loop, loop/llmcall, loop/toolexec, scheduler/sync_)    *)
(* reports what it does as events; the translator                         *)
(* (channel/websocket/translator.go) turns each into card.add, card.set,   *)
(* card.append and card.close; and the watchdog (channel/emit/v2,          *)
(* lifecycle.go) closes, as failed, every tracked card that has been quiet *)
(* for longer than its limit, unless a question to the user holds it.      *)
(*                                                                         *)
(* The channel between engine and translator is a FIFO with one consumer   *)
(* that never blocks, so an event is translated where it is sent; what the *)
(* channel adds, that a non-blocking send is lost when it is full, is      *)
(* Lost.  The unit of time is several heartbeats long.                     *)
(***************************************************************************)
EXTENDS Naturals, Sequences, FiniteSets, SequencesExt

CONSTANTS
  Main,         \* the agent the user talks to (emma)
  Agents,       \* its sub-agents, whatever their depth
  Tools,        \* the tool calls of the query, by tool_use_id
  Calls,        \* agent -> the tool calls of its first model round
  Spawns,       \* tool call -> the sub-agent it runs, or None
  Concurrent,   \* the calls of tools that are read-only or concurrency-safe
  Limit,        \* kind of card -> units of silence the watchdog grants
  MaxRetries,   \* bound: model calls that fail and are retried
  MaxPrompts,   \* bound: permission requests
  MaxDrops,     \* bound: events lost to a full channel
  MaxAborts,    \* bound: session.interrupt frames (0 or 1)
  MaxMessages,  \* bound: message cards of one agent
  None

Everyone == Agents \cup {Main}

ASSUME CardsAssumption ==
  /\ Main \notin Agents /\ None \notin Everyone \cup Tools
  /\ Calls \in [Everyone -> Seq(Tools)] /\ Spawns \in [Tools -> Agents \cup {None}]
  /\ \A t \in Tools : Cardinality({x \in Everyone : t \in ToSet(Calls[x])}) = 1
  /\ \A a \in Agents : Cardinality({t \in Tools : Spawns[t] = a}) = 1
  /\ Concurrent \subseteq Tools
  \* the tool by which Main runs an agent (dispatch) is not concurrency-safe
  /\ \A t \in Concurrent : t \in ToSet(Calls[Main]) => Spawns[t] = None
  \* the unit in which a card was touched counts as well, hence at least 2
  /\ Limit \in [{"turn", "message", "tool", "agent"} -> Nat \ {0, 1}]
  /\ MaxRetries \in Nat /\ MaxPrompts \in Nat /\ MaxDrops \in Nat /\ MaxAborts \in Nat
  /\ MaxMessages \in Nat

TheTurn == <<"turn", Main>>
ToolCard(t) == <<"tool", t>>
AgentCard(a) == <<"agent", a>>
Messages == {<<"message", x, n>> : x \in Everyone, n \in 1 .. MaxMessages}
Card == {TheTurn} \cup Messages \cup {ToolCard(t) : t \in Tools} \cup {AgentCard(a) : a \in Agents}
OwnerOf(t) == CHOOSE x \in Everyone : t \in ToSet(Calls[x])
CallOf(a) == CHOOSE t \in Tools : Spawns[t] = a

VARIABLES
  board,     \* the tracker and the client's view of every card
  turn, msg, \* sessionState: the open turn, and the open message of every agent
  minted,    \* messages opened so far, per agent
  known,     \* tool calls the translator has a card id for (sessionState.tools)
  planning,  \* the ones only announced (toolsFromPlanning)
  seen,      \* sub-agents whose start was translated (subAgentCard)
  asked,     \* unanswered prompts, named by the call they are about
  holds,     \* prompt -> the cards it holds (pausedCards)
  expiring,  \* cards taken by a sweep whose synthetic close is not yet sent
  pc, round, \* what every agent is doing, and in which model round
  call,      \* tool call -> how far it is
  beaten,    \* agents that sent a heartbeat in this unit of time
  stopped, retries, prompts, drops

engine == <<pc, round, call>>
session == <<turn, msg, minted, known, planning, seen>>
waiting == <<asked, holds>>
bounds == <<stopped, retries, prompts, drops>>
vars == <<board, session, waiting, expiring, engine, beaten, bounds>>

(***************************************************************************)
(* Cards.  A board is what the tracker knows (open, held, left, limit,     *)
(* parent) and what the client was told (adds, last, and strays: the cards *)
(* it was told of before they were added).                                 *)
(***************************************************************************)
EmptyBoard ==
  [open |-> {}, held |-> {}, left |-> [c \in Card |-> 0], limit |-> [c \in Card |-> 0],
   parent |-> [c \in Card |-> None], adds |-> [c \in Card |-> 0],
   last |-> [c \in Card |-> "none"], strays |-> {}]

\* c and every card above it, through closed ones too: parent links are permanent
Lineage(b, c) ==
  LET up[n \in 0 .. Cardinality(Card)] ==
        IF n = 0 THEN {c} \ {None}
        ELSE {b.parent[d] : d \in up[n - 1]} \ {None}
  IN  UNION {up[n] : n \in 0 .. Cardinality(Card)}

\* Tracker.Touch: a sign of life restarts the limit of the card and of all above it
Touch(b, c) ==
  [b EXCEPT !.left = [d \in Card |-> IF d \in (Lineage(b, c) \cap b.open) \ b.held
                                     THEN b.limit[d] ELSE @[d]]]

\* CardBuilder.Add; limit 0 is a chain-only entry, which the watchdog never closes
Add(b, c, limit, p) ==
  Touch([b EXCEPT !.open = @ \cup {c}, !.held = @ \ {c}, !.left[c] = limit, !.limit[c] = limit,
                  !.parent[c] = p, !.adds[c] = @ + 1, !.last[c] = "none"], p)

\* CardBuilder.Set, Append and Tick
Strays(b, c) == IF b.adds[c] = 0 THEN b.strays \cup {c} ELSE b.strays
Update(b, c) == Touch([b EXCEPT !.strays = Strays(b, c)], c)

\* CardBuilder.Close: the parent has just seen a child finish
Close(b, c, how) ==
  Touch([b EXCEPT !.open = @ \ {c}, !.held = @ \ {c}, !.last[c] = how,
                  !.strays = Strays(b, c)], b.parent[c])


\* Tracker.SuspendChain climbs the open cards only
SuspendChain(b, c) ==
  LET reach[n \in 0 .. Cardinality(Card)] ==
        IF n = 0 THEN {c} \cap b.open
        ELSE {b.parent[d] : d \in reach[n - 1]} \cap b.open
  IN  UNION {reach[n] : n \in 0 .. Cardinality(Card)} \ b.held

\* Tracker.ResumeChain gives every card its full limit again
ResumeChain(b, cards) ==
  LET resumed == cards \cap b.open \cap b.held
  IN  [b EXCEPT !.held = @ \ resumed,
                !.left = [d \in Card |-> IF d \in resumed THEN b.limit[d] ELSE @[d]]]

Init ==
  /\ board = EmptyBoard /\ turn = None /\ msg = [x \in Everyone |-> None]
  /\ minted = [x \in Everyone |-> 0] /\ known = {} /\ planning = {} /\ seen = {}
  /\ asked = {} /\ holds = [t \in Tools |-> {}] /\ expiring = {}
  /\ pc = [x \in Everyone |-> IF x = Main THEN "begin" ELSE "unborn"]
  /\ round = [x \in Everyone |-> 1] /\ call = [t \in Tools |-> "none"]
  /\ beaten = {} /\ stopped = FALSE /\ retries = 0 /\ prompts = 0 /\ drops = 0

(***************************************************************************)
(* Who is reported, and to which card.                                     *)
(***************************************************************************)
Scope(x) == IF x \in seen THEN x ELSE Main            \* sessionState.scopeFor
HomeOf(x) == IF x = Main THEN TheTurn ELSE AgentCard(x)
MainParent == IF msg[Main] # None THEN msg[Main] ELSE TheTurn     \* parentForTool
WithTurn(b) == IF turn = None THEN Add(b, TheTurn, Limit["turn"], None) ELSE b

\* an event of x that the channel or the forwarder of a sub-agent may drop
Lost(n) == drops + n <= MaxDrops /\ drops' = drops + n
Kept == UNCHANGED drops
Droppable(x) == x # Main     \* Main's own blocking sends always arrive

CallsNow(x) == IF round[x] = 1 THEN Calls[x] ELSE <<>>
IsOver(t) == call[t] \in {"ended", "skipped"}
InModelCall(x) == pc[x] \in {"llm", "planned"}

(***************************************************************************)
(* One model round.                                                        *)
(***************************************************************************)
\* emma's OnTurnStart; a message opened by NextRoundThinking is only completed
Begin ==
  /\ pc[Main] = "begin" /\ ~stopped
  /\ pc' = [pc EXCEPT ![Main] = "llm"]
  /\ turn' = TheTurn
  /\ IF msg[Main] # None
     THEN board' = Update(WithTurn(board), msg[Main]) /\ UNCHANGED <<msg, minted>>
     ELSE LET m == <<"message", Main, minted[Main] + 1>>
          IN  /\ m \in Card
              /\ board' = Add(WithTurn(board), m, Limit["message"], TheTurn)
              /\ msg' = [msg EXCEPT ![Main] = m]
              /\ minted' = [minted EXCEPT ![Main] = @ + 1]
  /\ UNCHANGED <<known, planning, seen, waiting, expiring, round, call, beaten, bounds>>

Text(x) ==
  /\ pc[x] = "llm"
  /\ LET y == Scope(x)
         m == <<"message", y, minted[y] + 1>>
     IN  \/ /\ msg[y] # None
            /\ board' = Update(board, msg[y])
            /\ UNCHANGED <<msg, minted>>
         \/ /\ msg[y] = None /\ m \in Card
            /\ board' = Add(board, m, Limit["message"], HomeOf(y))
            /\ msg' = [msg EXCEPT ![y] = m]
            /\ minted' = [minted EXCEPT ![y] = @ + 1]
  /\ UNCHANGED <<turn, known, planning, seen, waiting, expiring, engine, beaten, bounds>>

\* the tool calls of the round show up in the stream; nothing is sent to the client
Plan(x) ==
  /\ pc[x] = "llm" /\ CallsNow(x) # <<>>
  /\ pc' = [pc EXCEPT ![x] = "planned"]
  /\ \E lost \in SUBSET ToSet(CallsNow(x)) :
       /\ Lost(Cardinality(lost))
       /\ planning' = planning \cup (ToSet(CallsNow(x)) \ (lost \cup known))
       /\ known' = known \cup (ToSet(CallsNow(x)) \ lost)
  /\ UNCHANGED <<board, turn, msg, minted, seen, waiting, expiring, round, call, beaten,
                 stopped, retries, prompts>>

\* the card that shows that x is alive: its agent card, or Main's open message
PulseCard(x) == IF x \in seen THEN AgentCard(x) ELSE msg[Main]

\* runLLMHeartbeat
Heartbeat(x) ==
  /\ InModelCall(x) /\ x \notin beaten
  /\ beaten' = beaten \cup {x}
  /\ board' = IF PulseCard(x) # None THEN Update(board, PulseCard(x)) ELSE board
  /\ UNCHANGED <<session, waiting, expiring, engine, bounds>>

\* CallLLM's onRetry: TextReset, LLMRetry and ToolPlanningRetract, each lost on its own.
\* The retract forgets every call of the session that is planned and not started.
Retry(x) ==
  /\ InModelCall(x) /\ retries < MaxRetries
  /\ retries' = retries + 1
  /\ pc' = [pc EXCEPT ![x] = "llm"]
  /\ \E kept \in SUBSET {"reset", "note", "retract"} :
       LET m == msg[Scope(x)]
           reset == "reset" \in kept /\ m # None
           closed == IF reset THEN Close(board, m, "ok") ELSE board
           pulse == IF reset /\ x \notin seen THEN None ELSE PulseCard(x)
       IN  /\ Lost(3 - Cardinality(kept))
           /\ msg' = IF reset THEN [msg EXCEPT ![Scope(x)] = None] ELSE msg
           /\ board' = IF "note" \in kept /\ pulse # None THEN Update(closed, pulse) ELSE closed
           /\ IF "retract" \in kept
              THEN known' = known \ planning /\ planning' = {}
              ELSE UNCHANGED <<known, planning>>
  /\ UNCHANGED <<turn, minted, seen, waiting, expiring, round, call, beaten, stopped, prompts>>

\* ToolQueued: whoever asked, the card hangs under Main's message, and it is not watched
Queue(b, t) == Add(b, ToolCard(t), 0, MainParent)

\* ToolQueued for every call, and, for Main, MessageDelta and MessageStop; a sub-agent reports no
\* end of its message
Respond(x) ==
  /\ pc[x] = (IF CallsNow(x) = <<>> THEN "llm" ELSE "planned")
  /\ pc' = [pc EXCEPT ![x] = IF CallsNow(x) # <<>> THEN "tools"
                             ELSE IF x = Main THEN "finish" ELSE "ending"]
  /\ call' = [t \in Tools |-> IF t \in ToSet(CallsNow(x)) THEN "queued" ELSE call[t]]
  /\ \E lost \in SUBSET ToSet(CallsNow(x)) :
       /\ Lost(Cardinality(lost))
       /\ known' = known \cup (ToSet(CallsNow(x)) \ lost)
       /\ LET queue(b, t) == IF t \in lost THEN b ELSE Queue(b, t)
              queued == FoldLeft(queue, board, CallsNow(x))
          IN  IF x = Main /\ msg[Main] # None
              THEN /\ board' = Close(queued, msg[Main], "ok")
                   /\ msg' = [msg EXCEPT ![Main] = None]
              ELSE board' = queued /\ UNCHANGED msg
  /\ UNCHANGED <<turn, minted, planning, seen, waiting, expiring, round, beaten,
                 stopped, retries, prompts>>

(***************************************************************************)
(* One tool call (ToolExecutor.ExecuteBatch and executeSingle).            *)
(***************************************************************************)
ParallelPart(x) == ToSet(Calls[x]) \cap Concurrent
Startable(t) ==
  LET x == OwnerOf(t)
      before == {u \in ToSet(Calls[x]) : \E i, j \in DOMAIN Calls[x] :
                                            i < j /\ Calls[x][i] = u /\ Calls[x][j] = t}
  IN  /\ pc[x] = "tools" /\ call[t] = "queued"
      /\ t \in Concurrent \/ \A u \in ParallelPart(x) \cup before : IsOver(u)

ToolParent(x) ==      \* parentForToolInScope
  IF msg[Scope(x)] # None THEN msg[Scope(x)]
  ELSE IF x \in seen THEN AgentCard(x) ELSE MainParent

ToolStart(t) ==
  LET x == OwnerOf(t) IN
  /\ Startable(t) /\ (stopped => t \in Concurrent)
  /\ call' = [call EXCEPT ![t] = "running"]
  /\ pc' = IF Spawns[t] # None THEN [pc EXCEPT ![Spawns[t]] = "born"] ELSE pc
  /\ \/ /\ t \in known /\ Kept
        /\ board' = Update(board, ToolCard(t))
        /\ planning' = planning \ {t} /\ UNCHANGED known
     \/ /\ t \notin known /\ Kept
        /\ board' = Add(board, ToolCard(t),
                        IF Spawns[t] # None THEN 0 ELSE Limit["tool"], ToolParent(x))
        /\ known' = known \cup {t} /\ UNCHANGED planning
     \/ Droppable(x) /\ Lost(1) /\ UNCHANGED <<board, known, planning>>
  /\ UNCHANGED <<turn, msg, minted, seen, waiting, expiring, round, beaten,
                 stopped, retries, prompts>>

\* the query was stopped before this serial call began: no event at all
SkipCall(t) ==
  /\ Startable(t) /\ stopped /\ t \notin Concurrent
  /\ call' = [call EXCEPT ![t] = "skipped"]
  /\ UNCHANGED <<board, session, waiting, expiring, pc, round, beaten, bounds>>

\* A permission request carries no agent id, so it is anchored at Main's message or turn.
Ask(t) ==
  /\ call[t] = "running" /\ Spawns[t] = None /\ ~stopped /\ prompts < MaxPrompts
  /\ prompts' = prompts + 1
  /\ call' = [call EXCEPT ![t] = "asking"]
  /\ asked' = asked \cup {t}
  /\ LET taken == SuspendChain(board, MainParent)
         paused == [board EXCEPT !.held = @ \cup taken]
     IN  /\ holds' = [holds EXCEPT ![t] = taken]
         /\ board' = IF t \in known THEN Update(paused, ToolCard(t)) ELSE paused
  /\ UNCHANGED <<session, expiring, pc, round, beaten, stopped, retries, drops>>

\* conn.go finds the prompt (ResolvePermission), which lets go of what it held
Answer(t) ==
  /\ t \in asked
  /\ asked' = asked \ {t}
  /\ board' = ResumeChain(board, holds[t])
  /\ holds' = [holds EXCEPT ![t] = {}]
  /\ call' = [call EXCEPT ![t] = IF @ = "asking" THEN "running" ELSE @]
  /\ UNCHANGED <<session, expiring, pc, round, beaten, bounds>>

\* the approval function gives up with the context; the prompt stays on the screen
Withdraw(t) ==
  /\ call[t] = "asking" /\ stopped
  /\ call' = [call EXCEPT ![t] = "running"]
  /\ UNCHANGED <<board, session, waiting, expiring, pc, round, beaten, bounds>>

\* A call that runs an agent ends with it, or (sync_.Strategy) as soon as the query is
\* stopped: nobody forwards what the agents under it still report.
ToolEnd(t) ==
  LET x == OwnerOf(t)
      deserted == Spawns[t] # None /\ pc[Spawns[t]] # "done"
  IN
  /\ call[t] = "running" /\ (deserted => stopped /\ x = Main)
  /\ call' = [call EXCEPT ![t] = "ended"]
  /\ pc' = IF deserted
           THEN [y \in Everyone |-> IF y = Main \/ pc[y] \in {"unborn", "done"} THEN pc[y]
                                    ELSE "cut"]
           ELSE pc
  /\ \/ /\ Kept /\ board' = Close(board, ToolCard(t), "ok")
        /\ known' = known \ {t} /\ planning' = planning \ {t}
     \/ Droppable(x) /\ Lost(1) /\ UNCHANGED <<board, known, planning>>
  /\ UNCHANGED <<turn, msg, minted, seen, waiting, expiring, round, beaten,
                 stopped, retries, prompts>>

\* all results are in; Main announces its next round (NextRoundThinking)
Collect(x) ==
  LET m == <<"message", Main, minted[Main] + 1>> IN
  /\ pc[x] = "tools" /\ \A t \in ToSet(Calls[x]) : IsOver(t)
  /\ pc' = [pc EXCEPT ![x] = IF x = Main THEN "begin" ELSE "llm"]
  /\ round' = [round EXCEPT ![x] = 2]
  /\ IF x = Main /\ msg[Main] = None
     THEN /\ m \in Card
          /\ board' = Add(board, m, Limit["message"], TheTurn)
          /\ msg' = [msg EXCEPT ![Main] = m]
          /\ minted' = [minted EXCEPT ![Main] = @ + 1]
     ELSE UNCHANGED <<board, msg, minted>>
  /\ UNCHANGED <<turn, known, planning, seen, waiting, expiring, call, beaten, bounds>>

(***************************************************************************)
(* Sub-agents (loop/runtime/llm.go) and the end of the query.              *)
(***************************************************************************)
\* parentForSubAgent: the call's card, the boss's card, any tool card, the turn
AgentParents(a) ==
  LET t == CallOf(a) IN
  IF t \in known THEN {ToolCard(t)}
  ELSE IF OwnerOf(t) \in seen THEN {AgentCard(OwnerOf(t))}
  ELSE IF known # {} THEN {ToolCard(u) : u \in known} ELSE {MainParent}

AgentStart(a) ==
  /\ pc[a] = "born"
  /\ pc' = [pc EXCEPT ![a] = "llm"]
  /\ \/ /\ Kept /\ seen' = seen \cup {a}
        /\ \E p \in AgentParents(a) : board' = Add(board, AgentCard(a), Limit["agent"], p)
     \/ Lost(1) /\ UNCHANGED <<board, seen>>
  /\ UNCHANGED <<turn, msg, minted, known, planning, waiting, expiring, round, call, beaten,
                 stopped, retries, prompts>>

AgentEnd(a) ==
  /\ pc[a] = "ending"
  /\ pc' = [pc EXCEPT ![a] = "done"]
  /\ \/ /\ Kept /\ seen' = seen \ {a}
        /\ board' = IF a \in seen THEN Close(board, AgentCard(a), "ok") ELSE board
     \/ Lost(1) /\ UNCHANGED <<board, seen>>
  /\ UNCHANGED <<turn, msg, minted, known, planning, waiting, expiring, round, call, beaten,
                 stopped, retries, prompts>>

\* session.interrupt cancels the context of the query
Stop ==
  /\ ~stopped /\ MaxAborts > 0 /\ pc[Main] \notin {"finish", "idle"}
  /\ stopped' = TRUE
  /\ UNCHANGED <<board, session, waiting, expiring, engine, beaten, retries, prompts, drops>>

\* the model call fails with the context (OnLLMError), or the loop sees it at its top
Unwind ==
  /\ stopped /\ pc[Main] \in {"begin", "llm", "planned"}
  /\ pc' = [pc EXCEPT ![Main] = "finish"]
  /\ IF InModelCall(Main) /\ msg[Main] # None
     THEN board' = Close(board, msg[Main], "ok") /\ msg' = [msg EXCEPT ![Main] = None]
     ELSE UNCHANGED <<board, msg>>
  /\ UNCHANGED <<turn, minted, known, planning, seen, waiting, expiring, round, call, beaten,
                 bounds>>

\* EngineEventDone
Finish ==
  /\ pc[Main] = "finish"
  /\ pc' = [pc EXCEPT ![Main] = "idle"]
  /\ LET told == IF msg[Main] # None THEN Close(board, msg[Main], "ok") ELSE board
     IN  board' = IF turn # None THEN Close(told, turn, "ok") ELSE told
  /\ msg' = [msg EXCEPT ![Main] = None] /\ turn' = None /\ known' = {}
  /\ UNCHANGED <<minted, planning, seen, waiting, expiring, round, call, beaten, bounds>>

(***************************************************************************)
(* The watchdog.                                                           *)
(***************************************************************************)
Expired == {c \in board.open \ board.held : board.limit[c] > 0 /\ board.left[c] = 0}

\* cards whose parent is gone are dropped without a word
SweepUnderOpenParents ==
  /\ Expired # {}
  /\ board' = [board EXCEPT !.open = @ \ Expired]
  /\ expiring' = expiring \cup {c \in Expired : board.parent[c] \in board.open \cup {None}}
  /\ UNCHANGED <<session, waiting, engine, beaten, bounds>>

Sweep ==      \* the emits come after the lock: SyntheticClose
  /\ Expired # {}
  /\ board' = [board EXCEPT !.open = @ \ Expired]
  /\ expiring' = expiring \cup Expired
  /\ UNCHANGED <<session, waiting, engine, beaten, bounds>>

SyntheticClose(c) ==
  /\ c \in expiring
  /\ expiring' = expiring \ {c}
  /\ board' = Close(board, c, "orphan")
  /\ UNCHANGED <<session, waiting, engine, beaten, bounds>>

\* steps of the engine that take no time worth counting
Quick ==
  \/ \E x \in Everyone : pc[x] \in {"begin", "born", "ending", "finish"}
  \/ \E x \in Everyone : pc[x] = "tools" /\ \A t \in ToSet(Calls[x]) : IsOver(t)
  \/ \E t \in Tools : Startable(t)
  \/ \E t \in Tools : call[t] = "running" /\ (Spawns[t] = None \/ pc[Spawns[t]] = "done")
  \/ stopped /\ pc[Main] # "idle"

\* a unit of time goes by in model calls, in which every caller sent a heartbeat, in
\* waiting for the user, or after the query
Tick ==
  /\ ~Quick /\ Expired = {} /\ expiring = {}
  /\ \A x \in Everyone : InModelCall(x) => x \in beaten
  /\ beaten' = {}
  /\ board' = [board EXCEPT !.left = [c \in Card |-> IF c \in board.open \ board.held /\ @[c] > 0
                                                    THEN @[c] - 1 ELSE @[c]]]
  /\ UNCHANGED <<session, waiting, expiring, engine, bounds>>

Next ==
  \/ Begin \/ Stop \/ Unwind \/ Finish \/ Sweep \/ Tick
  \/ \E x \in Everyone : Text(x) \/ Plan(x) \/ Heartbeat(x) \/ Retry(x) \/ Respond(x) \/ Collect(x)
  \/ \E t \in Tools : ToolStart(t) \/ SkipCall(t) \/ Ask(t) \/ Answer(t) \/ Withdraw(t) \/ ToolEnd(t)
  \/ \E a \in Agents : AgentStart(a) \/ AgentEnd(a)
  \/ \E c \in Card : SyntheticClose(c)

Spec == Init /\ [][Next]_vars

(***************************************************************************)
(* Properties.                                                             *)
(***************************************************************************)
AgentStates == {"unborn", "born", "begin", "llm", "planned", "tools", "ending", "finish",
                "done", "cut", "idle"}

\* Types; and what the tracker and the translator know of each other: a tracked card was
\* added, a card taken by a sweep is no longer tracked, and only an unanswered prompt
\* keeps a card from the watchdog (SuspendChain and ResumeChain pair up).
CardsInv ==
  /\ pc \in [Everyone -> AgentStates] /\ round \in [Everyone -> {1, 2}]
  /\ call \in [Tools -> {"none", "queued", "running", "asking", "ended", "skipped"}]
  /\ board.open \subseteq {c \in Card : board.adds[c] > 0}
  /\ \A c \in Card : board.left[c] \in 0 .. board.limit[c]
  /\ expiring \cap board.open = {}
  /\ board.held \subseteq board.open \cap UNION {holds[t] : t \in asked}
  /\ {msg[x] : x \in Everyone} \subseteq Messages \cup {None}
  /\ turn \in {None, TheTurn} /\ planning \subseteq Tools /\ known \subseteq Tools

NewlyExpired == expiring' \ expiring

\* the agents that wait for a, a included, and their cards
Awaiting(a) ==
  LET up[n \in 0 .. Cardinality(Agents)] ==
        IF n = 0 THEN {a} \cap Agents
        ELSE {OwnerOf(CallOf(b)) : b \in up[n - 1]} \cap Agents
  IN  UNION {up[n] : n \in 0 .. Cardinality(Agents)}
WaitingCards(a) == {TheTurn} \cup {AgentCard(b) : b \in Awaiting(a)}

\* While the heartbeats of a sub-agent's model call come in, the watchdog closes neither its
\* card nor the card of anyone who waits for it: a heartbeat counts all the way up
\* (Tracker.Touch), through cards that are closed already.  A lost event may cost a card
\* its place in the tree.
AwaitedSurvive ==
  [][\A a \in seen \cap beaten :
       InModelCall(a) /\ drops = 0 => WaitingCards(a) \cap NewlyExpired = {}]_vars

\* While a prompt is unanswered, the watchdog closes neither the turn nor any card the prompt
\* took hold of (suspendForPrompt), and, unless an event was lost, not the card of the call
\* that asks.
HeldWhileAsked ==
  [][\A t \in asked :
       /\ ({TheTurn} \cup holds[t]) \cap NewlyExpired = {}
       /\ drops = 0 => ToolCard(t) \notin NewlyExpired]_vars

\* Refuted: nor any card of the agents that wait for the answer.
AncestorsHeldWhileAsked ==
  [][\A t \in asked : WaitingCards(OwnerOf(t)) \cap NewlyExpired = {}]_vars

\* While the heartbeats of Main's model call come in, the watchdog does not close the turn.
TurnSurvivesModelCalls == [][InModelCall(Main) /\ Main \in beaten => TheTurn \notin NewlyExpired]_vars

\* the query is over and the watchdog has nothing left to do
Settled ==
  /\ pc[Main] = "idle" /\ expiring = {}
  /\ \A c \in board.open : board.limit[c] = 0 \/ c \in board.held

\* When the query is over, the watchdog has closed every card it looks after that the engine
\* had not.  What is left open are cards of tool calls that nobody watches: of calls a stop
\* kept from ending, and of calls whose end was lost, one for each lost event at most.
NoZombies ==
  Settled =>
    LET left == {c \in Card : board.adds[c] > 0 /\ board.last[c] = "none"}
        calls == {t \in Tools : ToolCard(t) \in left}
        ended == {t \in calls : call[t] = "ended"}
    IN  /\ \A c \in left : board.limit[c] = 0
        /\ left = {ToolCard(t) : t \in calls}
        /\ Cardinality(ended) <= drops /\ (calls # ended => stopped)

\* Refuted: no card is left open.
AllAreClosed == Settled => \A c \in Card : board.adds[c] > 0 => board.last[c] # "none"

\* A client is told about no card before it was given it, but for the card of one tool call
\* for each event that was lost.
AddBeforeUse ==
  /\ board.strays \subseteq {ToolCard(t) : t \in Tools}
  /\ Cardinality(board.strays) <= drops

\* Refuted: not even for those.
NothingStray == board.strays = {}

\* A client is given every card once.
AddedOnce == \A c \in Card : board.adds[c] <= 1

\* The messages of a query nobody stopped do not end as failures.
FinishedIsNotFailed ==
  Settled /\ ~stopped => \A m \in Messages : board.last[m] # "orphan"

=============================================================================
