------------------------------- MODULE Socket -------------------------------
(***************************************************************************)
(* The way in and the way out: the WebSocket channel                       *)
(* (internal/channel/websocket, conn.go and channel.go), the single        *)
(* goroutine of cmd/server/main.go that takes its messages, the router     *)
(* with its middleware (services/api/router, internal/multimodal), and the *)
(* order in which main.go closes them.                                     *)
(*                                                                         *)
(* Every connection has a reader and a writer.  The reader publishes what  *)
(* the client says into one bounded channel of messages; the router hands  *)
(* a message to the engine and leaves a goroutine, Reply, that forwards    *)
(* the events of the query into the bounded buffer of one connection, and  *)
(* drops what does not fit.  An interrupt goes past the channel of         *)
(* messages, straight to the engine.                                       *)
(*                                                                         *)
(* A query is what the engine makes of one user message: it sends Events   *)
(* events into a bounded stream, and blocks when the stream is full; it    *)
(* may stop once for an answer of the client.                              *)
(***************************************************************************)
EXTENDS Naturals, Sequences, FiniteSets, SequencesExt

CONSTANTS
  Conns, Sessions, Users,
  UserOf,        \* connection -> the user_id of its session.create
  Opens,         \* bound: connection -> the sessions its client may open
  Contents,      \* what user messages are made of: sequences of blocks
  MaxBlock, MaxTotal,  \* size caps of a block and of a message (10 MB, 20 MB of base64)
  Supports,      \* the attachments every model of the chain takes (ActiveSupports)
  Ids,           \* bound: the user messages that are sent, in this order of numbers
  MessageBuf,    \* capacity of Channel.messages (128)
  SendBuf,       \* capacity of a connection's send buffer (256)
  StreamBuf,     \* capacity of the engine's event channel
  Events,        \* bound: events of one query
  MaxRequests,   \* messages of one user within a window (60)
  None

\* Reply, where it does not write to a connection
ReplyStates == {"none", "choosing", "draining", "done"}

ASSUME SocketAssumption ==
  /\ UserOf \in [Conns -> Users] /\ ReplyStates \cap Conns = {} /\ None \notin Conns \cup Sessions
  /\ Opens \in [Conns -> SUBSET Sessions]
  /\ Ids \subseteq Nat \ {0}
  /\ \A n \in {MessageBuf, SendBuf, StreamBuf, Events, MaxRequests} : n \in Nat \ {0}

VARIABLES
  reader,    \* readPump: what it is doing
  holds,     \* the message it is publishing
  bound,     \* Conn.sessionID; None until session.create
  done,      \* connections whose close ran
  send,      \* Conn.send: the frames not yet written
  registry,  \* connRegistry: session -> its connections
  queue,     \* Channel.messages
  open,      \* Channel.messages is not closed
  panicked,  \* a goroutine sent on the closed Channel.messages
  handler,   \* the goroutine of main.go: is it still in its loop
  spent,     \* RateLimit: messages of a user in the current window
  query, of, \* what the engine makes of message m, and for which session
  told,      \* events a query has sent
  stream,    \* events of a query Reply has not read
  reply,     \* Reply: choosing, the connection it writes to, draining, done
  answered,  \* questions the client has answered (ResolveAskQuestion found them)
  sent,      \* user messages so far
  stage      \* how far main.go and Channel.Close are

conns == <<reader, holds, bound, done, send, registry>>
engine == <<query, of, told, stream, reply>>
vars == <<conns, queue, open, panicked, handler, spent, engine, answered, sent, stage>>

(***************************************************************************)
(* Attachments: a block has a type, the type its media_type names, whether *)
(* it names a source, and the size of its inline data.                     *)
(***************************************************************************)
Size(content) == FoldLeft(LAMBDA n, b : n + b.size, 0, content)

\* checkInlineSizeCaps, on the wire
TooLarge(content) ==
  Size(content) > MaxTotal \/ \E i \in DOMAIN content : content[i].size > MaxBlock

\* normalizeMediaBlock
Malformed(b) ==
  \/ b.type \notin {"text", "image", "pdf"}
  \/ b.type # "text" /\ (b.media # b.type \/ ~b.source \/ b.size > MaxBlock)

\* multimodal.Build finds nothing wrong; empty texts are dropped
Buildable(content) ==
  /\ \A i \in DOMAIN content : ~Malformed(content[i])
  /\ Size(SelectSeq(content, LAMBDA b : b.type # "text")) <= MaxTotal

\* multimodal.Gate: images pass whatever the model can do
Gated(content) == \E i \in DOMAIN content : content[i].type = "pdf" /\ "pdf" \notin Supports

Fit(content) == Buildable(content) /\ ~Gated(content)

Message == [answer : BOOLEAN, content : Contents \cup {<<>>}, id : Ids, session : Sessions,
            user : Users]
\* of a frame only the session it speaks of matters
Frame == Sessions \cup {None}

TypeOK ==
  /\ reader \in [Conns -> {"none", "reading", "publishing", "done"}]
  /\ holds \in [Conns -> Message \cup {None}]
  /\ bound \in [Conns -> Sessions \cup {None}]
  /\ done \subseteq Conns /\ send \in [Conns -> Seq(Frame)]
  /\ \A c \in Conns : Len(send[c]) <= SendBuf
  /\ registry \in [Sessions -> SUBSET Conns]
  /\ queue \in Seq(Message) /\ open \in BOOLEAN /\ panicked \in BOOLEAN /\ handler \in BOOLEAN
  /\ spent \in [Users -> Nat]
  /\ query \in [Ids -> {"none", "running", "asking", "ended"}]
  /\ of \in [Ids -> Sessions \cup {None}] /\ told \in [Ids -> Nat] /\ stream \in [Ids -> Nat]
  /\ reply \in [Ids -> ReplyStates \cup Conns]
  /\ answered \subseteq Ids /\ sent \in Nat
  /\ stage \in {"up", "cancelled", "swept", "closed"}

Init ==
  /\ reader = [c \in Conns |-> "none"] /\ holds = [c \in Conns |-> None]
  /\ bound = [c \in Conns |-> None] /\ done = {}
  /\ send = [c \in Conns |-> <<>>] /\ registry = [s \in Sessions |-> {}]
  /\ queue = <<>> /\ open = TRUE /\ panicked = FALSE /\ handler = TRUE
  /\ spent = [u \in Users |-> 0]
  /\ query = [m \in Ids |-> "none"] /\ of = [m \in Ids |-> None]
  /\ told = [m \in Ids |-> 0] /\ stream = [m \in Ids |-> 0] /\ reply = [m \in Ids |-> "none"]
  /\ answered = {} /\ sent = 0 /\ stage = "up"

(***************************************************************************)
(* A connection.                                                           *)
(***************************************************************************)
ToldToStop(c) == c \in done \/ stage # "up"

\* Conn.trySend: what does not fit is dropped
TrySend(q, f) == IF Len(q) < SendBuf THEN Append(q, f) ELSE q

\* sendError, SessionEvent, respondPong: to the connection itself
Say(c) == send' = [send EXCEPT ![c] = TrySend(@, bound[c])]

\* Channel.upgrade; the HTTP server takes no connection once it is shut down
Upgrade(c) ==
  /\ reader[c] = "none" /\ stage # "closed"
  /\ reader' = [reader EXCEPT ![c] = "reading"]
  /\ UNCHANGED <<holds, bound, done, send, registry, queue, open, panicked, handler, spent,
                 engine, answered, sent, stage>>

\* handleSessionCreate, with the prompts of the session that are still unanswered
Create(c, s) ==
  /\ reader[c] = "reading" /\ bound[c] = None /\ s \in Opens[c]
  /\ bound' = [bound EXCEPT ![c] = s]
  /\ registry' = [registry EXCEPT ![s] = @ \cup {c}]
  /\ \/ send' = [send EXCEPT ![c] = TrySend(@, s)]
     \/ send' = [send EXCEPT ![c] = TrySend(TrySend(@, s), s)]
  /\ UNCHANGED <<reader, holds, done, queue, open, panicked, handler, spent, engine,
                 answered, sent, stage>>

\* ping, session.resume, an unknown or unreadable frame, a frame before session.create, a second
\* session.create, content over the size caps: answered at once
Chat(c) ==
  /\ reader[c] = "reading" /\ Say(c)
  /\ UNCHANGED <<reader, holds, bound, done, registry, queue, open, panicked, handler,
                 spent, engine, answered, sent, stage>>

Publishing(c, m) ==
  /\ reader' = [reader EXCEPT ![c] = "publishing"] /\ holds' = [holds EXCEPT ![c] = m]
  /\ UNCHANGED <<bound, done, send, registry, queue, open, panicked, handler, spent,
                 engine, stage>>

\* handleUserMessage
Write(c, content) ==
  /\ reader[c] = "reading" /\ bound[c] # None /\ sent + 1 \in Ids /\ ~TooLarge(content)
  /\ sent' = sent + 1
  /\ Publishing(c, [answer |-> FALSE, content |-> content, id |-> sent + 1,
                      session |-> bound[c], user |-> UserOf[c]])
  /\ UNCHANGED answered

\* handleToolResult and handlePromptResponse: a prompt is resolved before the answer is published.
\* tool.result may name the session.
Answer(c, m) ==
  /\ reader[c] = "reading" /\ bound[c] # None /\ query[m] = "asking" /\ m \notin answered
  /\ answered' = answered \cup {m}
  /\ Publishing(c, [answer |-> TRUE, content |-> <<>>, id |-> m, session |-> of[m],
                      user |-> UserOf[c]])
  /\ UNCHANGED sent

\* session.interrupt: AbortSession ends the wait of a query of the session
Interrupt(c) ==
  /\ reader[c] = "reading" /\ bound[c] # None
  /\ \E m \in Ids : /\ query[m] = "asking" /\ of[m] = bound[c]
                    /\ query' = [query EXCEPT ![m] = "running"]
  /\ UNCHANGED <<conns, queue, open, panicked, handler, spent, of, told, stream, reply, answered,
                 sent, stage>>

Back(c) == reader' = [reader EXCEPT ![c] = "reading"] /\ holds' = [holds EXCEPT ![c] = None]

\* Channel.publish: the cases of its select
Publish(c) ==
  /\ reader[c] = "publishing" /\ open /\ Len(queue) < MessageBuf
  /\ queue' = Append(queue, holds[c]) /\ Back(c)
  /\ UNCHANGED <<bound, done, send, registry, open, panicked, handler, spent, engine,
                 answered, sent, stage>>

PublishCancelled(c) ==
  /\ reader[c] = "publishing" /\ stage # "up"
  /\ Back(c) /\ Say(c)
  /\ UNCHANGED <<bound, done, registry, queue, open, panicked, handler, spent, engine,
                 answered, sent, stage>>

\* a select that finds a closed channel among its sends panics, if it looks there first
PublishClosed(c) ==
  /\ reader[c] = "publishing" /\ ~open
  /\ panicked' = TRUE /\ Back(c)
  /\ UNCHANGED <<bound, done, send, registry, queue, open, handler, spent, engine,
                 answered, sent, stage>>

\* the reader goes and leaves the connection in the registry
ForgetsRegistry(c) == UNCHANGED registry
Unregister(c) ==
  registry' = IF bound[c] = None THEN registry
              ELSE [registry EXCEPT ![bound[c]] = @ \ {c}]

\* ws.Read fails: the client is gone, the connection was closed, or the channel is closing
ReadFails(c) ==
  /\ reader[c] = "reading"
  /\ reader' = [reader EXCEPT ![c] = "done"]
  /\ Unregister(c) /\ done' = done \cup {c}
  /\ UNCHANGED <<holds, bound, send, queue, open, panicked, handler, spent, engine,
                 answered, sent, stage>>

\* writePump takes a frame.  It leaves when a write or a ping fails, without closing the connection:
\* the reader goes on and the buffer fills up, as when WriteFrame is never taken again.
WriteFrame(c) ==
  /\ send[c] # <<>>
  /\ send' = [send EXCEPT ![c] = Tail(@)]
  /\ UNCHANGED <<reader, holds, bound, done, registry, queue, open, panicked, handler,
                 spent, engine, answered, sent, stage>>

(***************************************************************************)
(* The goroutine of main.go and the router.                                *)
(***************************************************************************)
\* any connection will do
AnyEmitter(s) == UNION {registry[x] : x \in Sessions}
\* emitterFor takes the first connection a map happens to yield
Emitters(s) == registry[s]

\* coreHandler in the goroutine of main.go until the query is over
HandlesToTheEnd == \A m \in Ids : reply[m] \in {"none", "done"}
\* Reply has a goroutine of its own
Free == TRUE

\* Router.Handle: the rate limit counts answers as well; what it refuses is only logged
Handle ==
  /\ handler /\ queue # <<>> /\ Free
  /\ queue' = Tail(queue)
  /\ LET m == Head(queue)
         s == m.session
     IN  /\ spent' = [spent EXCEPT ![m.user] = IF @ < MaxRequests THEN @ + 1 ELSE @]
         /\ \/ /\ spent[m.user] >= MaxRequests
               /\ UNCHANGED <<send, engine>>
            \/ /\ spent[m.user] < MaxRequests /\ m.answer
               /\ query' = [query EXCEPT ![m.id] = IF @ = "asking" THEN "running" ELSE @]
               /\ UNCHANGED <<send, of, told, stream, reply>>
            \* multimodal.Build, Gate: emitInvalidInput, emitUnsupportedModality
            \/ /\ spent[m.user] < MaxRequests /\ ~m.answer /\ ~Fit(m.content)
               /\ \/ /\ Emitters(s) = {} /\ UNCHANGED send
                  \/ \E c \in Emitters(s) :
                       send' = [send EXCEPT ![c] = TrySend(@, s)]
               /\ UNCHANGED engine
            \* ProcessMessage, and go Reply
            \/ /\ spent[m.user] < MaxRequests /\ ~m.answer /\ Fit(m.content)
               /\ query' = [query EXCEPT ![m.id] = "running"] /\ of' = [of EXCEPT ![m.id] = s]
               /\ reply' = [reply EXCEPT ![m.id] = "choosing"]
               /\ UNCHANGED <<send, told, stream>>
            \* ProcessMessage failed: only logged
            \/ /\ spent[m.user] < MaxRequests /\ ~m.answer /\ Fit(m.content)
               /\ UNCHANGED <<send, engine>>
  /\ UNCHANGED <<reader, holds, bound, done, registry, open, panicked, handler, answered,
                 sent, stage>>

\* the window of a user is over
NextWindow(u) ==
  /\ spent[u] > 0
  /\ spent' = [spent EXCEPT ![u] = 0]
  /\ UNCHANGED <<conns, queue, open, panicked, handler, engine, answered, sent, stage>>

\* for msg := range c.Messages() ends when the channel is closed and empty
HandlerExits ==
  /\ handler /\ queue = <<>> /\ ~open
  /\ handler' = FALSE
  /\ UNCHANGED <<conns, queue, open, panicked, spent, engine, answered, sent, stage>>

(***************************************************************************)
(* Reply.                                                                  *)
(***************************************************************************)
DrainsStream(m) == reply' = [reply EXCEPT ![m] = "draining"]

\* the emitter is chosen once
Choose(m) ==
  /\ reply[m] = "choosing"
  /\ \/ Emitters(of[m]) = {} /\ DrainsStream(m)
     \/ \E c \in Emitters(of[m]) : reply' = [reply EXCEPT ![m] = c]
  /\ UNCHANGED <<conns, queue, open, panicked, handler, spent, query, of, told, stream, answered,
                 sent, stage>>

\* translated for the connection that was chosen, whatever has become of it
Forward(m) ==
  /\ reply[m] \in Conns \cup {"draining"} /\ stream[m] > 0
  /\ stream' = [stream EXCEPT ![m] = @ - 1]
  /\ send' = IF reply[m] \in Conns
             THEN [send EXCEPT ![reply[m]] = TrySend(@, of[m])]
             ELSE send
  /\ UNCHANGED <<reader, holds, bound, done, registry, queue, open, panicked, handler,
                 spent, query, of, told, reply, answered, sent, stage>>

ReplyEnds(m) ==
  /\ reply[m] \in Conns \cup {"draining"} /\ stream[m] = 0 /\ query[m] = "ended"
  /\ reply' = [reply EXCEPT ![m] = "done"]
  /\ UNCHANGED <<conns, queue, open, panicked, handler, spent, query, of, told, stream, answered,
                 sent, stage>>

(***************************************************************************)
(* The engine, as far as the channel can tell.                             *)
(***************************************************************************)
Emit(m) ==
  /\ query[m] = "running" /\ told[m] < Events /\ stream[m] < StreamBuf
  /\ told' = [told EXCEPT ![m] = @ + 1] /\ stream' = [stream EXCEPT ![m] = @ + 1]
  /\ UNCHANGED <<conns, queue, open, panicked, handler, spent, query, of, reply, answered,
                 sent, stage>>

\* its last event so far was a question
Ask(m) ==
  /\ query[m] = "running" /\ told[m] = 1 /\ m \notin answered
  /\ query' = [query EXCEPT ![m] = "asking"]
  /\ UNCHANGED <<conns, queue, open, panicked, handler, spent, of, told, stream, reply, answered,
                 sent, stage>>

Finish(m) ==
  /\ query[m] = "running" /\ told[m] = Events
  /\ query' = [query EXCEPT ![m] = "ended"]
  /\ UNCHANGED <<conns, queue, open, panicked, handler, spent, of, told, stream, reply, answered,
                 sent, stage>>

(***************************************************************************)
(* The end: main.go cancels the context of the channels, then Close.       *)
(***************************************************************************)
Signal ==
  /\ stage = "up" /\ stage' = "cancelled"
  /\ UNCHANGED <<conns, queue, open, panicked, handler, spent, engine, answered, sent>>

\* registry.closeAll: a session.create that comes later registers in the new map
CloseAll ==
  /\ stage = "cancelled" /\ stage' = "swept"
  /\ done' = done \cup UNION {registry[s] : s \in Sessions}
  /\ registry' = [s \in Sessions |-> {}]
  /\ UNCHANGED <<reader, holds, bound, send, queue, open, panicked, handler, spent,
                 engine, answered, sent>>

\* close(messages) and Server.Shutdown
CloseMessages ==
  /\ stage = "swept" /\ stage' = "closed" /\ open' = FALSE
  /\ UNCHANGED <<conns, queue, panicked, handler, spent, engine, answered, sent>>

ReaderGoesOn(c) ==
  \/ Publish(c) \/ PublishCancelled(c) \/ PublishClosed(c)
  \/ ToldToStop(c) /\ ReadFails(c)

Next ==
  \/ \E c \in Conns : \/ Upgrade(c) \/ Chat(c) \/ Interrupt(c)
                      \/ \E s \in Sessions : Create(c, s)
                      \/ \E content \in Contents : Write(c, content)
                      \/ \E m \in Ids : Answer(c, m)
                      \/ Publish(c) \/ PublishCancelled(c) \/ PublishClosed(c)
                      \/ ReadFails(c) \/ WriteFrame(c)
  \/ Handle \/ HandlerExits \/ \E u \in Users : NextWindow(u)
  \/ \E m \in Ids : Choose(m) \/ Forward(m) \/ ReplyEnds(m) \/ Emit(m) \/ Ask(m) \/ Finish(m)
  \/ Signal \/ CloseAll \/ CloseMessages

(***************************************************************************)
(* Goroutines that can go on do.  Nothing is assumed of the clients: they  *)
(* need not read what is written to them, answer, or close.                *)
(***************************************************************************)
Fairness ==
  /\ \A c \in Conns : WF_vars(ReaderGoesOn(c))
  /\ WF_vars(Handle \/ HandlerExits)
  /\ \A m \in Ids : /\ WF_vars(Choose(m) \/ Forward(m) \/ ReplyEnds(m))
                    /\ WF_vars(Emit(m) \/ Finish(m))
  /\ WF_vars(CloseAll \/ CloseMessages)

Spec == Init /\ [][Next]_vars /\ Fairness

(***************************************************************************)
(* Properties.                                                             *)
(***************************************************************************)
\* A client is shown the events of the session it opened and of no other: the emitter of a query
\* is chosen by session, but a connection outlives the query and a query the connection
\* (channel.go:190, conn.go readPump's gate for a second session.create).
OnlyOwnSession ==
  \A c \in Conns : \A i \in DOMAIN send[c] : send[c][i] \in {None, bound[c]}

\* What the registry names is alive: a connection found there was opened for that session and its
\* reader is still running, although readers end on their own, closeAll swaps the map, and a
\* session.create may come after it.
RegisteredIsAlive ==
  \A s \in Sessions : \A c \in registry[s] :
    bound[c] = s /\ reader[c] \in {"reading", "publishing"}

\* The deadlock router.go warns of: the goroutine that takes the messages must not wait for a
\* query that waits for a message.  An answer on its way ends the wait of its query, unless the
\* rate limit refuses it or the channel is closing.
OnItsWay(m) ==
  \E a \in ToSet(queue) \cup ({holds[c] : c \in Conns} \ {None}) : a.answer /\ a.id = m
AnswersGetThrough ==
  \A m \in Ids :
    (OnItsWay(m) /\ query[m] = "asking")
      ~> (query[m] # "asking" \/ stage # "up" \/ \E u \in Users : spent[u] >= MaxRequests)

\* No query waits for a client: one that is running ends, or comes to ask, whether its connection
\* reads, has died without a word, or was never there.
NoQueryIsHeld == \A m \in Ids : query[m] = "running" ~> query[m] # "running"

\* Close reaches everything: the readers and the goroutine of main.go end, also the readers of
\* connections that opened their session after closeAll had run.
CloseReachesAll ==
  stage = "closed" ~>
    (~handler /\ \A c \in Conns : reader[c] \in {"none", "done"})

\* Close is graceful (channel.go: "graceful shutdown"): no reader that was about to publish
\* brings the process down.
ClosesGracefully == ~panicked
=============================================================================
