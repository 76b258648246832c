---------------------------- MODULE ModelAdapter ----------------------------
(***************************************************************************)
(* The two ways of a model call through the adapter (provider/bifrost).    *)
(*                                                                         *)
(* The request it makes of a history (buildChatRequest):                   *)
(* convertSingleMessage for each message, sanitizeToolSequence and         *)
(* capImageCacheBreakpoints over all of them, for every configuration of   *)
(* the endpoint.  The history grows by any message the engine stores, an   *)
(* empty reply included, in any order.                                     *)
(*                                                                         *)
(* The stream that answers (Chat and consumeStream; provider/stats,        *)
(* wrapStream): a goroutine that turns the chunks of the SDK into events,  *)
(* a goroutine that forwards the events and records what the call cost     *)
(* until the context is done, and the caller, who reads until the channel  *)
(* is closed.  A chunk may carry text, reasoning, a piece of a tool call,  *)
(* the finish reason and the usage; one without choices carries the usage  *)
(* at most.  The order in which a provider sends them is the environment's. *)
(***************************************************************************)
EXTENDS Naturals, Sequences, FiniteSets, SequencesExt

CONSTANTS
  Ids,         \* of tool calls of the history
  Cut,         \* those whose arguments max_tokens cut off
  MaxImages,   \* bound: images of one message
  MaxMessages, \* bound: messages of the history
  Breakpoints, \* maxCacheControlBreakpoints (4)
  Indices,     \* of the tool calls of the answer
  MaxChunks,   \* bound: chunks of the stream
  Buffer,      \* of the adapter's channel (64)
  Forwarded    \* of the wrapper's channel (32)

VARIABLES
  history,  \* the session's messages
  endpoint, \* thinking: on, off, unset; needsField and vision: what it asks for and can do
  given,   \* tool call |-> the pieces the provider has sent of it
  up,      \* the SDK's channel: open, finished (reason sent), closed, broken
  chunks,  \* chunks sent
  paid,    \* the provider has reported the usage
  calls,   \* consumeStream's toolCalls
  finish, usage,  \* pendingFinish, pendingUsage # nil
  todo,    \* events the adapter's goroutine is sending
  pc,      \* that goroutine: reading, ending (nothing left but todo), returned
  events,  \* the adapter's channel
  held,    \* the event the wrapper has taken and not forwarded
  tapped,  \* the wrapper's lastUsage # nil
  wrapper, \* forwarding, ended
  record,  \* the usage the callback was given, one entry for each time it ran
  out,     \* the wrapper's channel
  seen,    \* what the caller has read
  ctx      \* the call's context: live, done

request == <<history, endpoint>>
provider == <<given, up, chunks, paid>>
adapter == <<calls, finish, usage, todo, pc>>
wrapping == <<held, tapped, wrapper, record>>
stream == <<provider, adapter, events, wrapping, out, seen, ctx>>
vars == <<request, stream>>

User(images) == [role |-> "user", text |-> TRUE, images |-> images, calls |-> <<>>, thought |-> FALSE]
Assistant(text, ids, thought) ==
  [role |-> "assistant", text |-> text, images |-> 0, calls |-> ids, thought |-> thought]
Result(id) == [role |-> "tool", text |-> TRUE, images |-> 0, calls |-> <<id>>, thought |-> FALSE]

CallSeqs == {<<>>} \cup {<<i>> : i \in Ids} \cup {ij \in Ids \X Ids : ij[1] < ij[2]}
\* a reply may have neither a text nor a call, with or without a thought: it is stored all the same
Messages ==
  {User(n) : n \in 0 .. MaxImages} \cup {Result(i) : i \in Ids}
  \cup {Assistant(t, cs, t /\ cs # <<>>) : t \in BOOLEAN, cs \in CallSeqs}
  \cup {Assistant(FALSE, <<>>, TRUE)}

Text == [type |-> "text"]
Use(c) == [type |-> "tool_use", index |-> c.index, args |-> c.args]
End(u) == [type |-> "message_end", usage |-> u]
Error == [type |-> "error"]
NoEvent == [type |-> "none"]

Init ==
  /\ history = <<>>
  /\ endpoint \in [thinking : {"on", "off", "unset"}, needsField : BOOLEAN, vision : BOOLEAN]
  /\ given = [i \in Indices |-> 0] /\ up = "open" /\ chunks = 0 /\ paid = FALSE
  /\ calls = <<>> /\ finish = FALSE /\ usage = FALSE /\ todo = <<>> /\ pc = "reading"
  /\ events = <<>> /\ held = NoEvent /\ tapped = FALSE /\ wrapper = "forwarding"
  /\ record = <<>> /\ out = <<>> /\ seen = <<>> /\ ctx = "live"

-----------------------------------------------------------------------------
(* The request.                                                            *)

Add(m) ==
  /\ Len(history) < MaxMessages /\ history' = Append(history, m)
  /\ UNCHANGED <<endpoint, stream>>

\* buildChatRequest: reasoning is replayed unless the operator disabled it, and always
\* where the provider's schema asks for the field
IncludeReasoning == endpoint.thinking # "off" \/ endpoint.needsField

\* convertSingleMessage: an image is a cached part where the endpoint can see and a text
\* where it cannot; an assistant message with calls always has the reasoning field
Convert(m) ==
  [role |-> m.role, text |-> m.text \/ (m.images > 0 /\ ~endpoint.vision),
   cached |-> [n \in 1 .. (IF endpoint.vision THEN m.images ELSE 0) |-> TRUE],
   calls |-> [k \in DOMAIN m.calls |-> [id |-> m.calls[k], whole |-> m.calls[k] \notin Cut]],
   reasoning |-> CASE m.role = "assistant" /\ m.thought /\ IncludeReasoning -> "full"
                   [] m.role = "assistant" /\ m.calls # <<>> -> "empty"
                   [] OTHER -> "absent"]

IdsIn(m) == {m.calls[k].id : k \in DOMAIN m.calls}
AllIds(ms, role) == UNION {IdsIn(ms[i]) : i \in {j \in DOMAIN ms : ms[j].role = role}}
LastAssistant(ms) == {i \in DOMAIN ms : ms[i].role = "assistant" /\ \A j \in DOMAIN ms : j > i => ms[j].role # "assistant"}

\* pass 2: results without a call
DropOrphans(ms) == SelectSeq(ms, LAMBDA m : m.role = "tool" => IdsIn(m) \subseteq AllIds(ms, "assistant"))

\* pass 3: of every assistant message but the last, the calls nothing answers
Strip(ms) ==
  LET answered == AllIds(ms, "tool")
  IN  [i \in DOMAIN ms |->
         IF ms[i].role = "assistant" /\ i \notin LastAssistant(ms) /\ ms[i].calls # <<>>
         THEN LET kept == SelectSeq(ms[i].calls, LAMBDA c : c.id \in answered)
              IN  [ms[i] EXCEPT !.calls = kept, !.reasoning = IF kept = <<>> THEN "absent" ELSE @]
         ELSE ms[i]]

\* and a message that is left with neither a call nor a text
DropEmptied(ms) ==
  LET stripped == Strip(ms)
      emptied == {i \in DOMAIN ms : ms[i].calls # <<>> /\ stripped[i].calls = <<>> /\ ~ms[i].text}
      kept == SelectSeq([i \in DOMAIN ms |-> i], LAMBDA i : i \notin emptied)
  IN  [k \in DOMAIN kept |-> stripped[kept[k]]]

\* pass 4: arguments that were cut off are replaced
Repair(ms) ==
  [i \in DOMAIN ms |-> [ms[i] EXCEPT !.calls = [k \in DOMAIN @ |-> [@[k] EXCEPT !.whole = TRUE]]]]

\* only results without a call are dropped, as before the second failure was met
DropOrphansOnly(ms) == Repair(DropOrphans(ms))

SanitizeToolSequence(ms) == Repair(DropEmptied(DropOrphans(ms)))

\* capImageCacheBreakpoints: the oldest beyond the limit lose theirs
Cap(ms) ==
  LET from(i) == FoldLeft(LAMBDA n, m : n + Len(m.cached), 0, SubSeq(ms, i, Len(ms)))
  IN  [i \in DOMAIN ms |-> [ms[i] EXCEPT !.cached = [k \in DOMAIN @ |-> from(i) - k < Breakpoints]]]

\* convertMessages
Wire == Cap(SanitizeToolSequence([i \in DOMAIN history |-> Convert(history[i])]))

-----------------------------------------------------------------------------
(* The stream.                                                             *)

\* accumulateToolCall: the accumulator of the index, or a new one
Accumulate(acc, i, piece) ==
  IF \E k \in DOMAIN acc : acc[k].index = i
  THEN [k \in DOMAIN acc |->
          IF acc[k].index = i THEN [acc[k] EXCEPT !.args = Append(@, piece)] ELSE acc[k]]
  ELSE Append(acc, [index |-> i, args |-> <<piece>>])

\* emitMessageEnd: flushToolCalls, then the end
MessageEnd(acc, u) == [k \in DOMAIN acc |-> Use(acc[k])] \o <<End(u)>>

\* the finish reason ends the stream at once
AtFinish(c, f, u) == f

\* the message is over once the reason and the usage are there, on a chunk that has one of
\* them to give: without choices, or with the reason
Complete(c, f, u) == f /\ u /\ (~c.choices \/ c.finish)

NoCall == 0
Chunks ==
  [choices : {TRUE}, text : BOOLEAN, call : Indices \cup {NoCall}, finish : BOOLEAN, usage : BOOLEAN]
  \cup [choices : {FALSE}, text : {FALSE}, call : {NoCall}, finish : {FALSE}, usage : BOOLEAN]

\* What providers send: content before the reason and the usage once.
Sendable(c) ==
  /\ up = "finished" => ~c.text /\ c.call = NoCall /\ ~c.finish
  /\ paid => ~c.usage

Consume(c) ==
  /\ pc = "reading" /\ todo = <<>> /\ up \in {"open", "finished"} /\ chunks < MaxChunks
  /\ Sendable(c)
  /\ chunks' = chunks + 1
  /\ up' = IF c.finish THEN "finished" ELSE up
  /\ paid' = (paid \/ c.usage)
  /\ given' = IF c.call = NoCall THEN given ELSE [given EXCEPT ![c.call] = @ + 1]
  /\ finish' = (finish \/ c.finish)
  /\ usage' = (usage \/ c.usage)
  /\ LET acc == IF c.call = NoCall THEN calls ELSE Accumulate(calls, c.call, given'[c.call])
         over == Complete(c, finish', usage')
     IN  /\ todo' = (IF c.text THEN <<Text>> ELSE <<>>)
                    \o (IF over THEN MessageEnd(acc, usage') ELSE <<>>)
         /\ calls' = IF over THEN <<>> ELSE acc
         /\ pc' = IF over THEN "ending" ELSE pc
  /\ UNCHANGED <<events, wrapping, out, seen, ctx, request>>

\* an error chunk: the calls accumulated so far are not flushed
Break ==
  /\ pc = "reading" /\ todo = <<>> /\ up \in {"open", "finished"}
  /\ up' = "broken" /\ todo' = <<Error>> /\ pc' = "ending"
  /\ UNCHANGED <<given, chunks, paid, calls, finish, usage, events, wrapping, out, seen, ctx, request>>

\* the SDK closes its channel
Close ==
  /\ pc = "reading" /\ todo = <<>> /\ up \in {"open", "finished"}
  /\ up' = "closed" /\ pc' = "ending"
  /\ todo' = IF finish \/ calls # <<>> THEN MessageEnd(calls, usage) ELSE <<>>
  /\ calls' = <<>>
  /\ UNCHANGED <<given, chunks, paid, finish, usage, events, wrapping, out, seen, ctx, request>>

\* out <- event: it waits for room, whatever the context says
Emit ==
  /\ todo # <<>> /\ Len(events) < Buffer
  /\ events' = Append(events, Head(todo)) /\ todo' = Tail(todo)
  /\ UNCHANGED <<provider, calls, finish, usage, pc, wrapping, out, seen, ctx, request>>

\* the deferred close of the channel
Return ==
  /\ pc = "ending" /\ todo = <<>> /\ pc' = "returned"
  /\ UNCHANGED <<provider, calls, finish, usage, todo, events, wrapping, out, seen, ctx, request>>

-----------------------------------------------------------------------------
(* The wrapper.                                                            *)

Tap(e) == tapped \/ (e.type = "message_end" /\ e.usage)

Take ==
  /\ wrapper = "forwarding" /\ held = NoEvent /\ events # <<>>
  /\ held' = Head(events) /\ events' = Tail(events)
  /\ tapped' = Tap(Head(events))
  /\ UNCHANGED <<provider, adapter, wrapper, record, out, seen, ctx, request>>

Forward ==
  /\ wrapper = "forwarding" /\ held # NoEvent /\ Len(out) < Forwarded
  /\ out' = Append(out, held) /\ held' = NoEvent
  /\ UNCHANGED <<provider, adapter, events, tapped, wrapper, record, seen, ctx, request>>

Callback ==
  /\ record' = Append(record, tapped) /\ wrapper' = "ended"
  /\ UNCHANGED <<provider, adapter, events, held, tapped, out, seen, ctx, request>>

Drained == wrapper = "forwarding" /\ held = NoEvent /\ events = <<>> /\ pc = "returned" /\ Callback

\* either select may take the done context, also when it could go on
Leave == wrapper = "forwarding" /\ ctx = "done" /\ Callback

-----------------------------------------------------------------------------
(* The caller.                                                             *)

\* CallLLMOnce ranges over the channel
Read ==
  /\ out # <<>>
  /\ seen' = Append(seen, Head(out)) /\ out' = Tail(out)
  /\ UNCHANGED <<provider, adapter, events, wrapping, ctx, request>>

\* the limits of the attempt, a stop of the query
Cancel ==
  /\ ctx = "live" /\ ctx' = "done"
  /\ UNCHANGED <<provider, adapter, events, wrapping, out, seen, request>>

Done == wrapper = "ended" /\ out = <<>> /\ UNCHANGED vars

Next ==
  \/ \E m \in Messages : Add(m)
  \/ \E c \in Chunks : Consume(c)
  \/ Break \/ Close \/ Emit \/ Return
  \/ Take \/ Forward \/ Drained \/ Leave \/ Read \/ Cancel \/ Done

Spec == Init /\ [][Next]_vars

\* The SDK ends its stream at the latest when the socket is idle for too long; goroutines
\* run, and the caller reads.
Fairness ==
  /\ WF_vars(Close) /\ WF_vars(Emit \/ Return) /\ WF_vars(Take \/ Forward \/ Drained)
  /\ WF_vars(Leave) /\ WF_vars(Read)
FairSpec == Spec /\ Fairness

-----------------------------------------------------------------------------
(* Properties                                                              *)

Marks(ms) == FlattenSeq([i \in DOMAIN ms |-> ms[i].cached])

Empty(m) == ~m.text /\ m.calls = <<>> /\ m.cached = <<>>

\* What holds of a request whatever the history: a result has a call somewhere, a call of a
\* reply before the last one has a result somewhere, arguments can be read, the breakpoints
\* are within Anthropic's limit and are the newest, images go only to who can see them, a
\* message with calls has the field DeepSeek asks for, and no message is empty but those
\* the loop stored empty.
WireAccepted ==
  LET wire == Wire  marks == Marks(wire)
      on == {k \in DOMAIN marks : marks[k]}
      empties(ms) == Len(SelectSeq(ms, Empty))
  IN  /\ \A i \in DOMAIN wire : wire[i].role = "tool" => IdsIn(wire[i]) \subseteq AllIds(wire, "assistant")
      /\ \A i \in DOMAIN wire : wire[i].role = "assistant" /\ i \notin LastAssistant(wire) =>
           IdsIn(wire[i]) \subseteq AllIds(wire, "tool")
      /\ \A i \in DOMAIN wire : \A k \in DOMAIN wire[i].calls : wire[i].calls[k].whole
      /\ Cardinality(on) <= Breakpoints /\ \A j \in on, k \in DOMAIN marks : k > j => k \in on
      /\ ~endpoint.vision => marks = <<>>
      /\ \A i \in DOMAIN wire : wire[i].calls # <<>> /\ wire[i].role = "assistant" => wire[i].reasoning # "absent"
      /\ empties(wire) = empties([i \in DOMAIN history |-> Convert(history[i])])

\* The protocol of the providers: results come at once after the reply that called, each
\* once, and nothing else comes before all of its calls are answered.
Answers(ms, a) == {i \in DOMAIN ms : i > a /\ \A j \in a + 1 .. i : ms[j].role = "tool"}
InProtocol(ms) ==
  /\ \A i \in DOMAIN ms : ms[i].role = "tool" =>
       \E a \in DOMAIN ms : /\ ms[a].role = "assistant" /\ i \in Answers(ms, a)
                           /\ IdsIn(ms[i]) \subseteq IdsIn(ms[a])
                           /\ \A j \in Answers(ms, a) \ {i} : IdsIn(ms[j]) # IdsIn(ms[i])
  /\ \A a \in DOMAIN ms : ms[a].role = "assistant" /\ a + Cardinality(Answers(ms, a)) < Len(ms) =>
       IdsIn(ms[a]) = UNION {IdsIn(ms[i]) : i \in Answers(ms, a)}

\* A history that is in protocol but for results without a call (a compaction cut off the
\* reply, a hook made them up, a truncated session was loaded) is sent in protocol.
OrphansAreRepaired ==
  LET ms == [i \in DOMAIN history |-> Convert(history[i])]
      called == SelectSeq(ms, LAMBDA m : m.role = "tool" => IdsIn(m) \subseteq AllIds(ms, "assistant"))
  IN  InProtocol(called) => InProtocol(Wire)

\* Refuted: of any history.  Only sets of ids are compared, and the last reply may keep a
\* call that nothing answers though a prompt comes after it.
ResultsFollowCalls == InProtocol(Wire)

\* Refuted: a reply that the loop stored without content is sent without content.
NothingEmptyIsSent == \A i \in DOMAIN Wire : ~Empty(Wire[i])

\* Sanitizing loses no text of the conversation, and cleans a clean history no further.
SanitizeIsGentle ==
  LET converted == [i \in DOMAIN history |-> Convert(history[i])]
      once == SanitizeToolSequence(converted)
      texts(ms) == SelectSeq(ms, LAMBDA m : m.role # "tool" /\ m.text)
  IN  SanitizeToolSequence(once) = once /\ Len(texts(once)) = Len(texts(converted))

\* Refuted: with thinking off, an endpoint that needs the field is sent the old reasoning.
OffSendsNoReasoning == endpoint.thinking = "off" => \A i \in DOMAIN Wire : Wire[i].reasoning # "full"

\* all the events the adapter has emitted that the caller has not lost
Emitted == seen \o out \o (IF held = NoEvent THEN <<>> ELSE <<held>>) \o events \o todo
Terminal(e) == e.type \in {"message_end", "error"}
Whole(e) == e.args = [p \in 1 .. given[e.index] |-> p]

\* One end and nothing after it; a message that ends brings every tool call the provider
\* began, once, with all its pieces in order; a broken one brings none.
StreamWhole ==
  LET s == Emitted
      uses == SelectSeq(s, LAMBDA e : e.type = "tool_use")
  IN  /\ \A k \in DOMAIN s : Terminal(s[k]) => k = Len(s)
      /\ \A k \in DOMAIN uses : Whole(uses[k])
      /\ \A j, k \in DOMAIN uses : uses[j].index = uses[k].index => j = k
      /\ pc = "returned" /\ ctx = "live" =>
           CASE up = "broken" -> uses = <<>> /\ Last(s) = Error
             [] finish -> Last(s).type = "message_end" /\ Len(uses) = Cardinality({i \in Indices : given[i] > 0})
             [] OTHER -> (s # <<>> /\ Terminal(Last(s))) <=> uses # <<>>

\* The usage is not lost with the end: it is in the last event whenever the provider
\* reported it, and it is reported only once the SDK closed without it otherwise.
UsageReported ==
  LET s == Emitted
  IN  s # <<>> /\ Last(s).type = "message_end" => Last(s).usage = paid /\ (paid \/ up = "closed")

\* What the caller has been given is accounted for before it can see the end of the stream,
\* and a call is recorded once however it ends.
CostRecorded ==
  /\ Len(record) <= 1
  /\ wrapper = "ended" => Len(record) = 1
  /\ \A k \in DOMAIN seen : seen[k].type = "message_end" /\ seen[k].usage =>
       tapped /\ (wrapper = "ended" => record[1])

\* Refuted: a message whose stream closed before the reason was given looks like one the
\* provider ended, and a call may be cut in the middle of its arguments.
EndMeansFinished == \A k \in DOMAIN seen : seen[k].type = "message_end" => finish

\* Refuted: after the wrapper has left, nobody reads the adapter's channel.
AdapterReturns == <>(pc = "returned")
=============================================================================
