------------------------------ MODULE LLMCall ------------------------------
(***************************************************************************)
(* One model call (loop/llmcall, call.go) under the retrier all agents     *)
(* share (provider/retry): attempts that dial, stream and fail, the        *)
(* watchdog for the first byte, the deadline of an attempt, the heartbeat  *)
(* goroutine, and the bounded channel on which the call reports.           *)
(*                                                                         *)
(* What the call has still to send is in todo: an event that may be lost   *)
(* is dropped when the channel is full, any other waits for room.  The     *)
(* other callers of the retrier are in the environment: they read and      *)
(* write its counter without a lock, so it may hold anything at any time.  *)
(***************************************************************************)
EXTENDS Naturals, Sequences, SequencesExt

CONSTANTS
  MaxRetries,        \* Config.MaxRetries
  FallbackAfter529,  \* Config.FallbackAfter529
  Capacity,          \* of the channel
  MaxChunks          \* bound: chunks of one attempt's stream

ASSUME LLMCallAssumption ==
  /\ MaxRetries \in Nat /\ FallbackAfter529 \in Nat \ {0}
  /\ Capacity \in Nat \ {0} /\ MaxChunks \in Nat

VARIABLES
  pc,        \* what the calling goroutine does
  attempt,   \* attempts begun
  parent,    \* the caller's context: live, stopped (with a cause), cancelled (without)
  cause,     \* why the attempt's context is done, or "none"
  texts, uses,  \* pieces of text and tool calls the attempt has received
  whole,     \* the provider ended the attempt's stream itself
  err,       \* how the attempt ended
  result,    \* what the call returned
  beat,      \* the heartbeat goroutine of the attempt: on, asked to stop, off
  todo,      \* events the calling goroutine has to send
  chan,      \* events sent and not yet read
  shown,     \* text the reader shows for the message
  announced, \* tool calls the reader was told of
  lost,      \* a TextReset was dropped
  count      \* Retryer.consecutive529

wire == <<todo, chan, lost>>
reader == <<shown, announced>>
context == <<parent, cause>>
buf == <<texts, uses>>
vars == <<pc, attempt, context, buf, whole, err, result, beat, wire, reader, count>>

Event(kind, chunks, mayDrop) == [kind |-> kind, chunks |-> chunks, mayDrop |-> mayDrop]
Note == Event("note", <<>>, TRUE)          \* planning, queued, retry, retract
Reset == Event("reset", <<>>, TRUE)
Heartbeat == Event("note", <<>>, TRUE)

\* what the attempt has received, in order
Text == [n \in 1 .. texts |-> <<attempt, n>>]
ToolCalls == [n \in 1 .. uses |-> <<attempt, n>>]

Init ==
  /\ pc = "begin" /\ attempt = 0 /\ parent = "live" /\ cause = "none"
  /\ texts = 0 /\ uses = 0 /\ whole = FALSE /\ err = "none" /\ result = "none" /\ beat = "off"
  /\ todo = <<>> /\ chan = <<>> /\ lost = FALSE
  /\ shown = <<>> /\ announced = {} /\ count = 0

-----------------------------------------------------------------------------
(* The channel.                                                            *)

\* the calling goroutine hands over its next event
Send ==
  /\ todo # <<>>
  /\ LET e == Head(todo)
     IN  \/ /\ Len(chan) < Capacity
            /\ chan' = Append(chan, e) /\ UNCHANGED lost
         \/ /\ Len(chan) = Capacity /\ e.mayDrop
            /\ lost' = (lost \/ e.kind = "reset") /\ UNCHANGED chan
  /\ todo' = Tail(todo)
  /\ UNCHANGED <<pc, attempt, context, buf, whole, err, result, beat, reader, count>>

\* runLLMHeartbeat: sends, without waiting, until it is stopped
Beat ==
  /\ beat # "off" /\ Len(chan) < Capacity
  /\ chan' = Append(chan, Heartbeat)
  /\ UNCHANGED <<pc, attempt, context, buf, whole, err, result, beat, todo, lost, reader, count>>

BeatEnds ==
  /\ beat = "stopping" \/ (beat = "on" /\ parent # "live")
  /\ beat' = "off"
  /\ UNCHANGED <<pc, attempt, context, buf, whole, err, result, wire, reader, count>>

\* the translator: text is appended to the open message, a reset begins a new one
After(text, e) ==
  CASE e.kind = "text" -> text \o e.chunks
    [] e.kind = "reset" -> <<>>
    [] OTHER -> text

Read ==
  /\ chan # <<>>
  /\ LET e == Head(chan)
     IN  /\ shown' = After(shown, e)
         /\ announced' = IF e.kind = "use" THEN announced \cup ToSet(e.chunks) ELSE announced
  /\ chan' = Tail(chan)
  /\ UNCHANGED <<pc, attempt, context, buf, whole, err, result, beat, todo, lost, count>>

-----------------------------------------------------------------------------
(* One attempt: doOnce and CallLLMOnce.                                    *)

BeginAttempt ==
  /\ pc \in {"begin", "backoff"} /\ todo = <<>>
  /\ pc' = "dial" /\ attempt' = attempt + 1
  /\ cause' = IF parent = "live" THEN "none" ELSE parent
  /\ texts' = 0 /\ uses' = 0 /\ whole' = FALSE /\ err' = "none" /\ beat' = "on"
  /\ UNCHANGED <<parent, result, wire, reader, count>>

InFlight == pc \in {"dial", "stream"}

\* the attempt is over: the deferred stop of the heartbeat
Over(e) ==
  /\ err' = e /\ pc' = "stopping" /\ beat' = IF beat = "on" THEN "stopping" ELSE beat
  /\ UNCHANGED <<attempt, context, buf, result, wire, reader, count>>

Failures == {"overloaded", "network", "fatal"}

Connect ==
  /\ pc = "dial" /\ pc' = "stream"
  /\ UNCHANGED <<attempt, context, buf, whole, err, result, beat, wire, reader, count>>

DialFails == pc = "dial" /\ (\E e \in Failures : Over(e)) /\ UNCHANGED whole

\* Chat called on this goroutine, as it was before: it returns when the provider does
WaitForDial == FALSE /\ UNCHANGED vars

\* a dial that does not heed its context is left to itself
LeaveDial == pc = "dial" /\ cause # "none" /\ Over("network") /\ UNCHANGED whole

\* the first attempt reports as it goes; planning is reported in every attempt
Chunk(kind) ==
  /\ pc = "stream" /\ todo = <<>> /\ texts + uses < MaxChunks
  /\ \/ /\ kind = "text" /\ texts' = texts + 1 /\ UNCHANGED uses
        /\ todo' = IF attempt = 1 THEN <<Event("text", <<<<attempt, texts + 1>>>>, FALSE)>> ELSE <<>>
     \/ /\ kind = "use" /\ uses' = uses + 1 /\ UNCHANGED texts
        /\ todo' = IF attempt = 1 THEN <<Event("use", <<<<attempt, uses + 1>>>>, FALSE), Note>>
                   ELSE <<Note>>
  /\ UNCHANGED <<pc, attempt, context, whole, err, result, beat, chan, lost, reader, count>>

\* a stream that closes without an error is an answer, whatever ended it
AnyEndIsGood == "none"

\* A stream that closes without an error was cut if the context is done, unless it was
\* cancelled without a cause.
Verdict == IF cause \in {"none", "cancelled"} THEN "none" ELSE "network"

StreamEnds == pc = "stream" /\ todo = <<>> /\ whole' = TRUE /\ Over(Verdict)
StreamBreaks == pc = "stream" /\ todo = <<>> /\ (\E e \in Failures : Over(e)) /\ UNCHANGED whole
\* the provider's wrapper closes the stream when the context is done
StreamCut == pc = "stream" /\ todo = <<>> /\ cause # "none" /\ Over(Verdict) /\ UNCHANGED whole

\* the attempt's own limits: no chunk for too long, no end for too long
Expire(why) ==
  /\ InFlight /\ cause = "none" /\ cause' = why
  /\ UNCHANGED <<pc, attempt, parent, buf, whole, err, result, beat, wire, reader, count>>
FirstByteTimeout == texts + uses = 0 /\ Expire("stall")
APITimeout == Expire("deadline")

\* AbortSession, the end of a query (with a cause, without); the stop of a task, shutdown
Cancel(how) ==
  /\ parent = "live" /\ parent' = how
  /\ cause' = IF InFlight /\ cause = "none" THEN how ELSE cause
  /\ UNCHANGED <<pc, attempt, buf, whole, err, result, beat, wire, reader, count>>

-----------------------------------------------------------------------------
(* The retrier: DoWith.                                                    *)

\* the attempt's goroutines are joined before its end is judged
Judge ==
  /\ pc = "stopping" /\ beat = "off"
  /\ pc' = CASE err = "none" -> "replay" [] err = "overloaded" -> "bump" [] OTHER -> "decide"
  /\ count' = IF err = "overloaded" THEN count ELSE 0
  /\ UNCHANGED <<attempt, context, buf, whole, err, result, beat, wire, reader>>

\* the counter is not the call's own; FallbackAfter529 stands for anything above it
Others ==
  /\ pc \in {"stopping", "bump", "check"}
  /\ count' \in (0 .. FallbackAfter529) \ {count}
  /\ UNCHANGED <<pc, attempt, context, buf, whole, err, result, beat, wire, reader>>

Bump ==
  /\ pc = "bump" /\ pc' = "check"
  /\ count' = count + 1
  /\ UNCHANGED <<attempt, context, buf, whole, err, result, beat, wire, reader>>

Return(r) ==
  /\ pc' = "returned" /\ result' = r
  /\ UNCHANGED <<attempt, context, buf, whole, err, beat, wire, reader, count>>

Fallback == pc = "check" /\ count >= FallbackAfter529 /\ Return("fallback")

Check ==
  /\ pc = "check" /\ count < FallbackAfter529 /\ pc' = "decide"
  /\ UNCHANGED <<attempt, context, buf, whole, err, result, beat, wire, reader, count>>

GiveUp == pc = "decide" /\ (err = "fatal" \/ attempt > MaxRetries) /\ Return("failed")

\* onRetry: nothing it sends is waited for
Retry ==
  /\ pc = "decide" /\ err # "fatal" /\ attempt <= MaxRetries
  /\ pc' = "backoff" /\ todo' = <<Reset, Note, Note>>
  /\ UNCHANGED <<attempt, context, buf, whole, err, result, beat, chan, lost, reader, count>>

\* the backoff ends early, with the context's error
CutBackoff == pc = "backoff" /\ todo = <<>> /\ parent # "live" /\ Return("cancelled")

\* what a later attempt received is sent now; the tool calls of the first one, again
Replay ==
  /\ pc = "replay" /\ todo = <<>>
  /\ pc' = "replaying"
  /\ todo' = (IF attempt > 1 /\ texts > 0 THEN <<Event("text", Text, FALSE)>> ELSE <<>>)
             \o [n \in 1 .. uses |-> Event("use", <<ToolCalls[n]>>, FALSE)]
             \o [n \in 1 .. uses |-> Note]
  /\ UNCHANGED <<attempt, context, buf, whole, err, result, beat, chan, lost, reader, count>>

Succeed == pc = "replaying" /\ todo = <<>> /\ Return("ok")

-----------------------------------------------------------------------------
Attempt ==
  \/ BeginAttempt \/ Connect \/ DialFails \/ LeaveDial
  \/ (\E kind \in {"text", "use"} : Chunk(kind)) \/ StreamEnds \/ StreamBreaks \/ StreamCut
Limits == FirstByteTimeout \/ APITimeout
Retrier ==
  Judge \/ Bump \/ Fallback \/ Check \/ GiveUp \/ Retry \/ CutBackoff \/ Replay \/ Succeed
Done == pc = "returned" /\ chan = <<>> /\ UNCHANGED vars

Next ==
  \/ Send \/ Beat \/ BeatEnds \/ Read \/ Attempt \/ Limits
  \/ (\E how \in {"stopped", "cancelled"} : Cancel(how))
  \/ Retrier \/ Others \/ Done

Spec == Init /\ [][Next]_vars

\* Goroutines and timers run; a wrapper closes its stream when the context is done.  A
\* blocked sender is served first when the channel has room again (Go keeps the senders in a
\* queue), so the heartbeats cannot keep it out.  A provider owes nothing, and a reader may
\* leave at any time: a sub-agent's does when its context is done (sync.go).
Fairness ==
  /\ WF_vars(BeginAttempt) /\ WF_vars(LeaveDial) /\ WF_vars(StreamCut)
  /\ WF_vars(Limits) /\ WF_vars(BeatEnds) /\ WF_vars(Retrier)
  /\ SF_vars(Send)

FairSpec == Spec /\ Fairness

\* the next event must not be lost and there is no room for it: only the reader can help
Blocked == todo # <<>> /\ ~Head(todo).mayDrop /\ Len(chan) = Capacity

-----------------------------------------------------------------------------
(* Properties                                                              *)

PCs == {"begin", "dial", "stream", "stopping", "bump", "check", "decide", "backoff",
        "replay", "replaying", "returned"}

\* Types; the attempts are the first and its retries; and once the call has returned nothing
\* of it can still send: its caller closes the channel, and a late heartbeat would panic.
LLMCallInv ==
  /\ pc \in PCs /\ attempt \in 0 .. MaxRetries + 1 /\ texts \in Nat /\ uses \in Nat
  /\ Len(chan) <= Capacity /\ count \in Nat
  /\ result = "none" <=> pc # "returned"
  /\ pc = "returned" => beat = "off" /\ todo = <<>>

\* An answer that was cut off by one of the call's own limits, or by a stop that has a
\* cause, is never returned as the model's answer (context.Cause after the stream).
OkMeansWhole == result = "ok" => whole \/ parent = "cancelled"

Answered == result = "ok" /\ chan = <<>>

\* When the call has answered, the reader shows the text of the attempt that succeeded and
\* nothing of the ones before, each part once, and was told of all of its tool calls
\* (buffer-then-replay), provided no TextReset was lost.
FinalContent ==
  Answered /\ ~lost => shown = Text /\ ToSet(ToolCalls) \subseteq announced

\* A call that succeeds returns one whole message, and the reader was shown no other.
CallIsWhole == LLMCallInv /\ OkMeansWhole /\ FinalContent

\* The same without the proviso.
ShowsFinalText == Answered => shown = Text

\* Every call returns, whatever its provider does, unless its reader leaves it before a full
\* channel for good; a reader that goes on reading makes every call return.
ReturnsOrIsLeft == <>[](pc = "returned" \/ Blocked)

\* Refuted: the same without the reader, since text and tool calls are sent without a way out.
Returns == <>(pc = "returned")

\* A fallback is reported for 529s of this call.
OwnOverloads == result = "fallback" => attempt >= FallbackAfter529
=============================================================================
