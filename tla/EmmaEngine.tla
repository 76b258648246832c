----------------------------- MODULE EmmaEngine -----------------------------
(***************************************************************************)
(* The main agent's queries on one session (engine/agent/emma): each user  *)
(* message starts a goroutine that alternates model calls and tool calls,  *)
(* AbortSession stops it through the session's one entry in the cancel     *)
(* map, and permission and client-tool calls wait in the session's Awaits. *)
(*                                                                         *)
(* Extends Awaits: a call that needs an answer is an awaiter, its context  *)
(* is its query's, AbortAll runs only as the last part of AbortSession.    *)
(***************************************************************************)
EXTENDS Awaits

CONSTANTS
  Queries,    \* user messages of the session
  Owner,      \* the query each call belongs to
  SubAgent,   \* permission calls asked by a sub-agent (BuildSubAgentApprovalFn)
  Key,        \* the permission key of each permission call ("Bash:git")
  Overlap,    \* may the client send while a turn is open, or does it wait?
  NoQuery

ASSUME EngineAssumption ==
  /\ Owner \in [Awaiters -> Queries]
  /\ SubAgent \subseteq PermAwaiters
  /\ DOMAIN Key = PermAwaiters
  /\ Overlap \in BOOLEAN
  /\ NoQuery \notin Queries

VARIABLES
  query,     \* where the goroutine of each query is
  batch,     \* the calls of its current turn
  terminal,  \* how its loop ended
  cause,     \* why its context was cancelled; the first cause wins
  cancels,   \* the session's entry in cancels and causeCancels
  aborter,   \* where the AbortSession call is
  target,    \* the query whose cancel function it took
  result,    \* how each call ended, as the model is told
  allowed    \* keys the user approved for the whole session

engineVars == <<query, batch, terminal, cause, cancels, aborter, target,
                result, allowed>>
allVars == <<vars, engineVars>>

InLoop == {"turn", "llm", "tools"}
Keys == {Key[w] : w \in PermAwaiters}
CallsOf(q) == {w \in Awaiters : Owner[w] = q}

EngineTypeOK ==
  /\ query \in [Queries -> {"new", "ending", "told", "cancelling", "done"} \cup InLoop]
  /\ batch \in [Queries -> SUBSET Awaiters]
  /\ terminal \in [Queries -> {"none", "completed", "aborted", "model_error"}]
  /\ cause \in [Queries -> {"none", "ended", "aborted"}]
  /\ cancels \in Queries \cup {NoQuery}
  /\ aborter \in {"idle", "cancelling", "closing"}
  /\ target \in Queries \cup {NoQuery}
  /\ result \in [Awaiters -> {"none", "run", "denied", "cancelled", "panicked"}]
  /\ allowed \subseteq Keys

EngineInit ==
  /\ Init
  /\ query = [q \in Queries |-> "new"]
  /\ batch = [q \in Queries |-> {}]
  /\ terminal = [q \in Queries |-> "none"]
  /\ cause = [q \in Queries |-> "none"]
  /\ cancels = NoQuery
  /\ aborter = "idle"
  /\ target = NoQuery
  /\ result = [w \in Awaiters |-> "none"]
  /\ allowed = {}

-----------------------------------------------------------------------------
(* ProcessMessage and the query's loop.                                    *)

\* The client has seen the query's done event: its turn card is closed.
TurnClosed(q) == query[q] \in {"new", "told", "cancelling", "done"}

\* The consumer goroutine appends the message, stores the cancel functions
\* over whatever the session's entry was, and starts the query's goroutine.
ProcessMessage(q) ==
  /\ query[q] = "new"
  /\ Overlap \/ \A p \in Queries : TurnClosed(p)
  /\ query' = [query EXCEPT ![q] = "turn"]
  /\ cancels' = q
  /\ UNCHANGED <<vars, batch, terminal, cause, aborter, target, result, allowed>>

\* The top of loop.Run's turn: a cancelled context ends the loop.
TurnTop(q) ==
  /\ query[q] = "turn"
  /\ IF cause[q] = "none"
     THEN query' = [query EXCEPT ![q] = "llm"] /\ UNCHANGED terminal
     ELSE /\ query' = [query EXCEPT ![q] = "ending"]
          /\ terminal' = [terminal EXCEPT ![q] = "aborted"]
  /\ UNCHANGED <<vars, batch, cause, cancels, aborter, target, result, allowed>>

\* The runner tells an aborted stream from a failed one by the context.
LLMFails(q) ==
  /\ query[q] = "llm"
  /\ query' = [query EXCEPT ![q] = "ending"]
  /\ terminal' = [terminal EXCEPT ![q] =
       IF cause[q] = "none" THEN "model_error" ELSE "aborted"]
  /\ UNCHANGED <<vars, batch, cause, cancels, aborter, target, result, allowed>>

\* No tool calls: the main hook terminates with Completed.
LLMFinishes(q) ==
  /\ query[q] = "llm"
  /\ query' = [query EXCEPT ![q] = "ending"]
  /\ terminal' = [terminal EXCEPT ![q] = "completed"]
  /\ UNCHANGED <<vars, batch, cause, cancels, aborter, target, result, allowed>>

LLMCallsTools(q) ==
  /\ query[q] = "llm"
  /\ \E ws \in SUBSET {w \in CallsOf(q) : result[w] = "none"} :
       ws # {} /\ batch' = [batch EXCEPT ![q] = ws]
  /\ query' = [query EXCEPT ![q] = "tools"]
  /\ UNCHANGED <<vars, terminal, cause, cancels, aborter, target, result, allowed>>

\* Bug: leaving the turn on cancellation without joining the running calls.
ToolsAbandoned(q) ==
  /\ query[q] = "tools"
  /\ cause[q] # "none" \/ \A w \in batch[q] : result[w] # "none"
  /\ query' = [query EXCEPT ![q] = "turn"]
  /\ batch' = [batch EXCEPT ![q] = {}]
  /\ UNCHANGED <<vars, terminal, cause, cancels, aborter, target, result, allowed>>

ToolsDone(q) ==
  /\ query[q] = "tools"
  /\ \A w \in batch[q] : result[w] # "none"
  /\ query' = [query EXCEPT ![q] = "turn"]
  /\ batch' = [batch EXCEPT ![q] = {}]
  /\ UNCHANGED <<vars, terminal, cause, cancels, aborter, target, result, allowed>>

\* The last event of the stream: the client's turn is over.
EmitDone(q) ==
  /\ query[q] = "ending"
  /\ query' = [query EXCEPT ![q] = "told"]
  /\ UNCHANGED <<vars, batch, terminal, cause, cancels, aborter, target, result,
                 allowed>>

\* The goroutine's deferred function, which runs after the done event, deletes
\* the session's entry, whoever's it is by then, ...
Deregister(q) ==
  /\ query[q] = "told"
  /\ query' = [query EXCEPT ![q] = "cancelling"]
  /\ cancels' = NoQuery
  /\ UNCHANGED <<vars, batch, terminal, cause, aborter, target, result, allowed>>

CancelQuery(q, why) ==
  /\ cause' = [cause EXCEPT ![q] = IF @ = "none" THEN why ELSE @]
  /\ ctxDone' = ctxDone \cup CallsOf(q)
  /\ UNCHANGED <<registryVars, waiterVars, resolverVars>>

\* ... then cancels the context and closes the event stream.
Finish(q) ==
  /\ query[q] = "cancelling"
  /\ CancelQuery(q, "ended")
  /\ query' = [query EXCEPT ![q] = "done"]
  /\ UNCHANGED <<batch, terminal, cancels, aborter, target, result, allowed>>

Loop(q) ==
  \/ TurnTop(q) \/ LLMFails(q) \/ LLMFinishes(q) \/ LLMCallsTools(q)
  \/ ToolsDone(q) \/ EmitDone(q) \/ Deregister(q) \/ Finish(q)

-----------------------------------------------------------------------------
(* The calls of a turn.                                                    *)

InBatch(w) == query[Owner[w]] = "tools" /\ w \in batch[Owner[w]]

\* A serial server tool is not started once the context is done.
SkipCall(w) ==
  /\ InBatch(w) /\ waiter[w] = "idle" /\ result[w] = "none"
  /\ w \in PermAwaiters
  /\ cause[Owner[w]] # "none"
  /\ result' = [result EXCEPT ![w] = "cancelled"]
  /\ UNCHANGED <<vars, query, batch, terminal, cause, cancels, aborter, target,
                 allowed>>

\* A key approved for the session is not asked again.
AutoApprove(w) ==
  /\ InBatch(w) /\ waiter[w] = "idle" /\ result[w] = "none"
  /\ w \in PermAwaiters /\ Key[w] \in allowed
  /\ result' = [result EXCEPT ![w] = "run"]
  /\ UNCHANGED <<vars, query, batch, terminal, cause, cancels, aborter, target,
                 allowed>>

BeginCall(w) ==
  /\ InBatch(w) /\ result[w] = "none"
  /\ w \in PermAwaiters => Key[w] \notin allowed
  /\ BeginAwait(w)
  /\ UNCHANGED engineVars

WaitForAnswer(w) ==
  /\ \/ Emit(w) \/ EmitCancelled(w) \/ ReceiveAnswer(w)
     \/ ReceiveClosed(w) \/ GiveUp(w) \/ FinishAwait(w)
  /\ UNCHANGED engineVars

\* A client tool reports what the client sent, or that it was cancelled.
ToolReturns(w) ==
  /\ waiter[w] = "done" /\ result[w] = "none"
  /\ w \notin PermAwaiters
  /\ result' = [result EXCEPT ![w] =
       IF outcome[w] = "answered" THEN "run" ELSE "cancelled"]
  /\ UNCHANGED <<vars, query, batch, terminal, cause, cancels, aborter, target,
                 allowed>>

\* Bug: running a tool whose permission request was cancelled.
CancelledPermissionRuns(w) ==
  /\ waiter[w] = "done" /\ result[w] = "none"
  /\ w \in PermAwaiters /\ outcome[w] = "cancelled"
  /\ result' = [result EXCEPT ![w] = "run"]
  /\ UNCHANGED <<vars, query, batch, terminal, cause, cancels, aborter, target,
                 allowed>>

\* Bug: asking again through the await that was aborted.
AbortedPermissionRetries(w) ==
  /\ waiter[w] = "done" /\ outcome[w] = "aborted" /\ result[w] = "none"
  /\ waiter' = [waiter EXCEPT ![w] = "waiting"]
  /\ UNCHANGED <<registryVars, outcome, ctxDone, resolverVars, engineVars>>

\* The user allows the tool once, for the session, or not at all.  A done
\* context is a denial.  A closed channel is a nil response: the sub-agent's
\* approval function takes it as a denial, the main agent's dereferences it and
\* the executor's recover reports the panic as an internal error.
PermissionReturns(w) ==
  /\ waiter[w] = "done" /\ result[w] = "none"
  /\ w \in PermAwaiters
  /\ \/ /\ outcome[w] = "answered"
        /\ \/ result' = [result EXCEPT ![w] = "denied"] /\ UNCHANGED allowed
           \/ result' = [result EXCEPT ![w] = "run"] /\ UNCHANGED allowed
           \/ /\ result' = [result EXCEPT ![w] = "run"]
              /\ allowed' = allowed \cup {Key[w]}
     \/ /\ outcome[w] = "cancelled"
        /\ result' = [result EXCEPT ![w] = "denied"]
        /\ UNCHANGED allowed
     \/ /\ outcome[w] = "aborted"
        /\ result' = [result EXCEPT ![w] =
                        IF w \in SubAgent THEN "denied" ELSE "panicked"]
        /\ UNCHANGED allowed
  /\ UNCHANGED <<vars, query, batch, terminal, cause, cancels, aborter, target>>

Call(w) ==
  \/ SkipCall(w) \/ AutoApprove(w) \/ BeginCall(w) \/ WaitForAnswer(w)
  \/ ToolReturns(w) \/ PermissionReturns(w)

\* SubmitToolResult, SubmitPermissionResult: any goroutine delivering an answer.
Submit(r) == Resolve(r) /\ UNCHANGED engineVars

-----------------------------------------------------------------------------
(* AbortSession: take the entry under the lock, cancel, close the awaits.  *)
(* Without an entry it returns "no active query" and changes nothing.      *)

AbortLookup ==
  /\ aborter = "idle"
  /\ cancels # NoQuery
  /\ aborter' = "cancelling"
  /\ target' = cancels
  /\ cancels' = NoQuery
  /\ UNCHANGED <<vars, query, batch, terminal, cause, result, allowed>>

AbortCancel ==
  /\ aborter = "cancelling"
  /\ CancelQuery(target, "aborted")
  /\ aborter' = "closing"
  /\ UNCHANGED <<query, batch, terminal, cancels, target, result, allowed>>

AbortAwaits ==
  /\ aborter = "closing"
  /\ Abort
  /\ aborter' = "idle"
  /\ target' = NoQuery
  /\ UNCHANGED <<query, batch, terminal, cause, cancels, result, allowed>>

AbortSession == AbortLookup \/ AbortCancel \/ AbortAwaits

EngineNext ==
  \/ \E q \in Queries : ProcessMessage(q) \/ Loop(q)
  \/ \E w \in Awaiters : Call(w)
  \/ \E r \in Resolvers : Submit(r)
  \/ AbortSession

EngineSpec == EngineInit /\ [][EngineNext]_allVars

\* What the engine's goroutines have to do, model calls aside, which end at the latest when
\* their context is cancelled.  Nobody has to answer a question or press stop.
Due ==
  \/ \E q \in Queries :
       \/ TurnTop(q) \/ ToolsDone(q) \/ EmitDone(q) \/ Deregister(q) \/ Finish(q)
       \/ cause[q] # "none" /\ (LLMFails(q) \/ LLMFinishes(q) \/ LLMCallsTools(q))
  \/ \E w \in Awaiters : Call(w)
  \/ \E r \in Resolvers : (ResolveSend(r) \/ ResolveClose(r)) /\ UNCHANGED engineVars
  \/ AbortCancel \/ AbortAwaits

\* As long as something is due, some goroutine runs; the Go scheduler guarantees more, but
\* no goroutine goes round without a model call, so this is enough.
EngineFairness == WF_allVars(Due)

EngineFairSpec == EngineSpec /\ EngineFairness

-----------------------------------------------------------------------------
(* Properties                                                              *)

InFlight(q) == query[q] \in InLoop /\ cause[q] = "none"

\* Types, and how the engine's variables go together: a query that has left its
\* loop has a terminal reason, calls belong to their query's turn, an abort holds
\* a query exactly while it runs, and a call that is asking is one its turn
\* still waits for.
QueryState ==
  \A q \in Queries :
    /\ terminal[q] = "none" <=> query[q] \in {"new"} \cup InLoop
    /\ batch[q] \subseteq CallsOf(q)
    /\ batch[q] # {} <=> query[q] = "tools"
    /\ cause[q] # "none" => query[q] # "new"

AbortState ==
  /\ target = NoQuery <=> aborter = "idle"
  /\ target # NoQuery => query[target] # "new"

AskingIsAwaited ==
  \A w \in Awaiters : waiter[w] \notin {"idle", "done"} =>
    /\ w \in batch[Owner[w]]
    /\ result[w] = "none"

EngineInv == EngineTypeOK /\ QueryState /\ AbortState /\ AskingIsAwaited

\* A tool that asked runs only because this user's answer, or an earlier
\* session-wide one for the same key, allowed it: never because the request was
\* cancelled, aborted or lost.
RunsOnlyWithConsent ==
  \A w \in PermAwaiters : result[w] = "run" =>
    outcome[w] = "answered" \/ (waiter[w] = "idle" /\ Key[w] \in allowed)

\* Structured concurrency: once a query has left its loop, none of its calls is
\* still registered, waiting, or owed a result.
NoCallOutlivesQuery ==
  \A w \in Awaiters : query[Owner[w]] \notin {"new"} \cup InLoop =>
    waiter[w] \in {"idle", "done"} /\ w \notin Registered

\* The cancel entry always leads to a query that is still running: stop never
\* lands on a finished query while its entry hides a live one.
EntryIsLive == cancels # NoQuery => query[cancels] \in InLoop \cup {"ending", "told"}

\* Pressing stop ends the query: whatever it is doing (streaming, waiting for
\* the user, between turns), it finishes.
AbortedQueryFinishes ==
  \A q \in Queries : (cause[q] = "aborted") ~> (query[q] = "done")

\* AbortSession's "no active query" is true: with no entry and no abort under
\* way, nothing is in flight that a stop could not reach.
NoActiveQueryIsTrue ==
  cancels = NoQuery /\ aborter = "idle" => \A q \in Queries : ~InFlight(q)

\* A closed permission channel is a denial, never a crash of the tool call.
AbortedPermissionIsDenied ==
  \A w \in PermAwaiters : result[w] # "panicked"

\* The engine uses the registry only through its own operations.
EngineUsesAwaits == Spec
=============================================================================
