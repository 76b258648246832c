---------------------------- MODULE Conversation ----------------------------
(***************************************************************************)
(* The history of one session under engine/loop: a query appends its       *)
(* question, then in each turn may compact the history, sends it to the    *)
(* model, appends the reply and one result per tool call.  The compactor   *)
(* (engine/compact) is modelled exactly on the shape of the history; what  *)
(* messages say, and how many tokens they have, is left out.               *)
(***************************************************************************)
EXTENDS Naturals, Sequences, FiniteSets, FiniteSetsExt, SequencesExt

CONSTANTS
  Queries,
  Overlap,    \* may a query start while another one runs?
  Notes,      \* may a tool add a message after its result (load_skill)?
  Contract,   \* do the queries owe a submission (sub-agents with a contract)?
  MaxCalls,   \* bound: tool calls of one reply
  MaxTurns,   \* turns of a query
  MaxLength   \* bound: messages of the history

VARIABLES
  history,  \* Session.Messages
  pc,       \* where each query is in loop.Run
  turn,
  view,     \* the copy of the history a query works on
  todo,     \* messages a query has still to append
  aborted,  \* queries whose context is cancelled
  failures, \* failureCount of the compactor
  calls     \* tool calls made so far: the next one's id

vars == <<history, pc, turn, view, todo, aborted, failures, calls>>

MaxFailures == 3

\* A message: its role, the tool calls it makes or answers, its query.
Message(role, ids, q) == [role |-> role, ids |-> ids, query |-> q]

Roles == {"user", "assistant", "result", "note", "summary"}

TypeOK ==
  /\ history \in Seq([role : Roles, ids : SUBSET Nat, query : Queries])
  /\ pc \in [Queries -> {"new", "turn", "compact", "call", "append", "done"}]
  /\ turn \in [Queries -> Nat]
  /\ view \in [Queries -> Seq([role : Roles, ids : SUBSET Nat, query : Queries])]
  /\ todo \in [Queries -> Seq([role : Roles, ids : SUBSET Nat, query : Queries])]
  /\ aborted \subseteq Queries
  /\ failures \in 0..MaxFailures
  /\ calls \in Nat

Init ==
  /\ history = <<>>
  /\ pc = [q \in Queries |-> "new"]
  /\ turn = [q \in Queries |-> 0]
  /\ view = [q \in Queries |-> <<>>]
  /\ todo = [q \in Queries |-> <<>>]
  /\ aborted = {}
  /\ failures = 0
  /\ calls = 0

-----------------------------------------------------------------------------
(* The compactor.                                                          *)

\* advancePastOrphanToolResults: the first message at or after the cut that is
\* no tool result, or the end.
KeepFrom(h, from) ==
  CHOOSE k \in from..(Len(h) + 1) :
    /\ k = Len(h) + 1 \/ h[k].role # "result"
    /\ \A j \in from..(k - 1) : h[j].role = "result"

\* The first message and the most recent half.
MicroCompact(h) == <<h[1]>> \o SubSeq(h, KeepFrom(h, Len(h) \div 2 + 1), Len(h))

\* The summary speaks as the user.
Summary(q) == Message("summary", {}, q)

FullCompact(h, q) ==
  <<Summary(q)>> \o SubSeq(h, KeepFrom(h, (Len(h) * 2) \div 3 + 1), Len(h))

-----------------------------------------------------------------------------
(* What the adapter makes of a history (sanitizeToolSequence): results of no   *)
(* call go, and calls without a result too, except those of the last reply.    *)
(* Every reply is taken to have some text, so that none goes altogether.       *)

IdsOf(h, role) == UNION {h[i].ids : i \in {j \in DOMAIN h : h[j].role = role}}

Sanitize(h) ==
  LET known == SelectSeq(h, LAMBDA m : m.role = "result" => m.ids \subseteq IdsOf(h, "assistant"))
      last(i) == \A j \in (i + 1)..Len(known) : known[j].role # "assistant"
  IN  [i \in DOMAIN known |->
         IF known[i].role = "assistant" /\ ~last(i)
         THEN [known[i] EXCEPT !.ids = @ \cap IdsOf(known, "result")]
         ELSE known[i]]

-----------------------------------------------------------------------------
(* loop.Run for query q.                                                   *)

\* ProcessMessage appends the question.
Start(q) ==
  /\ pc[q] = "new"
  /\ Overlap \/ \A r \in Queries : pc[r] \in {"new", "done"}
  /\ Len(history) < MaxLength
  /\ history' = Append(history, Message("user", {}, q))
  /\ pc' = [pc EXCEPT ![q] = "turn"]
  /\ UNCHANGED <<turn, view, todo, aborted, failures, calls>>

\* The user presses stop.
Abort(q) ==
  /\ pc[q] \notin {"new", "done"}
  /\ aborted' = aborted \cup {q}
  /\ UNCHANGED <<history, pc, turn, view, todo, failures, calls>>

\* The head of the loop; whether the history is too big is up to the tokens.
BeginTurn(q) ==
  /\ pc[q] = "turn"
  /\ IF q \in aborted \/ turn[q] = MaxTurns
     THEN /\ pc' = [pc EXCEPT ![q] = "done"]
          /\ UNCHANGED <<turn, view>>
     ELSE /\ turn' = [turn EXCEPT ![q] = @ + 1]
          /\ view' = [view EXCEPT ![q] = history]
          /\ \/ pc' = [pc EXCEPT ![q] = "call"]
             \/ /\ failures < MaxFailures
                /\ pc' = [pc EXCEPT ![q] = "compact"]
  /\ UNCHANGED <<history, todo, aborted, failures, calls>>

\* Compact and SetMessages.
Compacted(q, h) ==
  /\ history' = h
  /\ view' = [view EXCEPT ![q] = h]

Compact(q) ==
  /\ pc[q] = "compact"
  /\ pc' = [pc EXCEPT ![q] = "call"]
  /\ \/ Len(view[q]) < 4 /\ Compacted(q, view[q]) /\ UNCHANGED failures
     \/ Len(view[q]) \in 4..9 /\ Compacted(q, MicroCompact(view[q])) /\ UNCHANGED failures
     \/ /\ Len(view[q]) >= 10
        /\ q \notin aborted
        /\ \/ Compacted(q, FullCompact(view[q], q)) /\ failures' = 0
           \/ \* an empty summary
              /\ Compacted(q, MicroCompact(view[q]))
              /\ failures' = IF failures < MaxFailures THEN failures + 1 ELSE failures
     \/ /\ Len(view[q]) >= 10  \* no summary
        /\ failures' = IF failures < MaxFailures THEN failures + 1 ELSE failures
        /\ UNCHANGED <<history, view>>
  /\ UNCHANGED <<turn, todo, aborted, calls>>

\* What the tools answer, in the order of the calls.
Answers(q, ids) ==
  LET result(i) == Message("result", {i}, q)
      note == Message("note", {}, q)
      ordered == SetToSortSeq(ids, LAMBDA a, b : a < b)
  IN  {FlattenSeq([i \in DOMAIN ordered |->
         IF i \in noted THEN <<result(ordered[i]), note>> ELSE <<result(ordered[i])>>])
       : noted \in IF Notes THEN SUBSET DOMAIN ordered ELSE {{}}}

\* The model replies with some calls, which are dispatched; whatever becomes of
\* them, each has a result.
Reply(q) ==
  /\ pc[q] = "call" /\ q \notin aborted
  /\ \E n \in 0..MaxCalls :
       LET ids == (calls + 1)..(calls + n) IN
         /\ Len(history) + 2 * n < MaxLength
         /\ history' = Append(history, Message("assistant", ids, q))
         /\ calls' = calls + n
         /\ todo' \in {[todo EXCEPT ![q] = s] : s \in Answers(q, ids)}
  /\ pc' = [pc EXCEPT ![q] = "append"]
  /\ UNCHANGED <<turn, view, aborted, failures>>

\* The call fails or is cancelled: nothing is appended.
CallFails(q) ==
  /\ pc[q] = "call"
  /\ pc' = [pc EXCEPT ![q] = "done"]
  /\ UNCHANGED <<history, turn, view, todo, aborted, failures, calls>>

\* appendToolResultsToSession, one message at a time.
AppendResult(q) ==
  /\ pc[q] = "append" /\ todo[q] # <<>>
  /\ history' = Append(history, Head(todo[q]))
  /\ todo' = [todo EXCEPT ![q] = Tail(@)]
  /\ UNCHANGED <<pc, turn, view, aborted, failures, calls>>

\* OnTurnComplete: go on after tool calls, end without (emmaMainHook); the
\* hooks of sub-agents may also end after a submit or add a message and go on.
Complete(q) ==
  /\ pc[q] = "append" /\ todo[q] = <<>>
  /\ \/ pc' = [pc EXCEPT ![q] = "done"] /\ UNCHANGED history
     \/ pc' = [pc EXCEPT ![q] = "turn"] /\ UNCHANGED history /\ Last(history).role # "assistant"
     \/ /\ pc' = [pc EXCEPT ![q] = "turn"]
        /\ Len(history) < MaxLength
        /\ history' = Append(history, Message("note", {}, q))
  /\ UNCHANGED <<turn, view, todo, aborted, failures, calls>>

\* ContractEnforcer: a rejected submission is answered, and the query goes on.
Correct(q) ==
  /\ Contract
  /\ pc[q] = "append" /\ todo[q] = <<>>
  /\ Len(history) < MaxLength
  /\ \E i \in DOMAIN history :
       /\ history[i].role = "assistant" /\ history[i].query = q
       /\ \A j \in (i + 1)..Len(history) : history[j].role = "assistant" => history[j].query # q
       /\ \E id \in history[i].ids : history' = Append(history, Message("result", {id}, q))
  /\ pc' = [pc EXCEPT ![q] = "turn"]
  /\ UNCHANGED <<turn, view, todo, aborted, failures, calls>>

Next ==
  \E q \in Queries :
    \/ Start(q) \/ Abort(q) \/ BeginTurn(q) \/ Compact(q) \/ Reply(q)
    \/ CallFails(q) \/ AppendResult(q) \/ Complete(q) \/ Correct(q)

Spec == Init /\ [][Next]_vars

-----------------------------------------------------------------------------
(* Properties                                                              *)

\* The assistant message a position follows: its index, or 0.
Asker(h, i) ==
  LET before == {j \in 1..(i - 1) : h[j].role = "assistant"}
  IN  IF before = {} THEN 0 ELSE CHOOSE j \in before : \A k \in before : k <= j

\* Each result answers a call of the reply before it, at once: nothing but other
\* results comes between.
ResultsFollow(h) ==
  \A i \in DOMAIN h : h[i].role = "result" =>
    /\ Asker(h, i) # 0 /\ h[i].ids \subseteq h[Asker(h, i)].ids
    /\ \A k \in (Asker(h, i) + 1)..(i - 1) : h[k].role = "result"

\* Every call is answered before the model speaks again.
EveryCallAnswered(h) ==
  \A j \in DOMAIN h : h[j].role = "assistant" =>
    \A id \in h[j].ids :
      \E i \in (j + 1)..Len(h) : h[i].ids = {id} /\ Asker(h, i) = j

\* What is sent to the model is a conversation the providers accept, whatever was
\* compacted, cancelled or failed before: it begins with the user's side, every result
\* directly follows the reply that called for it, every call has one, and nothing of it
\* is left to the sanitizer to drop.
RequestsPair ==
  /\ TypeOK
  /\ \A q \in Queries : pc[q] = "call" =>
       LET sent == Sanitize(view[q])
       IN  /\ sent = view[q] /\ sent[1].role \in {"user", "summary", "note"}
           /\ ResultsFollow(sent) /\ EveryCallAnswered(sent)

\* A call is answered once: a history in which one id has two results is no
\* conversation that took place.
OneResultPerCall ==
  \A i, j \in DOMAIN history :
    history[i].role = "result" /\ history[j].role = "result" /\ history[i].ids = history[j].ids => i = j

\* The model always has the question it is to answer, or a summary of it.
RequestHasQuestion ==
  \A q \in Queries : pc[q] = "call" =>
    \E i \in DOMAIN view[q] :
      \/ view[q][i].role = "user" /\ view[q][i].query = q
      \/ view[q][i].role = "summary"

\* A compaction replaces what it has read and nothing else: messages come and
\* stay until some compaction has seen them.
CompactionLosesNothing ==
  [][IsPrefix(history, history') \/ \E q \in Queries : pc[q] = "compact" /\ view[q] = history]_history
=============================================================================
