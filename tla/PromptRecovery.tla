--------------------------- MODULE PromptRecovery ---------------------------
(***************************************************************************)
(* Questions to the user that outlive the process: the websocket           *)
(* translator persists a prompt before it shows it, a connection routes    *)
(* the reply to the waiting call or, after a restart, to the resumer.      *)
(* channel/websocket/{translator,conn,channel}.go, humanloop, the          *)
(* pending_waits table and engine/agent/emma/resume.                       *)
(*                                                                         *)
(* One session.  A connection id is used once; its reader finishes the     *)
(* frame it is serving even when the peer is gone.  A graceful shutdown    *)
(* cancels the contexts at some point, as a crash does.  What the answer   *)
(* says is left out.                                                       *)
(***************************************************************************)
EXTENDS Naturals, FiniteSets

CONSTANTS
  Prompts,      \* request ids
  Conns,        \* connections, in the order they may come
  SaveFails,    \* may IssueWait fail?
  AnswersOverlap, \* may two connections serve replies at the same moment?
  QueueSize,    \* capacity of Channel.messages
  MaxAnswers,   \* bound: replies the user sends to one prompt
  MaxCrashes,   \* bound: crashes
  Drained,      \* the query's events go nowhere
  NoQuery

VARIABLES
  rows,     \* the pending_waits table
  pending,  \* the translator's askQuestion, pendingPerm, pendingPlan maps
  call,     \* the engine's call behind each prompt
  stream,   \* where Reply sends the running query's events
  conn,     \* the connections
  handler,  \* the reply each connection's reader serves, and how far it is
  inbox,    \* Channel.messages: live answers on their way to the engine
  shown,    \* prompts the client has seen
  sent,     \* replies the user sent to each prompt
  taken,    \* how often each answer reached the engine since the start
  accepted, \* prompts for which the server took an answer
  expired,  \* prompts the janitor swept
  crashes

vars == <<rows, pending, call, stream, conn, handler, inbox, shown, sent, taken,
          accepted, expired, crashes>>

Idle == <<"idle">>
Steps == {"publish", "forget", "lookup", "resume", "forgetResumed"}

TypeOK ==
  /\ rows \subseteq Prompts /\ pending \subseteq Prompts
  /\ call \in [Prompts -> {"new", "waiting", "answered", "gone"}]
  /\ stream \in Conns \cup {Drained, NoQuery}
  /\ conn \in [Conns -> {"new", "open", "closed"}]
  /\ handler \in [Conns -> {Idle} \cup (Steps \X Prompts)]
  /\ inbox \subseteq Prompts /\ shown \subseteq Prompts
  /\ sent \in [Prompts -> Nat] /\ taken \in [Prompts -> Nat]
  /\ accepted \subseteq Prompts /\ expired \subseteq Prompts
  /\ crashes \in Nat

Init ==
  /\ rows = {} /\ pending = {}
  /\ call = [p \in Prompts |-> "new"]
  /\ stream = NoQuery
  /\ conn = [c \in Conns |-> "new"]
  /\ handler = [c \in Conns |-> Idle]
  /\ inbox = {} /\ shown = {}
  /\ sent = [p \in Prompts |-> 0]
  /\ taken = [p \in Prompts |-> 0]
  /\ accepted = {} /\ expired = {}
  /\ crashes = 0

Open == {c \in Conns : conn[c] = "open"}

\* emitterFor: any connection of the session that is registered now.
Emitters == IF Open = {} THEN {Drained} ELSE Open

Serving(c, step, p) == handler[c] = <<step, p>>
Goto(c, step, p) == handler' = [handler EXCEPT ![c] = <<step, p>>]
Finish(c) == handler' = [handler EXCEPT ![c] = Idle]

-----------------------------------------------------------------------------
(* Connections.                                                            *)

\* session.create: every unanswered wait of the session is sent again.
OpenConn(c) ==
  /\ conn[c] = "new"
  /\ conn' = [conn EXCEPT ![c] = "open"]
  /\ shown' = shown \cup rows
  /\ UNCHANGED <<rows, pending, call, stream, handler, inbox, sent, taken,
                 accepted, expired, crashes>>

CloseConn(c) ==
  /\ conn[c] = "open"
  /\ conn' = [conn EXCEPT ![c] = "closed"]
  /\ UNCHANGED <<rows, pending, call, stream, handler, inbox, shown, sent,
                 taken, accepted, expired, crashes>>

-----------------------------------------------------------------------------
(* A query and the prompts of its calls.                                   *)

\* A message some connection delivered starts a query; Reply picks an emitter
\* for all of its events.
StartQuery ==
  /\ stream = NoQuery
  /\ \E c \in Conns : conn[c] # "new"
  /\ stream' \in Emitters
  /\ UNCHANGED <<rows, pending, call, conn, handler, inbox, shown, sent, taken,
                 accepted, expired, crashes>>

\* persistWait, then PromptUserWithID on the query's emitter, whose connection
\* may be gone, and the entry for the reply.
Emit(p) ==
  \/ /\ rows' = rows \cup {p}
     /\ pending' = pending \cup {p}
     /\ shown' = IF stream \in Open THEN shown \cup {p} ELSE shown
  \/ SaveFails /\ UNCHANGED <<rows, pending, shown>>

\* A call blocks and the translator handles its event.
Ask(p) ==
  /\ stream # NoQuery
  /\ call[p] = "new"
  /\ call' = [call EXCEPT ![p] = "waiting"]
  /\ IF stream = Drained THEN UNCHANGED <<rows, pending, shown>> ELSE Emit(p)
  /\ UNCHANGED <<stream, conn, handler, inbox, sent, taken, accepted, expired,
                 crashes>>

\* The query ends, or is aborted with its calls; the translator keeps their
\* entries and the table their rows.
EndQuery ==
  /\ stream # NoQuery
  /\ stream' = NoQuery
  /\ call' = [p \in Prompts |-> IF call[p] = "waiting" THEN "gone" ELSE call[p]]
  /\ UNCHANGED <<rows, pending, conn, handler, inbox, shown, sent, taken,
                 accepted, expired, crashes>>

-----------------------------------------------------------------------------
(* handlePromptResponse, on the connection's reader.                       *)

\* Bug: looking the entry up without removing it.
ResolveKeeping(c, p) ==
  IF p \in pending
  THEN /\ UNCHANGED pending
       /\ accepted' = accepted \cup {p}
       /\ Goto(c, "publish", p)
  ELSE /\ UNCHANGED <<pending, accepted>>
       /\ Goto(c, "lookup", p)

\* The Resolve functions: a hit removes the entry, a miss may be a prompt of an
\* earlier process.
Resolve(c, p) ==
  IF p \in pending
  THEN /\ pending' = pending \ {p}
       /\ accepted' = accepted \cup {p}
       /\ Goto(c, "publish", p)
  ELSE /\ UNCHANGED <<pending, accepted>>
       /\ Goto(c, "lookup", p)

Answer(c, p) ==
  /\ conn[c] = "open" /\ handler[c] = Idle
  /\ AnswersOverlap \/ \A d \in Conns : handler[d] = Idle
  /\ p \in shown
  /\ sent[p] < MaxAnswers
  /\ sent' = [sent EXCEPT ![p] = @ + 1]
  /\ Resolve(c, p)
  /\ UNCHANGED <<rows, call, stream, conn, inbox, shown, taken, expired, crashes>>

\* Bug: dropping the answer when the queue is full.
PublishOrDrop(c, p) ==
  /\ Serving(c, "publish", p)
  /\ inbox' = IF Cardinality(inbox) < QueueSize THEN inbox \cup {p} ELSE inbox
  /\ Goto(c, "forget", p)
  /\ UNCHANGED <<rows, pending, call, stream, conn, shown, sent, taken, accepted,
                 expired, crashes>>

Publish(c, p) ==
  /\ Serving(c, "publish", p)
  /\ Cardinality(inbox) < QueueSize
  /\ inbox' = inbox \cup {p}
  /\ Goto(c, "forget", p)
  /\ UNCHANGED <<rows, pending, call, stream, conn, shown, sent, taken, accepted,
                 expired, crashes>>

\* forgetWait, at once: the engine need not have seen the answer.
Forget(c, p) ==
  /\ Serving(c, "forget", p) \/ Serving(c, "forgetResumed", p)
  /\ rows' = rows \ {p}
  /\ Finish(c)
  /\ UNCHANGED <<pending, call, stream, conn, inbox, shown, sent, taken,
                 accepted, expired, crashes>>

\* Prompter.Lookup; without a row the client gets an error frame.
Lookup(c, p) ==
  /\ Serving(c, "lookup", p)
  /\ IF p \in rows THEN Goto(c, "resume", p) ELSE Finish(c)
  /\ UNCHANGED <<rows, pending, call, stream, conn, inbox, shown, sent, taken,
                 accepted, expired, crashes>>

\* TextResumer.Resume: the answer becomes a new user message.
Resume(c, p) ==
  /\ Serving(c, "resume", p)
  /\ accepted' = accepted \cup {p}
  /\ taken' = [taken EXCEPT ![p] = @ + 1]
  /\ IF stream = NoQuery THEN stream' \in Emitters ELSE UNCHANGED stream
  /\ Goto(c, "forgetResumed", p)
  /\ UNCHANGED <<rows, pending, call, conn, inbox, shown, sent, expired, crashes>>

\* The engine refuses: an error frame, and the wait stays.
ResumeFails(c, p) ==
  /\ Serving(c, "resume", p)
  /\ Finish(c)
  /\ UNCHANGED <<rows, pending, call, stream, conn, inbox, shown, sent, taken,
                 accepted, expired, crashes>>

\* The server's loop hands the answer to the engine; a call that is gone is an
\* error that is logged.
Consume(p) ==
  /\ p \in inbox
  /\ inbox' = inbox \ {p}
  /\ taken' = [taken EXCEPT ![p] = @ + 1]
  /\ call' = [call EXCEPT ![p] = IF @ = "waiting" THEN "answered" ELSE @]
  /\ UNCHANGED <<rows, pending, stream, conn, handler, shown, sent, accepted,
                 expired, crashes>>

-----------------------------------------------------------------------------

\* SweepExpired, 15 days after the prompt was issued.
Expire(p) ==
  /\ p \in rows
  /\ rows' = rows \ {p}
  /\ expired' = expired \cup {p}
  /\ UNCHANGED <<pending, call, stream, conn, handler, inbox, shown, sent, taken,
                 accepted, crashes>>

Crash ==
  /\ crashes < MaxCrashes
  /\ crashes' = crashes + 1
  /\ pending' = {}
  /\ call' = [p \in Prompts |-> IF call[p] = "waiting" THEN "gone" ELSE call[p]]
  /\ stream' = NoQuery
  /\ conn' = [c \in Conns |-> IF conn[c] = "open" THEN "closed" ELSE conn[c]]
  /\ handler' = [c \in Conns |-> Idle]
  /\ inbox' = {}
  /\ taken' = [p \in Prompts |-> 0]
  /\ UNCHANGED <<rows, shown, sent, accepted, expired>>

Serve(c) ==
  \E p \in Prompts : \/ Publish(c, p) \/ Forget(c, p) \/ Lookup(c, p)
                     \/ Resume(c, p) \/ ResumeFails(c, p)

Next ==
  \/ \E c \in Conns : OpenConn(c) \/ CloseConn(c) \/ Serve(c)
  \/ \E c \in Conns, p \in Prompts : Answer(c, p)
  \/ StartQuery \/ EndQuery
  \/ \E p \in Prompts : Ask(p) \/ Consume(p) \/ Expire(p)
  \/ Crash

Spec == Init /\ [][Next]_vars

\* Readers finish the frame they serve and the server's loop drains its queue.
Fairness ==
  /\ \A c \in Conns : WF_vars(Serve(c))
  /\ \A p \in Prompts : WF_vars(Consume(p))

FairSpec == Spec /\ Fairness

-----------------------------------------------------------------------------
(* Properties                                                              *)

\* Types, and a prompt the translator awaits has its row: what the process can
\* be answered now, it can still be answered after a restart.
PromptInv ==
  /\ TypeOK
  /\ pending \subseteq rows \cup expired
  /\ pending \cap inbox = {}

\* What the user has seen can be answered, now or after any restart, unless it
\* has been answered or has expired.
ShownIsAnswerable == shown \subseteq pending \cup rows \cup accepted \cup expired

\* One process hands an answer to the engine at most once, however often the
\* user replies.
AnsweredOnce == \A p \in Prompts : taken[p] <= 1

\* No answer is on its way, and one taken before any crash has reached the engine.
InFlight(p) == p \in inbox \/ \E c \in Conns : Serving(c, "publish", p)
AllArrived ==
  \A p \in Prompts : /\ ~InFlight(p)
                     /\ p \in accepted /\ crashes = 0 => taken[p] > 0

\* The wait is deleted only when the engine has the answer: until then a crash
\* leaves something to ask again.
AcceptedIsRecoverable == inbox \subseteq rows \cup expired

\* A session with a connection shows it the prompts its calls wait for.
WaitingCallsAreSeen ==
  Open # {} =>
    \A p \in Prompts : call[p] = "waiting" => p \in shown \cup expired
=============================================================================
