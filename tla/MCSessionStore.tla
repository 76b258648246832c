--------------------------- MODULE MCSessionStore ---------------------------
(***************************************************************************)
(* What goes on after a failure.  Of the process: the session's row        *)
(* (SessionStore) and the questions it has yet to be answered              *)
(* (PromptRecovery).  Of a model provider: the next one is used, and the   *)
(* first again when it is back (Failover).  A behaviour is of one of them. *)
(***************************************************************************)
EXTENDS SessionStore

CONSTANTS
  o1, o2, q1, q2, q3, m1, m2, m3,
  p1, p2, c1, c2, Drained, NoQuery

VARIABLES
  part,  \* what this behaviour is of
  fails, left, mode, step, at, tried, cancelled, upSince, faulty, turns, aborts,
  rows, asked, call, stream, conn, handler, inbox, shown, sent, taken, accepted, expired, deaths

\* Two prompts, each answered twice at most, over two connections, one after a restart;
\* the channel holds one answer, and saving a prompt may fail.
P == INSTANCE PromptRecovery WITH
       Prompts <- {p1, p2}, Conns <- {c1, c2}, SaveFails <- TRUE, AnswersOverlap <- FALSE,
       QueueSize <- 1, MaxAnswers <- 2,
       pending <- asked, crashes <- deaths

\* Two calls over a chain of two, whose providers change twice.
F == INSTANCE Failover WITH
       Calls <- {c1, c2}, N <- 2, Disabled <- {}, Base <- 1, Factor <- 2, Cap <- 2,
       MaxFails <- 2, MaxChanges <- 2, MaxAborts <- 1, pc <- step, changes <- turns

picks == <<fails, left, mode, step, at, tried, cancelled, upSince, faulty, turns, aborts>>
waits == <<rows, asked, call, stream, conn, handler, inbox, shown, sent, taken, accepted,
           expired, deaths>>

\* Messages, queries and unused objects are interchangeable: they are taken in one order.
InOrder ==
  /\ used' \in {{}, {m1}, {m1, m2}, {m1, m2, m3}}
  /\ query'[q2] # "new" => query'[q1] # "new"
  /\ query'[q3] # "new" => query'[q2] # "new"
  /\ worker'[o2] # "none" => worker'[o1] # "none"

\* So are connections and prompts.
PromptsInOrder ==
  /\ conn'[c2] # "new" => conn'[c1] # "new"
  /\ call'[p2] # "new" => call'[p1] # "new"

MCInit == part \in {"row", "prompts", "providers"} /\ Init /\ P!Init /\ F!Init
MCNext ==
  \/ part = "row" /\ Next /\ InOrder /\ UNCHANGED <<part, waits, picks>>
  \/ part = "prompts" /\ P!Next /\ PromptsInOrder /\ UNCHANGED <<part, vars, picks>>
  \/ part = "providers" /\ F!Next /\ UNCHANGED <<part, vars, waits>>

\* A row and prompts that stay as they start have nothing due; calls have.
MCSpec ==
  /\ MCInit /\ [][MCNext]_<<part, vars, waits, picks>>
  /\ Fairness /\ P!Fairness /\ (part = "providers" => F!Fairness)

-----------------------------------------------------------------------------
\* What the user has seen can be answered, after a restart too, and reaches the engine
\* at most once per process when answers to a prompt do not overlap (PromptRecovery).
PromptsAreKept == P!PromptInv /\ P!ShownIsAnswerable /\ P!AnsweredOnce

\* No cooldown is longer than earned, and a call fails only when no provider it may use
\* was up all the while (Failover).
ServedWhenPossible == F!FailoverInv /\ F!ServedWhenPossible

\* Messages reach the disk (SessionStore) and answers the engine (PromptRecovery), and the
\* preferred provider is used again once it works again (Failover).
AllGoesOn == []<>(NothingUnsaved /\ P!AllArrived) /\ F!PrimaryComesBack
=============================================================================
