------------------------------- MODULE MCTurn -------------------------------
(***************************************************************************)
(* The parts of a turn: the model call with its retries, the history it is *)
(* about, the request made of it, the stream that answers, and where its   *)
(* cost is counted.  Each is handed the other's results and shares no      *)
(* state with it, so a behaviour is of one.                                *)
(***************************************************************************)
EXTENDS LLMCall

CONSTANTS q1, q2

VARIABLES
  part,  \* what this behaviour is of
  history, at, turn, view, owed, aborted, failures, calls,
  messages, endpoint,
  given, up, chunks, paid, accumulated, finish, usage, sending, goroutine,
  events, held, tapped, wrapper, record, out, seen, ctx,
  registry, trackers, phase, targets, cost

C == INSTANCE Conversation WITH
       Queries <- {q1, q2}, Overlap <- FALSE, Notes <- FALSE, Contract <- TRUE,
       MaxCalls <- 2, MaxTurns <- 2, MaxLength <- 11, pc <- at, todo <- owed
A == INSTANCE ModelAdapter WITH
       Ids <- {1, 2}, Cut <- {2}, MaxImages <- 3, MaxMessages <- 3, Breakpoints <- 4,
       Indices <- {1, 2}, MaxChunks <- 4, Buffer <- 2, Forwarded <- 1,
       history <- messages, calls <- accumulated, todo <- sending, pc <- goroutine
L == INSTANCE StatsLayers WITH
       Sessions <- {"emma", "team", "leaf"}, Calls <- 1 .. 3,
       RootOf <- [emma |-> "emma", team |-> "", leaf |-> "emma"],
       ParentOf <- [emma |-> "emma", team |-> "emma", leaf |-> "team"],
       SessionOf <- <<"emma", "team", "leaf">>

historyVars == <<history, at, turn, view, owed, aborted, failures, calls>>
wireVars == <<messages, endpoint>>
streamVars == <<given, up, chunks, paid, accumulated, finish, usage, sending, goroutine,
                events, held, tapped, wrapper, record, out, seen, ctx>>
statsVars == <<registry, trackers, phase, targets, cost>>
all == <<part, vars, historyVars, wireVars, streamVars, statsVars>>

MCInit ==
  /\ part \in {"call", "history", "request", "stream", "stats"}
  /\ Init /\ C!Init /\ A!Init /\ L!Init
  /\ part # "request" => endpoint = [thinking |-> "on", needsField |-> FALSE, vision |-> TRUE]

MCNext ==
  \/ part = "call" /\ Next /\ UNCHANGED <<part, historyVars, wireVars, streamVars, statsVars>>
  \/ part = "history" /\ C!Next /\ UNCHANGED <<part, vars, wireVars, streamVars, statsVars>>
  \/ part = "request" /\ A!Next /\ UNCHANGED <<part, vars, historyVars, streamVars, statsVars>>
  \/ part = "stream" /\ A!Next /\ UNCHANGED <<part, vars, historyVars, wireVars, statsVars>>
  \/ part = "stats" /\ L!Next /\ UNCHANGED <<part, vars, historyVars, wireVars, streamVars>>

MCSpec == MCInit /\ [][MCNext]_all /\ (part = "call" => Fairness)

-----------------------------------------------------------------------------
\* Every call returns, whatever its provider does, unless its reader leaves it before a full
\* channel for good (LLMCall).
EveryCallReturns == part = "call" => ReturnsOrIsLeft

\* Requests pair calls and results as the loop keeps them, whatever was aborted or compacted
\* (Conversation).  What the adapter makes of any history has what WireAccepted lists, and
\* it is in the providers' protocol when the history was but for orphaned results; the text
\* of the conversation stays (ModelAdapter).
RequestsAreAccepted ==
  C!RequestsPair /\ A!WireAccepted /\ A!OrphansAreRepaired /\ A!SanitizeIsGentle

\* A message that ends is whole, with its usage, and was accounted for (ModelAdapter); the
\* cost of a session is the sum of what runs below it (StatsLayers).
StreamWhole == A!StreamWhole /\ A!UsageReported /\ A!CostRecorded /\ L!LayersAddUp
=============================================================================
