------------------------------ MODULE MCCards ------------------------------
(***************************************************************************)
(* The cards of a query: what becomes of them in time (Cards), and whom    *)
(* their frames name (Emitter).  A behaviour is of one of the two.         *)
(***************************************************************************)
EXTENDS Cards, TLC

CONSTANTS Parts, FrameQueries

CONSTANTS s, a, b, d, u, v, w, z, c1

\* two minutes for a tool, five for a message, ten for an agent and a turn
Limits == [turn |-> 3, message |-> 2, tool |-> 2, agent |-> 3]

\* Main dispatches s and has a second call (v) to make after that
NextCalls == Main :> <<d, v>> @@ s :> <<u>>
NextSpawns == d :> s @@ u :> None @@ v :> None

VARIABLES
  part,  \* what this behaviour is of
  stack, open, parentOf, maker, todo, frame, under, quitted,
  now, em, turnCard, message, tools, child, phase, use, swept

\* queries of one connection: Main runs an agent, which uses one tool, and uses another itself
E == INSTANCE Emitter WITH
       Connections <- {c1}, Agents <- {"a"}, Calls <- [main |-> <<"t1", "t2">>, a |-> <<"t3">>],
       Spawns <- [t1 |-> "a", t2 |-> None, t3 |-> None],
       MaxQueries <- FrameQueries, MaxSweeps <- 2,
       turn <- turnCard, msg <- message, pc <- phase, call <- use

frames == <<stack, open, parentOf, maker, todo, frame, under, quitted, now, em, turnCard, message,
            tools, child, phase, use, swept>>

MCInit == part \in Parts /\ Init /\ E!Init
MCNext ==
  \/ part = "cards" /\ Next /\ UNCHANGED <<part, frames>>
  \/ part = "frames" /\ E!Next /\ UNCHANGED <<part, vars>>
  \/ part = "frames" /\ now = FrameQueries /\ phase["main"] = "idle" /\ UNCHANGED <<part, vars, frames>>
MCSpec == MCInit /\ [][MCNext]_<<part, vars, frames>>

-----------------------------------------------------------------------------
\* Once a query is over, every card the watchdog looks after is closed, and every other one
\* but those of tool calls that a stop kept from ending or whose end was lost; and nothing is
\* said of a card before it is announced, but of one call's for each lost event (Cards).
CardsAreClosed == CardsInv /\ NoZombies /\ AddBeforeUse

\* Stacks and tracker agree on who opened what, and a frame about a card names the card it
\* was added under (Emitter).
FramesNameTheirParent == E!EmitterInv /\ E!FramesNameTheirParent

=============================================================================
