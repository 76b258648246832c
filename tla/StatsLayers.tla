---------------------------- MODULE StatsLayers ----------------------------
(***************************************************************************)
(* Where the cost of a model call is counted (provider/stats, StatsProvider *)
(* and metric/sessionstats): in the tracker of the session that made it,   *)
(* of the session above it and of the root, each under its own lock, by    *)
(* agents that run at the same time while idle sessions are dropped.       *)
(***************************************************************************)
EXTENDS Naturals, Sequences, FiniteSets, Functions, SequencesExt

CONSTANTS
  Sessions,   \* the sessions of one tree
  RootOf,     \* session |-> the root session id it was given, or ""
  ParentOf,   \* session |-> the parent session id it was given
  Calls,      \* model calls
  SessionOf   \* call |-> the session that makes it

VARIABLES
  registry,  \* session |-> its tracker's number, 0 for none
  trackers,  \* the trackers ever made: calls and tokens counted, the context panel
  phase,     \* call |-> idle, dialled, recording, counted
  targets,   \* call |-> the trackers it has still to write
  cost       \* call |-> the tokens of its usage, 0 when it brought none

vars == <<registry, trackers, phase, targets, cost>>

\* WithSubAgentStats: without a root, the parent is the root
Root(s) == IF RootOf[s] = "" THEN ParentOf[s] ELSE RootOf[s]

\* StatsProvider.Chat: a session that coincides with another is written once
Layers(s) ==
  LET both == IF ParentOf[s] = s THEN <<s>> ELSE <<s, ParentOf[s]>>
  IN  IF Root(s) \in ToSet(both) THEN both ELSE Append(both, Root(s))

NewTracker(s) == [session |-> s, calls |-> {}, tokens |-> 0, panel |-> {}]

\* Registry.GetOrCreate for each session of a sequence, in turn
RECURSIVE Made(_, _)
Made(reg, ss) ==
  IF ss = <<>> THEN reg
  ELSE Made(IF reg.of[Head(ss)] # 0 THEN reg
            ELSE [of |-> [reg.of EXCEPT ![Head(ss)] = Len(reg.all) + 1],
                  all |-> Append(reg.all, NewTracker(Head(ss)))],
            Tail(ss))

Init ==
  /\ registry = [s \in Sessions |-> 0] /\ trackers = <<>>
  /\ phase = [c \in Calls |-> "idle"] /\ targets = [c \in Calls |-> <<>>]
  /\ cost = [c \in Calls |-> 0]

-----------------------------------------------------------------------------
Chat(c) ==
  /\ phase[c] = "idle" /\ phase' = [phase EXCEPT ![c] = "dialled"]
  /\ LET layers == Layers(SessionOf[c])
         reg == Made([of |-> registry, all |-> trackers], layers)
     IN  /\ registry' = reg.of /\ trackers' = reg.all
         /\ targets' = [targets EXCEPT ![c] = [k \in DOMAIN layers |-> reg.of[layers[k]]]]
  /\ UNCHANGED cost

\* the dial fails or the stream ends: with a usage or without one
Ends(c) ==
  /\ phase[c] = "dialled" /\ phase' = [phase EXCEPT ![c] = "recording"]
  /\ \E tokens \in {0, 1} : cost' = [cost EXCEPT ![c] = tokens]
  /\ UNCHANGED <<registry, trackers, targets>>

\* Tracker.RecordLLMCall, and Tracker.UpdateContextWindow after the last: the first
\* tracker, the call's own, has the panel
RecordLLMCall(c) ==
  /\ phase[c] = "recording" /\ targets[c] # <<>>
  /\ trackers' = [trackers EXCEPT ![Head(targets[c])].calls = @ \cup {c},
                                  ![Head(targets[c])].tokens = @ + cost[c]]
  /\ targets' = [targets EXCEPT ![c] = Tail(@)]
  /\ UNCHANGED <<registry, phase, cost>>

UpdateContextWindow(c) ==
  /\ phase[c] = "recording" /\ targets[c] = <<>> /\ phase' = [phase EXCEPT ![c] = "counted"]
  /\ LET own == CHOOSE n \in DOMAIN trackers : c \in trackers[n].calls /\ trackers[n].session = SessionOf[c]
     IN  trackers' = [trackers EXCEPT ![own].panel = {c}]
  /\ UNCHANGED <<registry, targets, cost>>

\* CleanupIdle drops the tracker of a session whose messages have not changed for long,
\* also under a call that holds it
Drop(s) ==
  /\ registry[s] # 0 /\ registry' = [registry EXCEPT ![s] = 0]
  /\ UNCHANGED <<trackers, phase, targets, cost>>

Next ==
  \/ \E c \in Calls : Chat(c) \/ Ends(c) \/ RecordLLMCall(c) \/ UpdateContextWindow(c)
  \/ \E s \in Sessions : Drop(s)

Spec == Init /\ [][Next]_vars

-----------------------------------------------------------------------------
(* Properties                                                              *)

\* the calls made by a session and the ones whose parent or root it is
Below(s) == {c \in Calls : phase[c] = "counted" /\ s \in ToSet(Layers(SessionOf[c]))}
TokensOf(cs) == FoldFunctionOnSet(LAMBDA a, b : a + b, 0, cost, cs)

\* When nothing is being recorded the trackers of a session, dropped ones included, have
\* counted each call of its subtree and its tokens once, and its panel is of its own calls.
LayersAddUp ==
  (\A c \in Calls : phase[c] # "recording") =>
    \A s \in Sessions :
      LET own == {n \in DOMAIN trackers : trackers[n].session = s}
      IN  /\ FoldFunctionOnSet(LAMBDA t, sum : t.tokens + sum, 0, trackers, own) = TokensOf(Below(s))
          /\ UNION {trackers[n].calls : n \in own} = Below(s)
          /\ \A n \in own : \A c \in trackers[n].panel : SessionOf[c] = s
          /\ \A m, n \in own : m # n => trackers[m].calls \cap trackers[n].calls = {}
=============================================================================
