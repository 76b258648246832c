--------------------------- MODULE ToolBatch_proofs ---------------------------
(***************************************************************************)
(* Proofs about ToolBatch for any tools, agents and batches of calls, and   *)
(* any capacity of the run's channel.                                       *)
(***************************************************************************)
EXTENDS ToolBatch, TLAPS

USE ToolsAssumption, NoneAssumption DEF ToolsAssumption, NoneAssumption, Results

\* Between its first and its last event: the calls that count as running on the server.
ServerStates == {"check", "ask", "asking", "waiting", "run", "ending"}

TypeOK ==
  /\ agent \in Settings /\ batch \in Batches /\ first \in Nat \ {0}
  /\ state \in [Calls -> ServerStates \cup {"new", "requested", "done"}]
  /\ result \in [Calls -> Results \cup {None}] /\ reply \in [Calls -> Results \cup {None}]
  /\ awaits \subseteq Calls /\ ran \subseteq Calls /\ yes \subseteq Calls

\* Segments are run in order: what is over is done, what is ahead is untouched.
SegmentsInOrder ==
  \A i \in Calls : /\ i < first => state[i] = "done"
                   /\ state[i] # "new" => i < first \/ i \in Segment

\* A serial call was started when the parallel calls of its segment, and the calls before it,
\* were done.
SerialIsLast ==
  \A i, j \in Segment :
    state[i] # "new" /\ ~Client(i) /\ ~Parallel(i) /\ (Parallel(j) \/ j < i) => state[j] = "done"

\* Who runs a call, and what is known of it at each stage.
StageFits(i) ==
  /\ state[i] \in ServerStates => ~Client(i)
  /\ state[i] = "requested" => Client(i)
  /\ state[i] \in {"ask", "asking", "waiting"} => Known(i) /\ Decision(i) = "ask"
  /\ state[i] \in {"ending", "done"} => result[i] # None
  /\ i \in awaits => state[i] \in {"asking", "waiting", "requested"}
  /\ reply[i] # None => i \notin awaits /\ state[i] \in {"requested", "done"}
StagesFit == \A i \in Calls : StageFits(i)

BatchInv ==
  TypeOK /\ SegmentsInOrder /\ SerialIsLast /\ StagesFit /\ SerialAlone /\ RunsAsAllowed

-----------------------------------------------------------------------------
\* What is known of a call depends on the agent and the batch alone.
LEMMA SameBatch ==
  ASSUME UNCHANGED <<agent, batch>>
  PROVE  /\ Calls' = Calls
         /\ \A i : /\ Client(i)' = Client(i) /\ Parallel(i)' = Parallel(i)
                  /\ Known(i)' = Known(i) /\ Decision(i)' = Decision(i)
  <1>1. Pool' = Pool /\ \A i : KindOf(i)' = KindOf(i)
    BY DEF Pool, KindOf, BuildToolPool, FilterByNames, WithoutNames, FilterToolsForAgent
  <1>2. \A i : Client(i)' = Client(i) /\ Parallel(i)' = Parallel(i) /\ Known(i)' = Known(i)
    BY <1>1 DEF Client, Parallel, Known
  <1>3. \A i : Decision(i)' = Decision(i)
    BY DEF Decision, MainChecker, InheritedChecker, OuterChecker, Pipeline, DenyRule, ModeDefault
  <1> QED BY <1>2, <1>3 DEF Calls

LEMMA SameSegment ==
  ASSUME UNCHANGED <<agent, batch, first>>
  PROVE  Segment' = Segment
  BY SameBatch DEF Segment

LEMMA SegmentFacts ==
  ASSUME TypeOK
  PROVE  /\ Calls = 1..Len(batch) /\ Len(batch) \in Nat
         /\ \A i \in Segment : i \in Calls /\ i >= first
         /\ \A i \in Calls : Kind[batch[i].tool] \in Kinds
  BY DEF TypeOK, Calls, Segment

\* A tool that passes the check is one the agent has, that no rule denies, and that may run by
\* itself or by the settings if the user is not asked.
LEMMA DecisionsFit ==
  ASSUME TypeOK, NEW i \in Calls, Known(i), Decision(i) \in {"allow", "ask"}
  PROVE  LET t == batch[i].tool
         IN /\ Kind[t].enabled /\ (agent.list # {} => t \in agent.list)
            /\ \/ Kind[t].pre = "allow"
               \/ /\ Kind[t].pre = "none"
                  /\ agent.main /\ agent.mode # "bypass" => t \notin agent.denied
                  /\ Kind[t].readOnly \/ AllowedBySettings(t) \/ Decision(i) = "ask"
  <1> DEFINE t == batch[i].tool
  <1>1. Kind[t].enabled /\ (agent.list # {} => t \in agent.list)
    BY DEF Known, KindOf, Pool, BuildToolPool, FilterByNames, WithoutNames, FilterToolsForAgent
  <1>2. Kind[t] \in Kinds /\ agent.mode \in Modes
    BY SegmentFacts DEF TypeOK
  <1>3. CASE Kind[t].pre # "none"
    BY <1>1, <1>2, <1>3 DEF Decision, Kinds
  <1>4. CASE Kind[t].pre = "none" /\ agent.main
    <2>1. Decision(i) = MainChecker(t)
      BY <1>4 DEF Decision
    <2>2. CASE agent.mode = "bypass"
      BY <1>1, <1>4, <2>2 DEF AllowedBySettings
    <2>3. CASE agent.mode # "bypass"
      <3>1. Pipeline(t) \in {"allow", "ask"}
        BY <2>1, <2>3 DEF MainChecker, OuterChecker
      <3>2. t \notin agent.denied
        BY <3>1 DEF Pipeline, DenyRule
      <3>3. CASE Pipeline(t) = "ask"
        BY <1>1, <1>4, <2>1, <2>3, <3>2, <3>3 DEF MainChecker, OuterChecker
      <3>4. CASE Pipeline(t) = "allow"
        <4>1. t \in agent.allowed \/ Kind[t].readOnly \/ ModeDefault(t) = "allow"
          BY <2>3, <3>4 DEF Pipeline
        <4>2. ModeDefault(t) = "allow" => AllowedBySettings(t)
          BY <1>2, <1>4, <2>3 DEF ModeDefault, AllowedBySettings, Modes
        <4> QED BY <1>1, <1>4, <3>2, <4>1, <4>2 DEF AllowedBySettings
      <3> QED BY <3>1, <3>3, <3>4
    <2> QED BY <2>2, <2>3
  <1>5. CASE Kind[t].pre = "none" /\ ~agent.main
    BY <1>1, <1>5 DEF Decision, InheritedChecker, AllowedBySettings
  <1> QED BY <1>2, <1>3, <1>4, <1>5 DEF Kinds

-----------------------------------------------------------------------------
\* A call that moves on keeps the order of the calls, if it started when it might.
LEMMA MoveKeepsOrder ==
  ASSUME BatchInv, UNCHANGED <<agent, batch, first>>, NEW i \in Calls,
         NEW s \in ServerStates \cup {"requested", "done"}, Move(i, s), state[i] # "done",
         s \in ServerStates => ~Client(i),
         state[i] = "new" => i \in Segment /\ (~Client(i) => MayStart(i))
  PROVE  SegmentsInOrder' /\ SerialIsLast' /\ SerialAlone'
  <1>1. /\ Segment' = Segment /\ Calls' = Calls
        /\ \A x : Client(x)' = Client(x) /\ Parallel(x)' = Parallel(x)
    BY SameBatch, SameSegment
  <1>2. \A x \in Calls : state'[x] = IF x = i THEN s ELSE state[x]
    BY DEF Move, BatchInv, TypeOK
  <1>3. i \in Segment /\ ~(i < first)
    BY DEF BatchInv, SegmentsInOrder, Segment
  <1>4. SegmentsInOrder'
    BY <1>1, <1>2, <1>3 DEF BatchInv, SegmentsInOrder
  <1>5. \A x \in Segment : x \in Calls /\ x \in Nat
    BY SegmentFacts DEF BatchInv
  <1>6. SerialIsLast'
    <2> SUFFICES ASSUME NEW x \in Segment, NEW y \in Segment,
                        state'[x] # "new", ~Client(x), ~Parallel(x), Parallel(y) \/ y < x
                 PROVE  state'[y] = "done"
      BY <1>1 DEF SerialIsLast
    <2>1. CASE state[x] # "new"
      BY <1>2, <1>5, <2>1 DEF BatchInv, SerialIsLast
    <2>2. CASE state[x] = "new"
      <3>1. x = i /\ MayStart(i)
        BY <1>2, <1>5, <2>2
      <3>2. y # i
        BY <1>5, <3>1
      <3> QED BY <1>2, <1>5, <3>1, <3>2 DEF MayStart
    <2> QED BY <2>1, <2>2
  <1>7. SerialAlone'
    <2> DEFINE Busy == {x \in Calls : state[x] \notin {"new", "done", "requested"}}
    <2>1. \A x \in Busy : x \in Segment /\ ~Client(x)
      BY DEF BatchInv, SegmentsInOrder, StagesFit, StageFits, TypeOK
    <2>2. ASSUME NEW x \in Busy, x # i, s \in ServerStates PROVE Parallel(x) /\ Parallel(i)
      <3>1. CASE state[i] # "new" /\ state[i] # "requested"
        <4>1. i \in Busy
          BY <3>1
        <4> QED BY <2>2, <4>1 DEF BatchInv, SerialAlone
      <3>2. CASE state[i] = "requested"
        BY <2>2, <3>2 DEF BatchInv, StagesFit, StageFits
      <3>3. CASE state[i] = "new"
        <4>1. MayStart(i)
          BY <2>2, <3>3
        <4>2. Parallel(i)
          BY <1>3, <1>5, <2>1, <2>2, <4>1 DEF MayStart, BatchInv, SerialIsLast
        <4>3. Parallel(x)
          BY <1>3, <2>1, <4>2 DEF BatchInv, SerialIsLast
        <4> QED BY <4>2, <4>3
      <3> QED BY <3>1, <3>2, <3>3
    <2>3. \A x \in Busy' : x \in Busy \/ (x = i /\ s \in ServerStates)
      BY <1>1, <1>2
    <2>4. \A x, y \in Busy : x # y => Parallel(x) /\ Parallel(y)
      BY DEF BatchInv, SerialAlone
    <2> HIDE DEF Busy
    <2>5. \A x, y \in Busy' : x # y => Parallel(x) /\ Parallel(y)
      BY <2>2, <2>3, <2>4
    <2> QED BY <1>1, <2>5 DEF SerialAlone, Busy
  <1> QED BY <1>4, <1>6, <1>7

LEMMA OthersFit ==
  ASSUME BatchInv, UNCHANGED <<agent, batch>>, NEW i \in Calls, StageFits(i)',
         \A x \in Calls : x # i => /\ state'[x] = state[x] /\ result'[x] = result[x]
                                  /\ reply'[x] = reply[x] /\ (x \in awaits' <=> x \in awaits)
  PROVE  StagesFit'
  BY SameBatch DEF BatchInv, StagesFit, StageFits

\* Consent is never taken back.
LEMMA KeepRuns ==
  ASSUME BatchInv, UNCHANGED <<agent, batch, ran>>, granted \subseteq granted', yes \subseteq yes'
  PROVE  RunsAsAllowed'
  BY SegmentFacts DEF BatchInv, TypeOK, RunsAsAllowed, AllowedBySettings

LEMMA RunsOne ==
  ASSUME BatchInv, UNCHANGED <<agent, batch>>, granted \subseteq granted', yes \subseteq yes',
         NEW i \in Calls, ran' = ran \cup {i}, Known(i),
         \/ Decision(i) = "allow"
         \/ Decision(i) = "ask" /\ (i \in yes' \/ batch[i].key \in granted')
  PROVE  RunsAsAllowed'
  <1> DEFINE Fit(x) ==
        LET t == batch[x].tool
        IN /\ Kind[t].enabled /\ (agent.list # {} => t \in agent.list)
           /\ \/ Kind[t].pre = "allow"
              \/ /\ Kind[t].pre = "none"
                 /\ agent.main /\ agent.mode # "bypass" => t \notin agent.denied
                 /\ \/ Kind[t].readOnly \/ AllowedBySettings(t)
                    \/ x \in yes' \/ batch[x].key \in granted'
  <1>1. Fit(i)
    BY DecisionsFit DEF BatchInv
  <1>2. \A x \in ran : Fit(x)
    BY DEF BatchInv, RunsAsAllowed
  <1>3. \A x \in ran' : Fit(x)
    BY <1>1, <1>2
  <1> QED BY <1>3 DEF RunsAsAllowed, AllowedBySettings

-----------------------------------------------------------------------------
LEMMA InitBatch == Init => BatchInv
  <1> SUFFICES ASSUME Init PROVE BatchInv
    OBVIOUS
  <1>1. TypeOK
    BY DEF Init, TypeOK
  <1>2. SegmentsInOrder /\ SerialIsLast /\ SerialAlone /\ RunsAsAllowed
    BY SegmentFacts, <1>1 DEF Init, SegmentsInOrder, SerialIsLast, SerialAlone, RunsAsAllowed
  <1>3. StagesFit
    BY DEF Init, StagesFit, StageFits, ServerStates
  <1> QED BY <1>1, <1>2, <1>3 DEF BatchInv

\* A step of one call, from what it does to that call.
LEMMA OwnStep ==
  ASSUME BatchInv, UNCHANGED <<agent, batch, first>>, NEW i \in Calls,
         NEW s \in ServerStates \cup {"requested", "done"}, Move(i, s), state[i] # "done",
         state[i] = "new" => i \in Segment /\ (~Client(i) => MayStart(i)),
         NEW r \in Results \cup {None}, result' = [result EXCEPT ![i] = r], reply' = reply,
         awaits' \in {awaits, awaits \cup {i}, awaits \ {i}}, ran' \subseteq Calls, yes' \subseteq Calls,
         StageFits(i)', RunsAsAllowed'
  PROVE  BatchInv'
  <1>1. /\ \A x \in Calls : state'[x] = IF x = i THEN s ELSE state[x]
        /\ \A x \in Calls : result'[x] = IF x = i THEN r ELSE result[x]
    BY DEF Move, BatchInv, TypeOK
  <1>2. TypeOK'
    BY SameBatch DEF BatchInv, TypeOK, Move
  <1>3. s \in ServerStates => ~Client(i)
    BY <1>1, SameBatch DEF StageFits
  <1>4. SegmentsInOrder' /\ SerialIsLast' /\ SerialAlone'
    BY <1>3, MoveKeepsOrder
  <1>5. StagesFit'
    BY <1>1, OthersFit
  <1> QED BY <1>2, <1>4, <1>5 DEF BatchInv

\* Calls that stay as they are.
LEMMA CallsStay ==
  ASSUME BatchInv, UNCHANGED <<agent, batch, first, state, result, reply, awaits, ran, yes>>,
         granted \subseteq granted'
  PROVE  BatchInv'
  <1>1. SegmentsInOrder' /\ SerialIsLast' /\ SerialAlone'
    BY SameBatch, SameSegment DEF BatchInv, SegmentsInOrder, SerialIsLast, SerialAlone
  <1>2. TypeOK' /\ StagesFit'
    BY SameBatch DEF BatchInv, TypeOK, StagesFit, StageFits
  <1> QED BY <1>1, <1>2, KeepRuns DEF BatchInv

LEMMA SameResult ==
  ASSUME BatchInv, NEW i \in Calls, result' = result
  PROVE  result' = [result EXCEPT ![i] = result[i]] /\ result[i] \in Results \cup {None}
  BY DEF BatchInv, TypeOK

\* The start of a call, or its end without a start.
LEMMA StartBatch ==
  ASSUME BatchInv, NEW i \in Calls, Skip(i) \/ Start(i)
  PROVE  BatchInv'
  <1>1. state[i] = "new" /\ MayStart(i) /\ i \in Segment /\ ~Client(i)
    BY DEF Skip, Start, MayStart
  <1>2. i \notin awaits /\ reply[i] = None
    BY <1>1 DEF BatchInv, StagesFit, StageFits
  <1>3. UNCHANGED <<agent, batch, first, reply, awaits, granted, ran, yes>>
    BY DEF Skip, Start
  <1>4. PICK s \in {"done", "check"}, r \in Results \cup {None} :
          /\ Move(i, s) /\ result' = [result EXCEPT ![i] = r] /\ (s = "done" => r # None)
    BY SameResult DEF Skip, Start
  <1>5. StageFits(i)'
    BY <1>1, <1>2, <1>3, <1>4, SameBatch DEF BatchInv, TypeOK, StageFits, Move, ServerStates
  <1>6. RunsAsAllowed' /\ ran' \subseteq Calls /\ yes' \subseteq Calls
    BY <1>3, KeepRuns DEF BatchInv, TypeOK
  <1> QED BY <1>1, <1>3, <1>4, <1>5, <1>6, OwnStep DEF ServerStates

LEMMA CheckBatch ==
  ASSUME BatchInv, NEW i \in Calls, Check(i)
  PROVE  BatchInv'
  <1>1. /\ state[i] = "check" /\ ~Client(i) /\ i \notin awaits /\ reply[i] = None
        /\ UNCHANGED <<agent, batch, first, reply, awaits, granted, yes>>
    BY DEF Check, BatchInv, StagesFit, StageFits, ServerStates
  <1>2. PICK s \in {"ending", "run", "ask"}, r \in Results \cup {None} :
          /\ Move(i, s) /\ result' = [result EXCEPT ![i] = r] /\ (s = "ending" => r # None)
          /\ s = "run" => Known(i) /\ Decision(i) = "allow" /\ ran' = ran \cup {i}
          /\ s # "run" => ran' = ran
          /\ s = "ask" => Known(i) /\ Decision(i) = "ask"
    BY SameResult DEF Check, Refuse
  <1>3. StageFits(i)'
    BY <1>1, <1>2, SameBatch DEF BatchInv, TypeOK, StageFits, Move, ServerStates
  <1>4. ran' \subseteq Calls /\ yes' \subseteq Calls
    BY <1>1, <1>2 DEF BatchInv, TypeOK
  <1>5. RunsAsAllowed'
    BY <1>1, <1>2, KeepRuns, RunsOne
  <1> QED BY <1>1, <1>2, <1>3, <1>4, <1>5, OwnStep DEF ServerStates

\* The question, and the answer to it.
LEMMA AskBatch ==
  ASSUME BatchInv, NEW i \in Calls, Ask(i) \/ Show(i)
  PROVE  BatchInv'
  <1>1. /\ state[i] \in {"ask", "asking"} /\ ~Client(i) /\ Known(i) /\ Decision(i) = "ask"
        /\ reply[i] = None
        /\ state[i] = "ask" => i \notin awaits
        /\ UNCHANGED <<agent, batch, first, reply, granted, yes>>
    BY DEF Ask, Show, BatchInv, StagesFit, StageFits, ServerStates
  <1>2. PICK s \in {"ending", "run", "asking", "waiting"}, r \in Results \cup {None} :
          /\ Move(i, s) /\ result' = [result EXCEPT ![i] = r] /\ (s = "ending" => r # None)
          /\ s = "run" => batch[i].key \in granted /\ ran' = ran \cup {i}
          /\ s # "run" => ran' = ran
          /\ s \in {"ending", "run"} => i \notin awaits /\ awaits' = awaits
          /\ awaits' \in {awaits, awaits \cup {i}}
    BY <1>1, SameResult DEF Ask, Show, Refuse
  <1>3. StageFits(i)'
    BY <1>1, <1>2, SameBatch DEF BatchInv, TypeOK, StageFits, Move, ServerStates
  <1>4. ran' \subseteq Calls /\ yes' \subseteq Calls
    BY <1>1, <1>2 DEF BatchInv, TypeOK
  <1>5. RunsAsAllowed'
    BY <1>1, <1>2, KeepRuns, RunsOne
  <1> QED BY <1>1, <1>2, <1>3, <1>4, <1>5, OwnStep DEF ServerStates

LEMMA AnswerBatch ==
  ASSUME BatchInv, NEW i \in Calls, Approve(i) \/ Denied(i) \/ Abandon(i)
  PROVE  BatchInv'
  <1>1. /\ state[i] = "waiting" /\ ~Client(i) /\ Known(i) /\ Decision(i) = "ask"
        /\ reply[i] = None /\ awaits' = awaits \ {i}
        /\ UNCHANGED <<agent, batch, first, reply>>
    BY DEF Approve, Denied, Abandon, BatchInv, StagesFit, StageFits, ServerStates
  <1>2. PICK s \in {"ending", "run"}, r \in Results \cup {None} :
          /\ Move(i, s) /\ result' = [result EXCEPT ![i] = r] /\ (s = "ending" => r # None)
          /\ s = "run" => i \in yes' /\ ran' = ran \cup {i}
          /\ s # "run" => ran' = ran
          /\ yes' \in {yes, yes \cup {i}} /\ granted \subseteq granted'
    BY SameResult DEF Approve, Denied, Abandon, Refuse
  <1>3. StageFits(i)'
    BY <1>1, <1>2, SameBatch DEF BatchInv, TypeOK, StageFits, Move, ServerStates
  <1>4. ran' \subseteq Calls /\ yes' \subseteq Calls
    BY <1>1, <1>2 DEF BatchInv, TypeOK
  <1>5. RunsAsAllowed'
    BY <1>1, <1>2, KeepRuns, RunsOne
  <1> QED BY <1>1, <1>2, <1>3, <1>4, <1>5, OwnStep DEF ServerStates

LEMMA RunBatch ==
  ASSUME BatchInv, NEW i \in Calls, Run(i) \/ End(i)
  PROVE  BatchInv'
  <1>1. /\ state[i] \in {"run", "ending"} /\ ~Client(i) /\ reply[i] = None /\ i \notin awaits
        /\ state[i] = "ending" => result[i] # None
        /\ UNCHANGED <<agent, batch, first, reply, awaits, granted, ran, yes>>
    BY DEF Run, End, BatchInv, StagesFit, StageFits, ServerStates
  <1>2. PICK s \in {"ending", "done"}, r \in Results :
          Move(i, s) /\ result' = [result EXCEPT ![i] = r]
    <2>1. CASE Run(i)
      BY <2>1 DEF Run, Outcomes, Refuse
    <2>2. CASE End(i)
      BY <1>1, <2>2, SameResult DEF End
    <2> QED BY <2>1, <2>2
  <1>3. StageFits(i)'
    BY <1>1, <1>2, SameBatch DEF BatchInv, TypeOK, StageFits, Move, ServerStates
  <1>4. RunsAsAllowed' /\ ran' \subseteq Calls /\ yes' \subseteq Calls
    BY <1>1, KeepRuns DEF BatchInv, TypeOK
  <1> QED BY <1>1, <1>2, <1>3, <1>4, OwnStep DEF ServerStates

\* Calls the client runs.
LEMMA ClientBatch ==
  ASSUME BatchInv, NEW i \in Calls, Request(i) \/ Collect(i)
  PROVE  BatchInv'
  <1>1. /\ state[i] \in {"new", "requested"} /\ Client(i)
        /\ state[i] = "new" => i \in Segment
        /\ reply[i] # None => i \notin awaits
        /\ state[i] = "new" => i \notin awaits /\ reply[i] = None
        /\ UNCHANGED <<agent, batch, first, reply, granted, ran, yes>>
    BY DEF Request, Collect, InClientSegment, BatchInv, StagesFit, StageFits
  <1>2. PICK s \in {"requested", "done"}, r \in Results \cup {None} :
          /\ Move(i, s) /\ result' = [result EXCEPT ![i] = r] /\ (s = "done" => r # None)
          /\ s = "requested" => reply[i] = None
          /\ s = "done" => i \notin awaits'
          /\ awaits' \in {awaits, awaits \cup {i}, awaits \ {i}}
    <2>1. CASE Request(i)
      BY <1>1, <2>1, SameResult DEF Request, ForgetTool
    <2>2. CASE Collect(i)
      <3>1. reply[i] \in Results \cup {None}
        BY DEF BatchInv, TypeOK
      <3> QED BY <1>1, <2>2, <3>1 DEF Collect, ForgetTool
    <2> QED BY <2>1, <2>2
  <1>3. StageFits(i)'
    BY <1>1, <1>2, SameBatch DEF BatchInv, TypeOK, StageFits, Move, ServerStates
  <1>4. RunsAsAllowed' /\ ran' \subseteq Calls /\ yes' \subseteq Calls
    BY <1>1, KeepRuns DEF BatchInv, TypeOK
  <1> QED BY <1>1, <1>2, <1>3, <1>4, OwnStep

LEMMA ClientAnswersBatch ==
  ASSUME BatchInv, NEW i \in Calls, ClientAnswers(i)
  PROVE  BatchInv'
  <1>1. state[i] = "requested"
    BY DEF ClientAnswers, BatchInv, StagesFit, StageFits, ServerStates
  <1>2. UNCHANGED <<agent, batch, first, state, result, granted, ran, yes>> /\ awaits' = awaits \ {i}
    BY DEF ClientAnswers
  <1>3. /\ reply' \in [Calls -> Results \cup {None}]
        /\ \A x \in Calls : x # i => reply'[x] = reply[x]
    BY DEF ClientAnswers, BatchInv, TypeOK
  <1>4. TypeOK'
    BY <1>2, <1>3, SameBatch DEF BatchInv, TypeOK
  <1>5. SegmentsInOrder' /\ SerialIsLast' /\ SerialAlone'
    BY <1>2, SameBatch, SameSegment DEF BatchInv, SegmentsInOrder, SerialIsLast, SerialAlone
  <1>6. StageFits(i)'
    BY <1>1, <1>2, SameBatch DEF BatchInv, StagesFit, StageFits, ServerStates
  <1>7. StagesFit'
    BY <1>2, <1>3, <1>6, OthersFit
  <1> QED BY <1>2, <1>4, <1>5, <1>7, KeepRuns DEF BatchInv

\* The next segment begins behind the last call of the one before.
LEMMA SegmentBatch == ASSUME BatchInv, NextSegment PROVE BatchInv'
  <1>1. PICK last \in Calls : Segment = first..last /\ first' = last + 1
    BY DEF NextSegment
  <1>2. /\ UNCHANGED <<agent, batch, state, result, reply, awaits, granted, ran, yes>>
        /\ \A i \in Segment : state[i] = "done"
    BY DEF NextSegment
  <1>3. first \in Nat \ {0} /\ last \in Nat /\ \A i \in Calls : i \in Nat
    BY SegmentFacts DEF BatchInv, TypeOK
  <1>4. TypeOK'
    BY <1>1, <1>2, <1>3, SameBatch DEF BatchInv, TypeOK
  <1>5. StagesFit' /\ SerialAlone'
    BY <1>2, SameBatch DEF BatchInv, StagesFit, StageFits, SerialAlone
  <1>6. ASSUME NEW i \in Calls
        PROVE  /\ i < last + 1 => state[i] = "done"
               /\ state[i] # "new" => i < last + 1
    <2>1. i \in Nat /\ (i \in Segment <=> first <= i /\ i <= last)
      BY <1>1, <1>3
    <2>2. i < first => state[i] = "done"
      BY DEF BatchInv, SegmentsInOrder
    <2>3. state[i] # "new" => i < first \/ i \in Segment
      BY DEF BatchInv, SegmentsInOrder
    <2>4. first <= last
      <3>1. first \in Calls
        BY <1>3, SegmentFacts DEF NextSegment, Finished, BatchInv
      <3>2. \A j \in first..first : j = first
        BY <1>3
      <3>3. first \in Segment
        BY <1>3, <3>1, <3>2 DEF Segment
      <3> QED BY <1>1, <1>3, <3>3
    <2>5. i < last + 1 => i < first \/ i \in Segment
      BY <1>3, <2>1
    <2>6. i < first \/ i \in Segment => i < last + 1
      BY <1>3, <2>1, <2>4
    <2> QED BY <1>2, <2>2, <2>3, <2>5, <2>6
  <1>7. SegmentsInOrder' /\ SerialIsLast'
    <2>1. ASSUME NEW i \in Segment' PROVE i \in Calls /\ state[i] = "new"
      <3>1. i \in Calls /\ i >= last + 1
        BY <1>1, <1>2, SameBatch DEF Segment
      <3>2. i \in Nat
        BY <1>3, <3>1
      <3>3. ~(i < last + 1)
        BY <1>3, <3>1, <3>2
      <3>4. state[i] = "new"
        BY <1>6, <3>1, <3>3
      <3> QED BY <3>1, <3>4
    <2>2. \A i \in Calls : /\ i < first' => state'[i] = "done"
                           /\ state'[i] # "new" => i < first'
      BY <1>1, <1>2, <1>6
    <2> QED BY <1>2, <2>1, <2>2, SameBatch DEF SegmentsInOrder, SerialIsLast
  <1> QED BY <1>2, <1>4, <1>5, <1>7, KeepRuns DEF BatchInv

LEMMA NextBatch == BatchInv /\ [Next]_vars => BatchInv'
  <1> SUFFICES ASSUME BatchInv, [Next]_vars PROVE BatchInv'
    OBVIOUS
  <1>1. ASSUME NEW i \in Calls, Progress(i) PROVE BatchInv'
    BY <1>1, StartBatch, CheckBatch, AskBatch, AnswerBatch, RunBatch, ClientBatch DEF Progress
  <1>2. ASSUME NEW i \in Calls, Answer(i) PROVE BatchInv'
    BY <1>2, AnswerBatch, ClientAnswersBatch DEF Answer
  <1>3. CASE NextSegment
    BY <1>3, SegmentBatch
  <1>4. CASE Cancel \/ Relay \/ ApprovedElsewhere \/ UNCHANGED vars
    <2>1. /\ UNCHANGED <<agent, batch, first, state, result, reply, awaits, ran, yes>>
          /\ granted \subseteq granted'
      BY <1>4 DEF Cancel, Relay, ApprovedElsewhere, vars
    <2> QED BY <2>1, CallsStay
  <1> QED BY <1>1, <1>2, <1>3, <1>4 DEF Next

\* Tools run when they may and every call of a batch is answered, for any agent and any calls:
\* whatever is approved or cancelled meanwhile, and in whatever order answers come
\* (toolexec/exec.go: ExecuteBatch, executeSingle, executeClientTools).
THEOREM ToolsRunWhenAllowed == Spec => []RunsWhenAllowed
  <1>1. BatchInv => RunsWhenAllowed
    <2> SUFFICES ASSUME BatchInv, Finished PROVE awaits = {} /\ \A i \in Calls : result[i] # None
      BY DEF BatchInv, RunsWhenAllowed, EveryCallAnswered
    <2>1. \A i \in Calls : state[i] = "done"
      BY SegmentFacts DEF BatchInv, TypeOK, SegmentsInOrder, Finished
    <2>2. awaits \subseteq Calls /\ \A i \in Calls : i \notin awaits /\ result[i] # None
      BY <2>1 DEF BatchInv, TypeOK, StagesFit, StageFits
    <2> QED BY <2>2
  <1> QED BY <1>1, InitBatch, NextBatch, PTL DEF Spec
=============================================================================
