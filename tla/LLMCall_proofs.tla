---------------------------- MODULE LLMCall_proofs ----------------------------
(***************************************************************************)
(* Proofs about LLMCall for any number of retries, capacity of the channel  *)
(* and length of the streams.                                               *)
(***************************************************************************)
EXTENDS LLMCall, TLAPS

USE LLMCallAssumption DEF LLMCallAssumption

Pieces == Seq(Nat \X Nat)
Kinds == {"note", "reset", "text", "use"}
Events == [kind : Kinds, chunks : Pieces, mayDrop : BOOLEAN]

\* The reader who shows s and reads the events of q shows t.
Leaves(q, s, t) ==
  \E f \in [0 .. Len(q) -> Pieces] :
    /\ f[0] = s /\ f[Len(q)] = t
    /\ \A k \in 1 .. Len(q) : f[k] = After(f[k - 1], q[k])

\* The tool call x is announced by an event of q.
Announces(q, x) == \E k \in DOMAIN q : q[k].kind = "use" /\ q[k].chunks = <<x>>

CallTypes ==
  /\ pc \in PCs /\ attempt \in Nat /\ texts \in Nat /\ uses \in Nat /\ count \in Nat
  /\ parent \in {"live", "stopped", "cancelled"}
  /\ cause \in {"none", "stall", "deadline", "stopped", "cancelled"}
  /\ whole \in BOOLEAN /\ lost \in BOOLEAN /\ err \in Failures \cup {"none"}
  /\ result \in {"none", "ok", "failed", "fallback", "cancelled"}
  /\ beat \in {"on", "stopping", "off"}
  /\ shown \in Pieces /\ announced \subseteq Nat \X Nat

\* What may be dropped is a note or a reset.
LineTypes ==
  /\ chan \in Seq(Events) /\ todo \in Seq(Events) /\ Len(chan) <= Capacity
  /\ \A k \in DOMAIN todo : todo[k].mayDrop => todo[k].kind \in {"note", "reset"}

\* The attempts are counted, and between them nothing runs and nothing is left to send.
StepsAreJoined ==
  /\ pc = "begin" <=> attempt = 0
  /\ attempt <= MaxRetries + 1 /\ (pc = "backoff" => attempt <= MaxRetries)
  /\ pc \notin {"dial", "stream", "stopping"} => beat = "off"
  /\ pc \notin {"stream", "backoff", "replaying"} => todo = <<>>
  /\ result = "none" <=> pc # "returned"

\* An attempt that ended well was whole, or cut by a cancellation.
EndsAreJudged ==
  /\ cause = "cancelled" => parent = "cancelled"
  /\ pc \in {"replay", "replaying"} => err = "none"
  /\ pc \in {"stopping", "replay", "replaying"} /\ err = "none" => whole \/ parent = "cancelled"
  /\ result = "ok" => whole \/ parent = "cancelled"

\* What the reader will show when it has read everything that was sent or is to be sent: the
\* text of the first attempt while that streams, nothing after a retry, and in the end the text
\* of the attempt that succeeded.
Target ==
  IF (attempt = 1 /\ pc # "backoff") \/ pc \in {"replaying", "returned"} THEN Text ELSE <<>>

TextArrives ==
  ~lost /\ result \in {"none", "ok"} =>
    \E m \in Pieces : Leaves(chan, shown, m) /\ Leaves(todo, m, Target)

ToolCallsArrive ==
  pc = "replaying" \/ result = "ok" =>
    \A n \in 1 .. uses : \/ <<attempt, n>> \in announced
                         \/ Announces(chan, <<attempt, n>>) \/ Announces(todo, <<attempt, n>>)

CallInv ==
  /\ CallTypes /\ LineTypes /\ StepsAreJoined /\ EndsAreJudged /\ TextArrives /\ ToolCallsArrive
-----------------------------------------------------------------------------
(* What reading a sequence of events leaves.                               *)

LEMMA AfterType ==
  ASSUME NEW s \in Pieces, NEW e \in Events
  PROVE  After(s, e) \in Pieces
  <1>1. e.chunks \in Pieces
    BY DEF Events
  <1>2. s \o e.chunks \in Pieces /\ <<>> \in Pieces
    BY <1>1 DEF Pieces
  <1> QED BY <1>2 DEF After

LEMMA LeavesEmpty ==
  ASSUME NEW s \in Pieces
  PROVE  Leaves(<<>>, s, s) /\ \A t : Leaves(<<>>, s, t) => t = s
  <1>1. Len(<<>>) = 0
    OBVIOUS
  <1>2. PICK f \in [0 .. 0 -> Pieces] : f[0] = s
    <2>1. [k \in 0 .. 0 |-> s] \in [0 .. 0 -> Pieces] /\ [k \in 0 .. 0 |-> s][0] = s
      OBVIOUS
    <2> QED BY <2>1
  <1>3. Leaves(<<>>, s, s)
    <2>1. f \in [0 .. Len(<<>>) -> Pieces] /\ f[0] = s /\ f[Len(<<>>)] = s
      BY <1>1, <1>2
    <2>2. \A k \in 1 .. Len(<<>>) : FALSE
      BY <1>1
    <2> QED BY <2>1, <2>2 DEF Leaves
  <1>4. ASSUME NEW t, Leaves(<<>>, s, t) PROVE t = s
    BY <1>1, <1>4 DEF Leaves
  <1> QED BY <1>3, <1>4

LEMMA LeavesTail ==
  ASSUME NEW q \in Seq(Events), q # <<>>, NEW s \in Pieces, NEW t \in Pieces, Leaves(q, s, t)
  PROVE  Leaves(Tail(q), After(s, Head(q)), t)
  <1>1. PICK f \in [0 .. Len(q) -> Pieces] :
          f[0] = s /\ f[Len(q)] = t /\ \A k \in 1 .. Len(q) : f[k] = After(f[k - 1], q[k])
    BY DEF Leaves
  <1>2. PICK n \in Nat : Len(q) = n + 1
    OBVIOUS
  <1>3. /\ Len(Tail(q)) = n /\ Head(q) = q[1]
        /\ \A k \in 1 .. n : Tail(q)[k] = q[k + 1]
    BY <1>2
  <1> DEFINE g == [k \in 0 .. n |-> f[k + 1]]
  <1>4. g \in [0 .. n -> Pieces] /\ g[0] = f[1] /\ g[n] = f[n + 1]
    BY <1>1, <1>2
  <1>5. \A k \in 1 .. n : g[k] = f[k + 1] /\ g[k - 1] = f[k]
    BY <1>1, <1>2
  <1> HIDE DEF g
  <1>6. f[1] = After(s, Head(q))
    BY <1>1, <1>2, <1>3
  <1>7. \A k \in 1 .. n : g[k] = After(g[k - 1], Tail(q)[k])
    <2>1. ASSUME NEW k \in 1 .. n PROVE f[k + 1] = After(f[k], q[k + 1])
      <3>1. k + 1 \in 1 .. Len(q) /\ (k + 1) - 1 = k
        BY <1>2
      <3> QED BY <1>1, <3>1
    <2> QED BY <1>3, <1>5, <2>1
  <1> QED BY <1>1, <1>2, <1>3, <1>4, <1>6, <1>7 DEF Leaves

LEMMA LeavesConcat ==
  ASSUME NEW p \in Seq(Events), NEW q \in Seq(Events),
         NEW s \in Pieces, NEW m \in Pieces, NEW t \in Pieces,
         Leaves(p, s, m), Leaves(q, m, t)
  PROVE  Leaves(p \o q, s, t)
  <1>1. PICK f \in [0 .. Len(p) -> Pieces] :
          f[0] = s /\ f[Len(p)] = m /\ \A k \in 1 .. Len(p) : f[k] = After(f[k - 1], p[k])
    BY DEF Leaves
  <1>2. PICK h \in [0 .. Len(q) -> Pieces] :
          h[0] = m /\ h[Len(q)] = t /\ \A k \in 1 .. Len(q) : h[k] = After(h[k - 1], q[k])
    BY DEF Leaves
  <1>3. PICK a \in Nat, b \in Nat : a = Len(p) /\ b = Len(q)
    OBVIOUS
  <1>4. /\ Len(p \o q) = a + b
        /\ \A k \in 1 .. a : (p \o q)[k] = p[k]
        /\ \A k \in (a + 1) .. (a + b) : (p \o q)[k] = q[k - a]
    BY <1>3
  <1> DEFINE g == [k \in 0 .. (a + b) |-> IF k <= a THEN f[k] ELSE h[k - a]]
  <1>5. g \in [0 .. (a + b) -> Pieces]
    <2>1. \A k \in 0 .. (a + b) : k <= a => f[k] \in Pieces
      BY <1>3
    <2>2. \A k \in 0 .. (a + b) : ~(k <= a) => h[k - a] \in Pieces
      BY <1>3
    <2> QED BY <2>1, <2>2
  <1>6. /\ \A k \in 0 .. a : g[k] = f[k]
        /\ \A k \in 0 .. b : g[a + k] = h[k]
    BY <1>1, <1>2, <1>3
  <1> HIDE DEF g
  <1>7. \A k \in 1 .. (a + b) : g[k] = After(g[k - 1], (p \o q)[k])
    <2>1. ASSUME NEW k \in 1 .. a PROVE g[k] = After(g[k - 1], (p \o q)[k])
      <3>1. k \in 0 .. a /\ k - 1 \in 0 .. a /\ k \in 1 .. Len(p)
        BY <1>3
      <3>2. f[k] = After(f[k - 1], p[k])
        BY <1>1, <3>1
      <3> QED BY <1>4, <1>6, <3>1, <3>2
    <2>2. ASSUME NEW k \in (a + 1) .. (a + b) PROVE g[k] = After(g[k - 1], (p \o q)[k])
      <3>1. PICK j \in 1 .. b : k = a + j
        <4>1. k - a \in 1 .. b /\ k = a + (k - a)
          BY <1>3
        <4> QED BY <4>1
      <3>2. g[k] = h[j] /\ g[k - 1] = h[j - 1] /\ (p \o q)[k] = q[j]
        <4>1. k - 1 = a + (j - 1) /\ k - a = j /\ j - 1 \in 0 .. b /\ j \in 0 .. b
          BY <3>1
        <4> QED BY <1>4, <1>6, <3>1, <4>1
      <3> QED BY <1>2, <1>3, <3>2
    <2> QED BY <1>3, <2>1, <2>2
  <1>8. g[0] = s /\ g[a + b] = t
    BY <1>1, <1>2, <1>3, <1>6
  <1> QED BY <1>4, <1>5, <1>7, <1>8 DEF Leaves

LEMMA LeavesOne ==
  ASSUME NEW e \in Events, NEW s \in Pieces
  PROVE  <<e>> \in Seq(Events) /\ Leaves(<<e>>, s, After(s, e))
  <1>1. <<e>> \in Seq(Events) /\ Len(<<e>>) = 1 /\ <<e>>[1] = e
    OBVIOUS
  <1> DEFINE f == [k \in 0 .. 1 |-> IF k = 0 THEN s ELSE After(s, e)]
  <1>2. f \in [0 .. 1 -> Pieces] /\ f[0] = s /\ f[1] = After(s, e)
    BY AfterType
  <1> HIDE DEF f
  <1>3. \A k \in 1 .. 1 : f[k] = After(f[k - 1], <<e>>[k])
    BY <1>1, <1>2
  <1> QED BY <1>1, <1>2, <1>3 DEF Leaves

LEMMA LeavesAppend ==
  ASSUME NEW q \in Seq(Events), NEW e \in Events, NEW s \in Pieces, NEW t \in Pieces,
         Leaves(q, s, t)
  PROVE  Append(q, e) \in Seq(Events) /\ Leaves(Append(q, e), s, After(t, e))
  <1>1. Append(q, e) = q \o <<e>> /\ Append(q, e) \in Seq(Events)
    OBVIOUS
  <1>2. Leaves(q \o <<e>>, s, After(t, e))
    BY LeavesOne, LeavesConcat, AfterType
  <1> QED BY <1>1, <1>2

\* Events that are no text and no reset leave what is shown as it was.
LEMMA LeavesQuiet ==
  ASSUME NEW q \in Seq(Events), NEW s \in Pieces,
         \A k \in DOMAIN q : q[k].kind \notin {"text", "reset"}
  PROVE  Leaves(q, s, s)
  <1> DEFINE f == [k \in 0 .. Len(q) |-> s]
  <1>1. f \in [0 .. Len(q) -> Pieces] /\ f[0] = s /\ f[Len(q)] = s
    OBVIOUS
  <1>2. \A k \in 1 .. Len(q) : f[k] = s /\ f[k - 1] = s
    OBVIOUS
  <1> HIDE DEF f
  <1>3. \A k \in 1 .. Len(q) : s = After(s, q[k])
    BY DEF After
  <1> QED BY <1>1, <1>2, <1>3 DEF Leaves

\* The events the call sends.
LEMMA EventTypes ==
  ASSUME NEW c \in Pieces
  PROVE  /\ Note \in Events /\ Reset \in Events /\ Heartbeat \in Events
         /\ Event("text", c, FALSE) \in Events /\ Event("use", c, FALSE) \in Events
         /\ \A s : After(s, Note) = s /\ After(s, Heartbeat) = s /\ After(s, Reset) = <<>>
                   /\ After(s, Event("text", c, FALSE)) = s \o c
                   /\ After(s, Event("use", c, FALSE)) = s
  <1>1. <<>> \in Pieces
    BY DEF Pieces
  <1> QED BY <1>1 DEF Events, Event, Note, Reset, Heartbeat, Kinds, After

LEMMA ConcatFacts ==
  ASSUME NEW S, NEW p \in Seq(S), NEW q \in Seq(S)
  PROVE  /\ p \o q \in Seq(S) /\ Len(p \o q) = Len(p) + Len(q)
         /\ \A i \in 1 .. Len(p) : (p \o q)[i] = p[i]
         /\ \A i \in 1 .. Len(q) : (p \o q)[Len(p) + i] = q[i]
  OBVIOUS

LEMMA SameSequence ==
  ASSUME NEW S, NEW p \in Seq(S), NEW q \in Seq(S), Len(p) = Len(q),
         \A i \in 1 .. Len(p) : p[i] = q[i]
  PROVE  p = q
  OBVIOUS

\* The text grows at its end, and starts empty.
LEMMA TextGrows ==
  ASSUME NEW a \in Nat, NEW n \in Nat
  PROVE  /\ [i \in 1 .. n |-> <<a, i>>] \in Pieces
         /\ n = 0 => [i \in 1 .. n |-> <<a, i>>] = <<>>
         /\ <<<<a, n + 1>>>> \in Pieces
         /\ [i \in 1 .. (n + 1) |-> <<a, i>>] = [i \in 1 .. n |-> <<a, i>>] \o <<<<a, n + 1>>>>
  <1>1. PICK x \in Seq(Nat \X Nat) :
          /\ x = [i \in 1 .. n |-> <<a, i>>] /\ Len(x) = n
          /\ \A i \in 1 .. n : x[i] = <<a, i>>
    <2>1. [i \in 1 .. n |-> <<a, i>>] \in Seq(Nat \X Nat) /\ Len([i \in 1 .. n |-> <<a, i>>]) = n
      OBVIOUS
    <2> QED BY <2>1
  <1>2. PICK z \in Seq(Nat \X Nat) : z = <<<<a, n + 1>>>> /\ Len(z) = 1 /\ z[1] = <<a, n + 1>>
    <2>1. <<<<a, n + 1>>>> \in Seq(Nat \X Nat)
      OBVIOUS
    <2> QED BY <2>1
  <1>3. PICK y \in Seq(Nat \X Nat) :
          /\ y = [i \in 1 .. (n + 1) |-> <<a, i>>] /\ Len(y) = n + 1
          /\ \A i \in 1 .. (n + 1) : y[i] = <<a, i>>
    <2>1. /\ [i \in 1 .. (n + 1) |-> <<a, i>>] \in Seq(Nat \X Nat)
          /\ Len([i \in 1 .. (n + 1) |-> <<a, i>>]) = n + 1
      OBVIOUS
    <2> QED BY <2>1
  <1>4. /\ x \o z \in Seq(Nat \X Nat) /\ Len(x \o z) = n + 1
        /\ \A i \in 1 .. n : (x \o z)[i] = x[i]
        /\ (x \o z)[n + 1] = z[1]
    BY <1>1, <1>2, ConcatFacts
  <1>5. \A i \in 1 .. (n + 1) : y[i] = (x \o z)[i]
    BY <1>1, <1>2, <1>3, <1>4
  <1>6. y = x \o z
    BY <1>3, <1>4, <1>5, SameSequence
  <1>7. n = 0 => x = <<>>
    BY <1>1
  <1> QED BY <1>1, <1>2, <1>3, <1>6, <1>7 DEF Pieces

LEMMA FunctionSequence ==
  ASSUME NEW S, NEW n \in Nat, NEW q \in [1 .. n -> S]
  PROVE  q \in Seq(S)
  OBVIOUS

LEMMA TailFacts ==
  ASSUME NEW S, NEW q \in Seq(S), q # <<>>
  PROVE  /\ Tail(q) \in Seq(S) /\ DOMAIN Tail(q) = 1 .. (Len(q) - 1) /\ DOMAIN q = 1 .. Len(q)
         /\ \A k \in 1 .. (Len(q) - 1) : Tail(q)[k] = q[k + 1] /\ k + 1 \in 1 .. Len(q)
  OBVIOUS

LEMMA AnnouncesTail ==
  ASSUME NEW q \in Seq(Events), q # <<>>, NEW x, Announces(q, x)
  PROVE  (Head(q).kind = "use" /\ Head(q).chunks = <<x>>) \/ Announces(Tail(q), x)
  <1>1. PICK k \in 1 .. Len(q) : q[k].kind = "use" /\ q[k].chunks = <<x>>
    BY DEF Announces
  <1>2. CASE k = 1
    BY <1>1, <1>2
  <1>3. CASE k > 1
    <2>1. PICK j \in Nat : k = j + 1 /\ j >= 1
      <3>1. k - 1 \in Nat /\ k = (k - 1) + 1 /\ k - 1 >= 1
        BY <1>3
      <3> QED BY <3>1
    <2>2. j \in DOMAIN Tail(q) /\ Tail(q)[j] = q[k]
      BY <1>1, <2>1, TailFacts
    <2> QED BY <1>1, <2>2 DEF Announces
  <1> QED BY <1>2, <1>3

LEMMA AnnouncesAppend ==
  ASSUME NEW q \in Seq(Events), NEW e \in Events, NEW x,
         Announces(q, x) \/ (e.kind = "use" /\ e.chunks = <<x>>)
  PROVE  Announces(Append(q, e), x)
  <1>1. /\ Len(Append(q, e)) = Len(q) + 1 /\ Append(q, e)[Len(q) + 1] = e
        /\ \A k \in 1 .. Len(q) : Append(q, e)[k] = q[k]
        /\ DOMAIN Append(q, e) = 1 .. (Len(q) + 1)
    OBVIOUS
  <1>2. CASE Announces(q, x)
    BY <1>1, <1>2 DEF Announces
  <1>3. CASE e.kind = "use" /\ e.chunks = <<x>>
    BY <1>1, <1>3 DEF Announces
  <1> QED BY <1>2, <1>3
-----------------------------------------------------------------------------
(* The steps.                                                              *)

\* What a step must keep for the reader to be left with what it was to be left with.
LEMMA TextStays ==
  ASSUME TextArrives, UNCHANGED <<wire, shown>>, Target' = Target,
         result' \in {"none", "ok"} => result \in {"none", "ok"}
  PROVE  TextArrives'
  BY DEF TextArrives, wire

LEMMA CallsStay ==
  ASSUME ToolCallsArrive, UNCHANGED <<wire, announced, attempt, uses>>,
         pc' = "replaying" \/ result' = "ok" => pc = "replaying" \/ result = "ok"
  PROVE  ToolCallsArrive'
  BY DEF ToolCallsArrive, wire

LEMMA TextTypes ==
  ASSUME CallTypes
  PROVE  Text \in Pieces /\ <<>> \in Pieces /\ Target \in Pieces /\ (texts = 0 => Text = <<>>)
  <1>1. Text \in Pieces /\ (texts = 0 => Text = <<>>)
    BY TextGrows DEF CallTypes, Text
  <1>2. <<>> \in Pieces
    BY DEF Pieces
  <1> QED BY <1>1, <1>2 DEF Target

LEMMA InitCall == Init => CallInv
  <1> SUFFICES ASSUME Init PROVE CallInv
    OBVIOUS
  <1>1. <<>> \in Pieces /\ <<>> \in Seq(Events) /\ Len(<<>>) = 0
    BY DEF Pieces
  <1>2. CallTypes
    BY <1>1 DEF Init, CallTypes, PCs
  <1>5. LineTypes
    <2>1. \A k \in DOMAIN <<>> : FALSE
      OBVIOUS
    <2> QED BY <1>1, <2>1 DEF Init, LineTypes
  <1>3. StepsAreJoined /\ EndsAreJudged /\ ToolCallsArrive
    BY DEF Init, StepsAreJoined, EndsAreJudged, ToolCallsArrive
  <1>4. TextArrives
    <2>1. Target = <<>>
      BY DEF Init, Target
    <2>2. Leaves(<<>>, <<>>, <<>>)
      BY <1>1, LeavesEmpty
    <2> QED BY <1>1, <2>1, <2>2 DEF Init, TextArrives
  <1> QED BY <1>2, <1>3, <1>4, <1>5 DEF CallInv

LEMMA SendKeeps == CallInv /\ Send => CallInv'
  <1> SUFFICES ASSUME CallInv, Send PROVE CallInv'
    OBVIOUS
  <1> USE DEF CallInv
  <1>1. PICK e \in Events :
          /\ e = Head(todo) /\ Tail(todo) \in Seq(Events)
          /\ e.mayDrop => e.kind \in {"note", "reset"}
    BY DEF Send, LineTypes
  <1>2. /\ todo # <<>> /\ todo' = Tail(todo)
        /\ UNCHANGED <<pc, attempt, parent, cause, texts, uses, whole, err, result, beat,
                       shown, announced, count>>
        /\ \/ Len(chan) < Capacity /\ chan' = Append(chan, e) /\ lost' = lost
           \/ e.mayDrop /\ lost' = (lost \/ e.kind = "reset") /\ chan' = chan
    BY <1>1 DEF Send, context, buf, reader
  <1>3. CallTypes'
    BY <1>2 DEF CallTypes
  <1>4. LineTypes'
    <2>1. chan' \in Seq(Events) /\ Len(chan') <= Capacity
      <3>1. PICK q \in Seq(Events) : q = Append(chan, e) /\ Len(q) = Len(chan) + 1
        <4>1. Append(chan, e) \in Seq(Events) /\ Len(Append(chan, e)) = Len(chan) + 1
          BY DEF LineTypes
        <4> QED BY <4>1
      <3>2. Len(chan) \in Nat
        BY DEF LineTypes
      <3>3. CASE Len(chan) < Capacity /\ chan' = Append(chan, e)
        <4>1. chan' = q
          BY <3>1, <3>3
        <4> QED BY <3>1, <3>2, <3>3, <4>1
      <3>4. CASE chan' = chan
        BY <3>4 DEF LineTypes
      <3> QED BY <1>2, <3>3, <3>4
    <2>2. \A k \in DOMAIN todo' : k + 1 \in DOMAIN todo /\ todo'[k] = todo[k + 1]
      BY <1>2, TailFacts DEF LineTypes
    <2> QED BY <1>1, <1>2, <2>1, <2>2 DEF LineTypes
  <1>5. StepsAreJoined'
    <2>1. todo # <<>>
      BY <1>2
    <2> QED BY <1>2, <2>1 DEF StepsAreJoined
  <1>6. EndsAreJudged'
    BY <1>2 DEF EndsAreJudged
  <1>7. TextArrives'
    <2> SUFFICES ASSUME ~lost', result \in {"none", "ok"}
                 PROVE  \E m \in Pieces : Leaves(chan', shown', m) /\ Leaves(todo', m, Target')
      BY <1>2 DEF TextArrives
    <2>6. ~lost
      BY <1>2
    <2>1. PICK m \in Pieces : Leaves(chan, shown, m) /\ Leaves(todo, m, Target)
      BY <2>6 DEF TextArrives
    <2>2. Target' = Target /\ Target \in Pieces /\ shown \in Pieces /\ shown' = shown
      BY <1>2, TextTypes DEF Target, Text, CallTypes
    <2>3. After(m, e) \in Pieces /\ Leaves(todo', After(m, e), Target')
      BY <1>1, <1>2, <2>1, <2>2, AfterType, LeavesTail DEF LineTypes
    <2>4. CASE chan' = Append(chan, e)
      <3>1. Leaves(chan', shown', After(m, e))
        BY <2>1, <2>2, <2>4, LeavesAppend DEF LineTypes
      <3> QED BY <2>3, <3>1
    <2>5. CASE chan' = chan /\ e.kind = "note"
      <3>1. After(m, e) = m
        BY <2>5 DEF After
      <3> QED BY <2>1, <2>2, <2>3, <2>5, <3>1
    <2> QED BY <1>1, <1>2, <2>4, <2>5
  <1>8. ToolCallsArrive'
    <2>1. ASSUME NEW x, Announces(chan, x) \/ Announces(todo, x)
          PROVE  Announces(chan', x) \/ Announces(todo', x)
      <3>1. CASE Announces(chan, x)
        BY <1>2, <3>1, AnnouncesAppend DEF LineTypes
      <3>2. CASE e.kind = "use" /\ e.chunks = <<x>>
        BY <1>1, <1>2, <3>2, AnnouncesAppend DEF LineTypes
      <3> QED BY <1>1, <1>2, <2>1, <3>1, <3>2, AnnouncesTail DEF LineTypes
    <2> QED BY <1>2, <2>1 DEF ToolCallsArrive
  <1> QED BY <1>3, <1>4, <1>5, <1>6, <1>7, <1>8

LEMMA BeatKeeps == CallInv /\ (Beat \/ BeatEnds) => CallInv'
  <1> SUFFICES ASSUME CallInv, Beat \/ BeatEnds PROVE CallInv'
    OBVIOUS
  <1> USE DEF CallInv
  <1>1. /\ UNCHANGED <<pc, attempt, parent, cause, texts, uses, whole, err, result, todo, lost,
                       shown, announced, count>>
        /\ beat' \in {"on", "stopping", "off"} /\ (beat = "off" => beat' = "off")
        /\ \/ Len(chan) < Capacity /\ chan' = Append(chan, Heartbeat)
           \/ chan' = chan
    BY DEF Beat, BeatEnds, context, buf, reader, wire, CallTypes
  <1>2. Heartbeat \in Events
    <2>1. <<>> \in Pieces
      BY DEF Pieces
    <2> QED BY <2>1, EventTypes
  <1>3. CallTypes' /\ StepsAreJoined' /\ EndsAreJudged'
    BY <1>1 DEF CallTypes, StepsAreJoined, EndsAreJudged
  <1>4. LineTypes'
    BY <1>1, <1>2 DEF LineTypes
  <1>5. TextArrives'
    <2> SUFFICES ASSUME ~lost, result \in {"none", "ok"}
                 PROVE  \E m \in Pieces : Leaves(chan', shown', m) /\ Leaves(todo', m, Target')
      BY <1>1 DEF TextArrives
    <2>1. PICK m \in Pieces : Leaves(chan, shown, m) /\ Leaves(todo, m, Target)
      BY DEF TextArrives
    <2>2. Target' = Target /\ shown' = shown /\ todo' = todo
      BY <1>1 DEF Target, Text
    <2>3. CASE chan' = Append(chan, Heartbeat)
      <3>1. After(m, Heartbeat) = m
        BY DEF After, Heartbeat, Event
      <3>2. Leaves(chan', shown', m)
        BY <1>2, <2>1, <2>2, <2>3, <3>1, LeavesAppend DEF LineTypes, CallTypes
      <3> QED BY <2>1, <2>2, <3>2
    <2>4. CASE chan' = chan
      BY <2>1, <2>2, <2>4
    <2> QED BY <1>1, <2>3, <2>4
  <1>6. ToolCallsArrive'
    <2>1. \A x : Announces(chan, x) => Announces(chan', x)
      BY <1>1, <1>2, AnnouncesAppend DEF LineTypes
    <2> QED BY <1>1, <2>1 DEF ToolCallsArrive
  <1> QED BY <1>3, <1>4, <1>5, <1>6

LEMMA ReadKeeps == CallInv /\ Read => CallInv'
  <1> SUFFICES ASSUME CallInv, Read PROVE CallInv'
    OBVIOUS
  <1> USE DEF CallInv
  <1>1. PICK e \in Events : e = Head(chan) /\ Tail(chan) \in Seq(Events)
    BY DEF Read, LineTypes
  <1>2. /\ chan # <<>> /\ chan' = Tail(chan) /\ shown' = After(shown, e)
        /\ announced' = IF e.kind = "use" THEN announced \cup ToSet(e.chunks) ELSE announced
        /\ UNCHANGED <<pc, attempt, parent, cause, texts, uses, whole, err, result, beat, todo,
                       lost, count>>
    BY <1>1 DEF Read, context, buf
  <1>3. CallTypes'
    <2>1. e.chunks \in Seq(Nat \X Nat)
      BY DEF Events, Pieces
    <2>2. ToSet(e.chunks) \subseteq Nat \X Nat
      BY <2>1 DEF ToSet
    <2>3. shown' \in Pieces
      BY <1>2, AfterType DEF CallTypes
    <2> QED BY <1>2, <2>2, <2>3 DEF CallTypes
  <1>4. LineTypes'
    <2>1. Len(Tail(chan)) <= Len(chan)
      BY <1>2 DEF LineTypes
    <2> QED BY <1>1, <1>2, <2>1 DEF LineTypes
  <1>5. StepsAreJoined' /\ EndsAreJudged'
    BY <1>2 DEF StepsAreJoined, EndsAreJudged
  <1>6. TextArrives'
    <2> SUFFICES ASSUME ~lost, result \in {"none", "ok"}
                 PROVE  \E m \in Pieces : Leaves(chan', shown', m) /\ Leaves(todo', m, Target')
      BY <1>2 DEF TextArrives
    <2>1. PICK m \in Pieces : Leaves(chan, shown, m) /\ Leaves(todo, m, Target)
      BY DEF TextArrives
    <2>2. Target' = Target
      BY <1>2 DEF Target, Text
    <2>3. Leaves(chan', shown', m)
      BY <1>1, <1>2, <2>1, LeavesTail DEF LineTypes, CallTypes
    <2> QED BY <1>2, <2>1, <2>2, <2>3
  <1>7. ToolCallsArrive'
    <2>1. ASSUME NEW x, x \in announced \/ Announces(chan, x)
          PROVE  x \in announced' \/ Announces(chan', x)
      <3>1. CASE x \in announced
        BY <1>2, <3>1
      <3>2. CASE e.kind = "use" /\ e.chunks = <<x>>
        <4>1. x \in ToSet(e.chunks)
          BY <3>2 DEF ToSet
        <4> QED BY <1>2, <3>2, <4>1
      <3> QED BY <1>1, <1>2, <2>1, <3>1, <3>2, AnnouncesTail DEF LineTypes
    <2> QED BY <1>2, <2>1 DEF ToolCallsArrive
  <1> QED BY <1>3, <1>4, <1>5, <1>6, <1>7

\* The steps of an attempt that send nothing.
LEMMA AttemptKeeps ==
  CallInv /\ (BeginAttempt \/ Connect \/ DialFails \/ LeaveDial \/ StreamEnds \/ StreamBreaks
              \/ StreamCut) => CallInv'
  <1> SUFFICES ASSUME CallInv,
                      BeginAttempt \/ Connect \/ DialFails \/ LeaveDial \/ StreamEnds
                      \/ StreamBreaks \/ StreamCut
               PROVE  CallInv'
    OBVIOUS
  <1> USE DEF CallInv
  <1>1. CASE BeginAttempt
    <2>1. /\ pc \in {"begin", "backoff"} /\ todo = <<>> /\ pc' = "dial" /\ attempt' = attempt + 1
          /\ cause' = IF parent = "live" THEN "none" ELSE parent
          /\ texts' = 0 /\ uses' = 0 /\ whole' = FALSE /\ err' = "none" /\ beat' = "on"
          /\ UNCHANGED <<parent, result, todo, chan, lost, shown, announced, count>>
      BY <1>1 DEF BeginAttempt, wire, reader
    <2>2. CallTypes'
      <3>1. cause' \in {"none", "stopped", "cancelled"}
        BY <2>1 DEF CallTypes
      <3>2. attempt' \in Nat /\ texts' \in Nat /\ uses' \in Nat
        BY <2>1 DEF CallTypes
      <3> QED BY <2>1, <3>1, <3>2 DEF CallTypes, PCs
    <2>3. LineTypes'
      BY <2>1 DEF LineTypes
    <2>4. StepsAreJoined' /\ EndsAreJudged'
      BY <2>1 DEF StepsAreJoined, EndsAreJudged, CallTypes
    <2>5. Target = <<>>
      BY <2>1 DEF Target, StepsAreJoined, CallTypes
    <2>6. Target' = <<>>
      <3>1. [n \in 1 .. texts' |-> <<attempt', n>>] = <<>>
        BY <2>1, TextGrows DEF CallTypes
      <3> QED BY <2>1, <3>1 DEF Target, Text
    <2>7. TextArrives'
      BY <2>1, <2>5, <2>6, TextStays DEF wire
    <2>8. ToolCallsArrive'
      BY <2>1 DEF ToolCallsArrive, StepsAreJoined
    <2> QED BY <2>2, <2>3, <2>4, <2>7, <2>8
  <1>2. CASE Connect \/ DialFails \/ LeaveDial \/ StreamEnds \/ StreamBreaks \/ StreamCut
    <2>1. /\ pc \in {"dial", "stream"}
          /\ UNCHANGED <<attempt, parent, cause, texts, uses, result, todo, chan, lost, shown,
                         announced, count>>
      BY <1>2 DEF Connect, DialFails, LeaveDial, StreamEnds, StreamBreaks, StreamCut, Over,
                  context, buf, wire, reader
    <2>2. \/ pc' = "stream" /\ UNCHANGED <<whole, err, beat>>
          \/ /\ pc' = "stopping" /\ todo = <<>> /\ whole' \in BOOLEAN
             /\ err' \in Failures \/ (err' = "none" /\ (whole' \/ cause = "cancelled"))
             /\ beat' \in {"stopping", beat}
      <3>1. CASE Connect
        BY <3>1 DEF Connect
      <3>2. CASE DialFails \/ LeaveDial
        BY <3>2 DEF DialFails, LeaveDial, Over, Failures, StepsAreJoined, CallTypes
      <3>3. CASE StreamEnds
        BY <3>3 DEF StreamEnds, Over, Verdict, Failures
      <3>4. CASE StreamBreaks
        BY <3>4 DEF StreamBreaks, Over, CallTypes
      <3>5. CASE StreamCut
        BY <3>5 DEF StreamCut, Over, Verdict, Failures, CallTypes
      <3> QED BY <1>2, <3>1, <3>2, <3>3, <3>4, <3>5
    <2>3. CallTypes'
      BY <2>1, <2>2 DEF CallTypes, PCs
    <2>4. LineTypes'
      BY <2>1 DEF LineTypes
    <2>5. StepsAreJoined'
      BY <2>1, <2>2 DEF StepsAreJoined
    <2>6. EndsAreJudged'
      <3>1. "none" \notin Failures
        BY DEF Failures
      <3>2. result = "none"
        BY <2>1 DEF StepsAreJoined
      <3> QED BY <2>1, <2>2, <3>1, <3>2 DEF EndsAreJudged
    <2>7. TextArrives'
      <3>1. Target' = Target
        BY <2>1, <2>2 DEF Target, Text
      <3> QED BY <2>1, <3>1, TextStays DEF wire
    <2>8. ToolCallsArrive'
      BY <2>1, <2>2 DEF ToolCallsArrive, StepsAreJoined
    <2> QED BY <2>3, <2>4, <2>5, <2>6, <2>7, <2>8
  <1> QED BY <1>1, <1>2

LEMMA ChunkKeeps ==
  ASSUME CallInv, NEW kind \in {"text", "use"}, Chunk(kind)
  PROVE  CallInv'
  <1> USE DEF CallInv
  <1> DEFINE text == Event("text", <<<<attempt, texts + 1>>>>, FALSE)
             use == Event("use", <<<<attempt, uses + 1>>>>, FALSE)
  <1>1. /\ pc = "stream" /\ todo = <<>> /\ pc' = pc
        /\ UNCHANGED <<attempt, parent, cause, whole, err, result, beat, chan, lost, shown,
                       announced, count>>
        /\ texts' \in {texts, texts + 1} /\ uses' \in {uses, uses + 1}
    BY DEF Chunk, context, reader
  <1>9. \/ texts' = texts + 1 /\ attempt = 1 /\ todo' = <<text>>
        \/ texts' = texts + 1 /\ attempt # 1 /\ todo' = <<>>
        \/ texts' = texts /\ todo' \in {<<use, Note>>, <<Note>>}
    BY DEF Chunk
  <1>2. /\ <<>> \in Pieces /\ <<<<attempt, texts + 1>>>> \in Pieces
        /\ <<<<attempt, uses + 1>>>> \in Pieces
    BY DEF Pieces, CallTypes
  <1>3. /\ text \in Events /\ use \in Events /\ Note \in Events
        /\ text.kind = "text" /\ use.kind = "use" /\ Note.kind = "note"
        /\ text.mayDrop = FALSE /\ use.mayDrop = FALSE
        /\ text.chunks = <<<<attempt, texts + 1>>>>
    BY <1>2, EventTypes DEF Event, Note
  <1> HIDE DEF text, use
  <1>4. CallTypes'
    BY <1>1 DEF CallTypes
  <1>5. LineTypes'
    <2>1. /\ <<text>> \in Seq(Events) /\ <<use, Note>> \in Seq(Events)
          /\ <<Note>> \in Seq(Events) /\ <<>> \in Seq(Events)
      BY <1>3
    <2>2. \A k \in DOMAIN todo' : todo'[k].mayDrop => todo'[k].kind \in {"note", "reset"}
      <3>1. CASE todo' = <<>>
        BY <3>1
      <3>2. CASE todo' = <<text>>
        BY <1>3, <3>2
      <3>3. CASE todo' = <<use, Note>>
        BY <1>3, <3>3
      <3>4. CASE todo' = <<Note>>
        BY <1>3, <3>4
      <3> QED BY <1>9, <3>1, <3>2, <3>3, <3>4
    <2> QED BY <1>1, <1>9, <2>1, <2>2 DEF LineTypes
  <1>6. StepsAreJoined' /\ EndsAreJudged'
    BY <1>1 DEF StepsAreJoined, EndsAreJudged
  <1>7. TextArrives'
    <2> SUFFICES ASSUME ~lost
                 PROVE  \E m \in Pieces : Leaves(chan', shown', m) /\ Leaves(todo', m, Target')
      BY <1>1 DEF TextArrives
    <2>1. PICK m \in Pieces : Leaves(chan, shown, m) /\ Leaves(todo, m, Target)
      BY <1>1 DEF TextArrives, StepsAreJoined
    <2>2. m = Target
      BY <1>1, <2>1, LeavesEmpty, TextTypes
    <2>3. CASE texts' = texts /\ todo' \in {<<use, Note>>, <<Note>>}
      <3>1. Leaves(todo', m, m)
        <4>1. CASE todo' = <<use, Note>>
          <5>1. /\ <<use, Note>> \in Seq(Events)
                /\ \A k \in DOMAIN <<use, Note>> : <<use, Note>>[k].kind \notin {"text", "reset"}
            BY <1>3
          <5> QED BY <4>1, <5>1, LeavesQuiet
        <4>2. CASE todo' = <<Note>>
          <5>1. /\ <<Note>> \in Seq(Events)
                /\ \A k \in DOMAIN <<Note>> : <<Note>>[k].kind \notin {"text", "reset"}
            BY <1>3
          <5> QED BY <4>2, <5>1, LeavesQuiet
        <4> QED BY <2>3, <4>1, <4>2
      <3>2. Target' = Target
        BY <1>1, <2>3 DEF Target, Text
      <3> QED BY <1>1, <2>1, <2>2, <3>1, <3>2
    <2>4. CASE texts' = texts + 1 /\ attempt = 1 /\ todo' = <<text>>
      <3>1. Target = Text /\ Target' = [n \in 1 .. (texts + 1) |-> <<attempt, n>>]
        BY <1>1, <2>4 DEF Target, Text
      <3>2. Target' = Text \o <<<<attempt, texts + 1>>>>
        BY <3>1, TextGrows DEF CallTypes, Text
      <3>3. After(m, text) = Target'
        BY <1>3, <2>2, <3>1, <3>2 DEF After
      <3>4. Leaves(todo', m, Target')
        BY <1>3, <2>4, <3>3, LeavesOne
      <3> QED BY <1>1, <2>1, <3>4
    <2>5. CASE texts' = texts + 1 /\ attempt # 1 /\ todo' = <<>>
      <3>1. Target = <<>> /\ Target' = <<>>
        BY <1>1, <2>5 DEF Target
      <3> QED BY <1>1, <2>1, <2>5, <3>1
    <2> QED BY <1>9, <2>3, <2>4, <2>5
  <1>8. ToolCallsArrive'
    BY <1>1 DEF ToolCallsArrive, StepsAreJoined
  <1> QED BY <1>4, <1>5, <1>6, <1>7, <1>8

\* The limits, the caller, and the retrier's steps that send nothing.
LEMMA ControlKeeps ==
  ASSUME CallInv,
         \/ FirstByteTimeout \/ APITimeout \/ (\E how \in {"stopped", "cancelled"} : Cancel(how))
         \/ Others \/ Judge \/ Bump \/ Check
  PROVE  CallInv'
  <1> USE DEF CallInv
  <1>1. UNCHANGED <<attempt, texts, uses, whole, err, result, beat, todo, chan, lost, shown,
                    announced>>
    BY DEF FirstByteTimeout, APITimeout, Expire, Cancel, Others, Judge, Bump, Check, context,
           buf, wire, reader
  <1>2. \/ pc' = pc
        \/ /\ pc = "stopping" /\ beat = "off" /\ todo = <<>>
           /\ (pc' = "replay" /\ err = "none") \/ pc' \in {"bump", "decide"}
        \/ pc \in {"bump", "check"} /\ pc' \in {"check", "decide"}
    BY DEF FirstByteTimeout, APITimeout, Expire, Cancel, Others, Judge, Bump, Check,
           StepsAreJoined
  <1>3. \/ UNCHANGED <<parent, cause>>
        \/ parent' = parent /\ cause' \in {"stall", "deadline"}
        \/ /\ parent = "live" /\ parent' \in {"stopped", "cancelled"}
           /\ cause' \in {cause, parent'}
    BY DEF FirstByteTimeout, APITimeout, Expire, Cancel, Others, Judge, Bump, Check, context
  <1>4. count' \in Nat
    BY DEF FirstByteTimeout, APITimeout, Expire, Cancel, Others, Judge, Bump, Check, CallTypes
  <1>5. CallTypes'
    BY <1>1, <1>2, <1>3, <1>4 DEF CallTypes, PCs
  <1>6. LineTypes'
    BY <1>1 DEF LineTypes
  <1>7. StepsAreJoined'
    BY <1>1, <1>2 DEF StepsAreJoined
  <1>8. EndsAreJudged'
    <2>1. cause' = "cancelled" => parent' = "cancelled"
      BY <1>3 DEF EndsAreJudged
    <2>2. parent = "cancelled" => parent' = "cancelled"
      BY <1>3
    <2>3. \/ pc' = pc
          \/ pc' = "replay" /\ pc = "stopping" /\ err = "none"
          \/ pc' \in {"bump", "check", "decide"}
      BY <1>2
    <2> QED BY <1>1, <2>1, <2>2, <2>3 DEF EndsAreJudged
  <1>9. TextArrives'
    <2>1. Target' = Target
      BY <1>1, <1>2 DEF Target, Text
    <2> QED BY <1>1, <2>1, TextStays DEF wire
  <1>10. ToolCallsArrive'
    BY <1>1, <1>2, CallsStay DEF wire
  <1> QED BY <1>5, <1>6, <1>7, <1>8, <1>9, <1>10

\* The call returns.
LEMMA ReturnKeeps ==
  ASSUME CallInv, Fallback \/ GiveUp \/ CutBackoff \/ Succeed
  PROVE  CallInv'
  <1> USE DEF CallInv
  <1>1. /\ UNCHANGED <<attempt, parent, cause, texts, uses, whole, err, beat, todo, chan, lost,
                       shown, announced, count>>
        /\ pc' = "returned"
        /\ \/ pc \in {"check", "decide", "backoff"} /\ result' \in {"failed", "fallback", "cancelled"}
           \/ pc = "replaying" /\ result' = "ok"
        /\ pc \in {"backoff", "replaying"} => todo = <<>>
    BY DEF Fallback, GiveUp, CutBackoff, Succeed, Return, context, buf, wire, reader
  <1>2. CallTypes'
    BY <1>1 DEF CallTypes, PCs
  <1>3. LineTypes'
    BY <1>1 DEF LineTypes
  <1>4. StepsAreJoined'
    BY <1>1 DEF StepsAreJoined
  <1>5. EndsAreJudged'
    BY <1>1 DEF EndsAreJudged
  <1>6. TextArrives'
    <2>1. CASE result' = "ok"
      <3>1. Target' = Target /\ result = "none"
        BY <1>1, <2>1 DEF Target, Text, StepsAreJoined
      <3> QED BY <1>1, <3>1, TextStays DEF wire
    <2>2. CASE result' # "ok"
      BY <1>1, <2>2 DEF TextArrives
    <2> QED BY <2>1, <2>2
  <1>7. ToolCallsArrive'
    BY <1>1, CallsStay DEF ToolCallsArrive, wire
  <1> QED BY <1>2, <1>3, <1>4, <1>5, <1>6, <1>7

LEMMA RetryKeeps ==
  ASSUME CallInv, Retry
  PROVE  CallInv'
  <1> USE DEF CallInv
  <1>1. /\ pc = "decide" /\ attempt <= MaxRetries /\ pc' = "backoff"
        /\ todo' = <<Reset, Note, Note>>
        /\ UNCHANGED <<attempt, parent, cause, texts, uses, whole, err, result, beat, chan, lost,
                       shown, announced, count>>
    BY DEF Retry, context, buf, reader
  <1>2. /\ <<>> \in Pieces /\ Reset \in Events /\ Note \in Events
        /\ Reset.kind = "reset" /\ Note.kind = "note"
    <2>1. <<>> \in Pieces
      BY DEF Pieces
    <2> QED BY <2>1, EventTypes DEF Reset, Note, Event
  <1>3. CallTypes'
    BY <1>1 DEF CallTypes, PCs
  <1>4. LineTypes'
    <2>1. /\ <<Reset, Note, Note>> \in Seq(Events)
          /\ \A k \in DOMAIN <<Reset, Note, Note>> :
               <<Reset, Note, Note>>[k].kind \in {"note", "reset"}
      BY <1>2
    <2> QED BY <1>1, <2>1 DEF LineTypes
  <1>5. StepsAreJoined' /\ EndsAreJudged'
    BY <1>1 DEF StepsAreJoined, EndsAreJudged
  <1>6. TextArrives'
    <2> SUFFICES ASSUME ~lost
                 PROVE  \E m \in Pieces : Leaves(chan', shown', m) /\ Leaves(todo', m, Target')
      BY <1>1 DEF TextArrives
    <2>1. PICK m \in Pieces : Leaves(chan, shown, m)
      BY <1>1 DEF TextArrives, StepsAreJoined
    <2>2. <<Reset>> \in Seq(Events) /\ Leaves(<<Reset>>, m, <<>>)
      <3>1. After(m, Reset) = <<>>
        BY <1>2 DEF After
      <3> QED BY <1>2, <3>1, LeavesOne
    <2>3. <<Note, Note>> \in Seq(Events) /\ Leaves(<<Note, Note>>, <<>>, <<>>)
      <3>1. /\ <<Note, Note>> \in Seq(Events)
            /\ \A k \in DOMAIN <<Note, Note>> : <<Note, Note>>[k].kind \notin {"text", "reset"}
        BY <1>2
      <3> QED BY <1>2, <3>1, LeavesQuiet
    <2>4. Leaves(<<Reset>> \o <<Note, Note>>, m, <<>>)
      BY <1>2, <2>2, <2>3, LeavesConcat
    <2>5. <<Reset, Note, Note>> = <<Reset>> \o <<Note, Note>>
      OBVIOUS
    <2>6. Target' = <<>>
      BY <1>1 DEF Target
    <2> QED BY <1>1, <2>1, <2>4, <2>5, <2>6
  <1>7. ToolCallsArrive'
    BY <1>1 DEF ToolCallsArrive, StepsAreJoined
  <1> QED BY <1>3, <1>4, <1>5, <1>6, <1>7

\* What is replayed: the text if no attempt before this one was shown, the tool calls, notes.
CallsOf(q, a, n) == \A k \in 1 .. n : q[k] = Event("use", <<<<a, k>>>>, FALSE)

LEMMA ReplayedCalls ==
  ASSUME NEW a \in Nat, NEW n \in Nat, NEW q \in Seq(Events), DOMAIN q = 1 .. n,
         CallsOf(q, a, n)
  PROVE  /\ \A k \in DOMAIN q : q[k].kind = "use" /\ q[k].mayDrop = FALSE
         /\ \A x \in 1 .. n : Announces(q, <<a, x>>)
  <1>1. \A k \in 1 .. n :
          q[k].kind = "use" /\ q[k].mayDrop = FALSE /\ q[k].chunks = <<<<a, k>>>>
    <2> TAKE k \in 1 .. n
    <2>1. PICK e : e = Event("use", <<<<a, k>>>>, FALSE) /\ q[k] = e
      BY DEF CallsOf
    <2>2. e.kind = "use" /\ e.mayDrop = FALSE /\ e.chunks = <<<<a, k>>>>
      BY <2>1 DEF Event
    <2> QED BY <2>1, <2>2
  <1> QED BY <1>1 DEF Announces

LEMMA ReplayedNotes ==
  ASSUME NEW n \in Nat, NEW q, q = [k \in 1 .. n |-> Note]
  PROVE  q \in Seq(Events) /\ \A k \in DOMAIN q : q[k].kind = "note"
  <1>1. <<>> \in Pieces
    BY DEF Pieces
  <1>2. Note \in Events /\ Note.kind = "note"
    BY <1>1, EventTypes DEF Note, Event
  <1> QED BY <1>2

\* Only notes and resets may be dropped: stays so when lines are joined.
Lossless(q) == \A k \in DOMAIN q : q[k].mayDrop => q[k].kind \in {"note", "reset"}

LEMMA LineConcat ==
  ASSUME NEW p \in Seq(Events), NEW q \in Seq(Events)
  PROVE  /\ p \o q \in Seq(Events)
         /\ Lossless(p) /\ Lossless(q) => Lossless(p \o q)
         /\ \A x : Announces(p, x) \/ Announces(q, x) => Announces(p \o q, x)
  <1>1. PICK w \in Seq(Events) : w = p \o q /\ Len(w) = Len(p) + Len(q)
    BY ConcatFacts
  <1>2. /\ \A i \in 1 .. Len(p) : w[i] = p[i]
        /\ \A i \in 1 .. Len(q) : w[Len(p) + i] = q[i]
    BY <1>1, ConcatFacts
  <1>3. DOMAIN w = 1 .. Len(w) /\ DOMAIN p = 1 .. Len(p) /\ DOMAIN q = 1 .. Len(q)
    OBVIOUS
  <1>4. PICK a \in Nat, b \in Nat : a = Len(p) /\ b = Len(q)
    OBVIOUS
  <1>5. ASSUME Lossless(p), Lossless(q) PROVE Lossless(w)
    <2> SUFFICES ASSUME NEW k \in 1 .. (a + b), w[k].mayDrop
                 PROVE  w[k].kind \in {"note", "reset"}
      BY <1>1, <1>3, <1>4 DEF Lossless
    <2>1. CASE k <= a
      BY <1>2, <1>3, <1>4, <1>5, <2>1 DEF Lossless
    <2>2. CASE k > a
      <3>1. PICK i \in 1 .. b : k = a + i
        <4>1. k - a \in 1 .. b /\ k = a + (k - a)
          BY <2>2
        <4> QED BY <4>1
      <3> QED BY <1>2, <1>3, <1>4, <1>5, <3>1 DEF Lossless
    <2> QED BY <2>1, <2>2
  <1>6. ASSUME NEW x, Announces(p, x) PROVE Announces(w, x)
    <2>1. PICK k \in 1 .. a : p[k].kind = "use" /\ p[k].chunks = <<x>>
      BY <1>3, <1>4, <1>6 DEF Announces
    <2>2. k \in DOMAIN w /\ w[k] = p[k]
      BY <1>1, <1>2, <1>3, <1>4
    <2> QED BY <2>1, <2>2 DEF Announces
  <1>7. ASSUME NEW x, Announces(q, x) PROVE Announces(w, x)
    <2>1. PICK k \in 1 .. b : q[k].kind = "use" /\ q[k].chunks = <<x>>
      BY <1>3, <1>4, <1>7 DEF Announces
    <2>2. a + k \in DOMAIN w /\ w[a + k] = q[k]
      BY <1>1, <1>2, <1>3, <1>4
    <2> QED BY <2>1, <2>2 DEF Announces
  <1> QED BY <1>1, <1>5, <1>6, <1>7

LEMMA ReplayKeeps ==
  ASSUME CallInv, Replay
  PROVE  CallInv'
  <1> USE DEF CallInv
  <1>1. /\ pc = "replay" /\ todo = <<>> /\ pc' = "replaying"
        /\ UNCHANGED <<attempt, parent, cause, texts, uses, whole, err, result, beat, chan, lost,
                       shown, announced, count>>
    BY DEF Replay, context, buf, reader
  <1>2. PICK p, q, r :
          /\ p = IF attempt > 1 /\ texts > 0 THEN <<Event("text", Text, FALSE)>> ELSE <<>>
          /\ q = [n \in 1 .. uses |-> Event("use", <<ToolCalls[n]>>, FALSE)]
          /\ r = [n \in 1 .. uses |-> Note]
          /\ todo' = p \o q \o r
    BY DEF Replay
  <1>3. attempt \in Nat /\ texts \in Nat /\ uses \in Nat /\ shown \in Pieces
    BY DEF CallTypes
  <1>4. /\ q \in Seq(Events) /\ \A k \in DOMAIN q : q[k].kind = "use" /\ q[k].mayDrop = FALSE
        /\ \A x \in 1 .. uses : Announces(q, <<attempt, x>>)
    <2>1. \A k \in 1 .. uses : ToolCalls[k] = <<attempt, k>>
      BY DEF ToolCalls
    <2>2. \A k \in 1 .. uses : q[k] = Event("use", <<<<attempt, k>>>>, FALSE)
      BY <1>2, <2>1
    <2>3. \A k \in 1 .. uses : q[k] \in Events
      <3> TAKE k \in 1 .. uses
      <3>1. PICK e : e = Event("use", <<<<attempt, k>>>>, FALSE)
        OBVIOUS
      <3>2. e \in Events
        <4>1. <<<<attempt, k>>>> \in Pieces
          BY <1>3 DEF Pieces
        <4> QED BY <3>1, <4>1 DEF Event, Events, Kinds
      <3> QED BY <2>2, <3>1, <3>2
    <2>4. q \in Seq(Events) /\ DOMAIN q = 1 .. uses
      <3>1. q \in [1 .. uses -> Events]
        BY <1>2, <2>3
      <3> QED BY <1>2, <1>3, <3>1, FunctionSequence
    <2>5. CallsOf(q, attempt, uses)
      BY <2>2 DEF CallsOf
    <2> QED BY <1>3, <2>4, <2>5, ReplayedCalls
  <1>5. r \in Seq(Events) /\ \A k \in DOMAIN r : r[k].kind = "note"
    BY <1>2, <1>3, ReplayedNotes
  <1>6. p \in Seq(Events) /\ Lossless(p) /\ Leaves(p, Target, Text)
    <2>1. CASE attempt > 1 /\ texts > 0
      <3>1. Event("text", Text, FALSE) \in Events /\ Event("text", Text, FALSE).mayDrop = FALSE
        BY TextTypes, EventTypes DEF Event
      <3>2. Target = <<>> /\ <<>> \o Text = Text
        <4>1. Text \in Seq(Nat \X Nat)
          BY TextTypes DEF Pieces
        <4>2. <<>> \o Text = Text
          BY <4>1
        <4> QED BY <1>1, <2>1, <4>2 DEF Target
      <3>3. After(<<>>, Event("text", Text, FALSE)) = Text
        BY <3>2, TextTypes, EventTypes
      <3>4. Leaves(p, Target, Text) /\ p \in Seq(Events)
        BY <1>2, <2>1, <3>1, <3>2, <3>3, LeavesOne, TextTypes
      <3>5. Lossless(p)
        <4>1. PICK e : e = Event("text", Text, FALSE) /\ ~e.mayDrop
          BY <3>1
        <4>2. p = <<e>>
          BY <1>2, <2>1, <4>1
        <4>3. \A k \in DOMAIN <<e>> : <<e>>[k] = e
          OBVIOUS
        <4> QED BY <4>1, <4>2, <4>3 DEF Lossless
      <3> QED BY <3>4, <3>5
    <2>2. CASE ~(attempt > 1 /\ texts > 0)
      <3>1. p = <<>> /\ Target = Text
        <4>1. attempt # 0
          BY <1>1 DEF StepsAreJoined
        <4> QED BY <1>1, <1>2, <1>3, <2>2, <4>1, TextTypes DEF Target
      <3>2. Leaves(<<>>, Text, Text)
        BY LeavesEmpty, TextTypes
      <3>3. <<>> \in Seq(Events) /\ Lossless(<<>>)
        BY DEF Lossless
      <3> QED BY <3>1, <3>2, <3>3
    <2> QED BY <2>1, <2>2
  <1>7. Lossless(q) /\ Lossless(r)
    BY <1>4, <1>5 DEF Lossless
  <1>8. p \o q \in Seq(Events) /\ Lossless(p \o q)
    BY <1>4, <1>6, <1>7, LineConcat
  <1>9. todo' \in Seq(Events) /\ Lossless(todo')
    BY <1>2, <1>5, <1>7, <1>8, LineConcat
  <1>10. CallTypes'
    BY <1>1 DEF CallTypes, PCs
  <1>11. LineTypes'
    BY <1>1, <1>9 DEF LineTypes, Lossless
  <1>12. StepsAreJoined' /\ EndsAreJudged'
    BY <1>1 DEF StepsAreJoined, EndsAreJudged
  <1>13. TextArrives'
    <2> SUFFICES ASSUME ~lost
                 PROVE  \E m \in Pieces : Leaves(chan', shown', m) /\ Leaves(todo', m, Target')
      BY <1>1 DEF TextArrives
    <2>1. PICK m \in Pieces : Leaves(chan, shown, m) /\ Leaves(todo, m, Target)
      BY <1>1 DEF TextArrives, StepsAreJoined
    <2>2. m = Target
      BY <1>1, <2>1, LeavesEmpty, TextTypes
    <2>3. Leaves(q, Text, Text)
      BY <1>4, LeavesQuiet, TextTypes
    <2>4. Leaves(r, Text, Text)
      BY <1>5, LeavesQuiet, TextTypes
    <2>5. Leaves(p \o q, m, Text)
      BY <1>4, <1>6, <2>2, <2>3, LeavesConcat, TextTypes
    <2>6. Leaves(todo', m, Text)
      BY <1>2, <1>5, <1>8, <2>4, <2>5, LeavesConcat, TextTypes
    <2>7. Target' = Text
      BY <1>1 DEF Target, Text
    <2> QED BY <1>1, <2>1, <2>6, <2>7
  <1>14. ToolCallsArrive'
    <2>1. \A x \in 1 .. uses : Announces(todo', <<attempt, x>>)
      BY <1>2, <1>4, <1>5, <1>6, <1>8, LineConcat
    <2> QED BY <1>1, <2>1 DEF ToolCallsArrive
  <1> QED BY <1>10, <1>11, <1>12, <1>13, <1>14
-----------------------------------------------------------------------------
\* The invariant holds in every reachable state.
THEOREM CallInvariant == Spec => []CallInv
  <1>1. CallInv /\ [Next]_vars => CallInv'
    <2> SUFFICES ASSUME CallInv, [Next]_vars PROVE CallInv'
      OBVIOUS
    <2>1. CASE Send
      BY <2>1, SendKeeps
    <2>2. CASE Beat \/ BeatEnds
      BY <2>2, BeatKeeps
    <2>3. CASE Read
      BY <2>3, ReadKeeps
    <2>4. CASE Attempt
      BY <2>4, AttemptKeeps, ChunkKeeps DEF Attempt
    <2>5. CASE Limits \/ Others \/ \E how \in {"stopped", "cancelled"} : Cancel(how)
      BY <2>5, ControlKeeps DEF Limits
    <2>6. CASE Retrier
      BY <2>6, ControlKeeps, ReturnKeeps, RetryKeeps, ReplayKeeps DEF Retrier
    <2>7. CASE UNCHANGED vars
      <3>1. UNCHANGED <<pc, attempt, parent, cause, texts, uses, whole, err, result, beat, todo,
                        chan, lost, shown, announced, count>>
        BY <2>7 DEF vars, context, buf, wire, reader
      <3>2. Target' = Target
        BY <3>1 DEF Target, Text
      <3>3. CallTypes' /\ LineTypes' /\ StepsAreJoined' /\ EndsAreJudged'
        BY <3>1 DEF CallInv, CallTypes, LineTypes, StepsAreJoined, EndsAreJudged
      <3>4. TextArrives' /\ ToolCallsArrive'
        BY <3>1, <3>2 DEF CallInv, TextArrives, ToolCallsArrive
      <3> QED BY <3>3, <3>4 DEF CallInv
    <2> QED BY <2>1, <2>2, <2>3, <2>4, <2>5, <2>6, <2>7 DEF Next, Done
  <1> QED BY <1>1, InitCall, PTL DEF Spec

\* A call that succeeds was whole or cut by a plain cancellation, the reader who was not denied
\* a reset shows the text of the attempt that succeeded and nothing else, and was told of all its
\* tool calls; nothing of a returned call can still send.  For any limits, any interleaving of
\* the sender, the heartbeat, the reader, the limits and the other callers of the retrier.
THEOREM SuccessIsWhole == Spec => []CallIsWhole
  <1>1. CallInv => CallIsWhole
    <2> SUFFICES ASSUME CallInv PROVE CallIsWhole
      OBVIOUS
    <2> USE DEF CallInv
    <2>1. LLMCallInv
      BY DEF LLMCallInv, CallTypes, LineTypes, StepsAreJoined
    <2>2. OkMeansWhole
      BY DEF OkMeansWhole, EndsAreJudged
    <2>3. ASSUME Answered, ~lost PROVE shown = Text
      <3>1. pc = "returned" /\ todo = <<>> /\ chan = <<>>
        BY <2>3 DEF Answered, StepsAreJoined
      <3>2. Target = Text
        BY <3>1 DEF Target
      <3>3. PICK m \in Pieces : Leaves(chan, shown, m) /\ Leaves(todo, m, Target)
        BY <2>3 DEF Answered, TextArrives
      <3>4. m = shown
        BY <3>1, <3>3, LeavesEmpty DEF CallTypes
      <3>5. Target = m
        BY <3>1, <3>3, LeavesEmpty
      <3> QED BY <3>2, <3>4, <3>5
    <2>4. ASSUME Answered PROVE ToSet(ToolCalls) \subseteq announced
      <3>1. result = "ok" /\ todo = <<>> /\ chan = <<>>
        BY <2>4 DEF Answered, StepsAreJoined
      <3>2. \A x : ~Announces(<<>>, x)
        BY DEF Announces
      <3>3. \A n \in 1 .. uses : <<attempt, n>> \in announced
        BY <3>1, <3>2 DEF ToolCallsArrive
      <3> QED BY <3>3 DEF ToSet, ToolCalls
    <2> QED BY <2>1, <2>2, <2>3, <2>4 DEF CallIsWhole, FinalContent
  <1> QED BY <1>1, CallInvariant, PTL
=============================================================================
