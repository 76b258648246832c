--------------------------- MODULE Socket_proofs ---------------------------
(***************************************************************************)
(* Proofs about Socket for any number of connections, sessions, users and  *)
(* messages, and any size of the buffers.                                  *)
(***************************************************************************)
EXTENDS Socket, SequenceTheorems, TLAPS

USE SocketAssumption DEF SocketAssumption

\* A reader that publishes has something to publish.
PublishesSomething == \A c \in Conns : reader[c] = "publishing" => holds[c] \in Message

\* A query, and whoever forwards its events, knows its session.
QueriesHaveSessions ==
  \A m \in Ids : query[m] # "none" \/ reply[m] # "none" => of[m] \in Sessions

\* Reply writes to a connection of the session of its query, also when it has gone.
RepliesToItsSession == \A m \in Ids : reply[m] \in Conns => bound[reply[m]] = of[m]

SInv ==
  /\ TypeOK /\ OnlyOwnSession /\ RegisteredIsAlive
  /\ PublishesSomething /\ QueriesHaveSessions /\ RepliesToItsSession

-----------------------------------------------------------------------------
\* What trySend makes of a buffer: no longer than allowed, and the frame at most added.
LEMMA TrySendFacts ==
  ASSUME NEW q \in Seq(Frame), Len(q) <= SendBuf, NEW f \in Frame
  PROVE  /\ TrySend(q, f) \in Seq(Frame) /\ Len(TrySend(q, f)) <= SendBuf
         /\ \A i \in DOMAIN TrySend(q, f) : \/ TrySend(q, f)[i] = f
                                            \/ i \in DOMAIN q /\ TrySend(q, f)[i] = q[i]
  <1>1. CASE Len(q) < SendBuf
    <2>1. TrySend(q, f) = Append(q, f)
      BY <1>1 DEF TrySend
    <2>2. /\ Append(q, f) \in Seq(Frame) /\ Len(Append(q, f)) = Len(q) + 1
          /\ \A i \in 1 .. Len(q) : Append(q, f)[i] = q[i]
          /\ Append(q, f)[Len(q) + 1] = f
      OBVIOUS
    <2>3. DOMAIN Append(q, f) = 1 .. (Len(q) + 1) /\ DOMAIN q = 1 .. Len(q)
      BY <2>2
    <2> QED BY <1>1, <2>1, <2>2, <2>3
  <1>2. CASE ~(Len(q) < SendBuf)
    BY <1>2 DEF TrySend
  <1> QED BY <1>1, <1>2

\* Putting a frame of its own session into the buffer of one connection keeps what is known of
\* the buffers.
LEMMA PushKeeps ==
  ASSUME TypeOK, OnlyOwnSession, NEW c \in Conns, NEW f \in {None, bound[c]},
         send' = [send EXCEPT ![c] = TrySend(@, f)], bound' = bound
  PROVE  /\ send' \in [Conns -> Seq(Frame)] /\ \A d \in Conns : Len(send'[d]) <= SendBuf
         /\ OnlyOwnSession'
  <1>1. send[c] \in Seq(Frame) /\ Len(send[c]) <= SendBuf /\ f \in Frame
    BY DEF TypeOK, Frame
  <1>2. /\ TrySend(send[c], f) \in Seq(Frame) /\ Len(TrySend(send[c], f)) <= SendBuf
        /\ \A i \in DOMAIN TrySend(send[c], f) :
             \/ TrySend(send[c], f)[i] = f
             \/ i \in DOMAIN send[c] /\ TrySend(send[c], f)[i] = send[c][i]
    BY <1>1, TrySendFacts
  <1>3. \A d \in Conns : send'[d] = IF d = c THEN TrySend(send[c], f) ELSE send[d]
    BY DEF TypeOK
  <1>4. OnlyOwnSession'
    BY <1>2, <1>3 DEF OnlyOwnSession
  <1> QED BY <1>2, <1>3, <1>4 DEF TypeOK

\* Taking the first frame of a buffer keeps what is known of the buffers.
LEMMA PopKeeps ==
  ASSUME TypeOK, OnlyOwnSession, NEW c \in Conns, send[c] # <<>>,
         send' = [send EXCEPT ![c] = Tail(@)], bound' = bound
  PROVE  /\ send' \in [Conns -> Seq(Frame)] /\ \A d \in Conns : Len(send'[d]) <= SendBuf
         /\ OnlyOwnSession'
  <1>1. send[c] \in Seq(Frame) /\ send[c] # <<>> /\ Len(send[c]) <= SendBuf /\ SendBuf \in Nat
    BY DEF TypeOK
  <1> DEFINE q == Tail(send[c])
  <1>2. /\ q \in Seq(Frame) /\ Len(q) = Len(send[c]) - 1 /\ Len(send[c]) \in Nat
        /\ \A i \in 1 .. Len(q) : q[i] = send[c][i + 1]
    BY <1>1
  <1>3. DOMAIN q = 1 .. Len(q) /\ DOMAIN send[c] = 1 .. Len(send[c])
    BY <1>1, <1>2
  <1> HIDE DEF q
  <1>4. \A i \in DOMAIN q : q[i] = send[c][i + 1] /\ i + 1 \in DOMAIN send[c]
    BY <1>2, <1>3
  <1>5. \A i \in DOMAIN q : q[i] \in {None, bound[c]}
    BY <1>4 DEF OnlyOwnSession
  <1>6. \A d \in Conns : send'[d] = IF d = c THEN q ELSE send[d]
    BY DEF TypeOK, q
  <1>7. OnlyOwnSession'
    <2> SUFFICES ASSUME NEW d \in Conns, NEW i \in DOMAIN send'[d]
                 PROVE  send'[d][i] \in {None, bound[d]}
      BY DEF OnlyOwnSession
    <2>1. CASE d = c
      BY <1>5, <1>6, <2>1
    <2>2. CASE d # c
      BY <1>6, <2>2 DEF OnlyOwnSession
    <2> QED BY <2>1, <2>2
  <1>8. send' \in [Conns -> Seq(Frame)]
    BY <1>2 DEF TypeOK, q
  <1>9. \A d \in Conns : Len(send'[d]) <= SendBuf
    BY <1>1, <1>2, <1>6 DEF TypeOK
  <1> QED BY <1>7, <1>8, <1>9

\* A step that opens no session, gives no query a session or a connection, and ends no reader
\* keeps all but the types; what it does to the buffers is said separately.
LEMMA RestKeeps ==
  ASSUME SInv, TypeOK', OnlyOwnSession', UNCHANGED <<bound, registry, of, reply>>,
         \A m \in Ids : query'[m] # "none" => query[m] # "none",
         \A c \in Conns : reader'[c] = "publishing" => holds'[c] \in Message,
         \A c \in Conns : reader[c] \in {"reading", "publishing"}
                          => reader'[c] \in {"reading", "publishing"}
  PROVE  SInv'
  <1>1. RegisteredIsAlive'
    <2> SUFFICES ASSUME NEW s \in Sessions, NEW c \in registry[s]
                 PROVE  bound[c] = s /\ reader'[c] \in {"reading", "publishing"}
      BY DEF RegisteredIsAlive
    <2>1. c \in Conns
      BY DEF SInv, TypeOK
    <2> QED BY <2>1 DEF SInv, RegisteredIsAlive
  <1>2. QueriesHaveSessions' /\ RepliesToItsSession'
    BY DEF SInv, QueriesHaveSessions, RepliesToItsSession
  <1> QED BY <1>1, <1>2 DEF SInv, PublishesSomething

\* The buffers of connections nothing was written to or taken from.
LEMMA BuffersKeep ==
  ASSUME OnlyOwnSession, UNCHANGED <<send, bound>>
  PROVE  OnlyOwnSession'
  BY DEF OnlyOwnSession

LEMMA InitSInv == Init => SInv
  <1> SUFFICES ASSUME Init PROVE SInv
    OBVIOUS
  <1>1. TypeOK
    <2>1. send \in [Conns -> Seq(Frame)] /\ \A c \in Conns : Len(send[c]) <= SendBuf
      <3>1. <<>> \in Seq(Frame) /\ Len(<<>>) = 0
        OBVIOUS
      <3>2. send = [c \in Conns |-> <<>>] /\ SendBuf \in Nat
        BY DEF Init
      <3> QED BY <3>1, <3>2
    <2>2. queue \in Seq(Message) /\ answered \subseteq Ids
      BY DEF Init
    <2>3. /\ spent \in [Users -> Nat] /\ told \in [Ids -> Nat] /\ stream \in [Ids -> Nat]
          /\ registry \in [Sessions -> SUBSET Conns]
      BY DEF Init
    <2>4. reply \in [Ids -> ReplyStates \cup Conns]
      BY DEF Init, ReplyStates
    <2> QED BY <2>1, <2>2, <2>3, <2>4 DEF Init, TypeOK
  <1>2. OnlyOwnSession /\ RegisteredIsAlive
    BY DEF Init, OnlyOwnSession, RegisteredIsAlive
  <1>3. PublishesSomething /\ QueriesHaveSessions /\ RepliesToItsSession
    BY DEF Init, PublishesSomething, QueriesHaveSessions, RepliesToItsSession
  <1> QED BY <1>1, <1>2, <1>3 DEF SInv

-----------------------------------------------------------------------------
\* The steps of a reader.
LEMMA CreateSInv ==
  ASSUME SInv, NEW c \in Conns, NEW s \in Sessions, Create(c, s)
  PROVE  SInv'
  <1> USE DEF SInv, Create, engine
  <1>1. /\ send[c] \in Seq(Frame) /\ Len(send[c]) <= SendBuf /\ s \in Frame
        /\ \A i \in DOMAIN send[c] : send[c][i] = None
    BY DEF TypeOK, OnlyOwnSession, Frame
  <1> DEFINE q1 == TrySend(send[c], s)
             q2 == TrySend(q1, s)
  <1>2. /\ q1 \in Seq(Frame) /\ Len(q1) <= SendBuf
        /\ \A i \in DOMAIN q1 : q1[i] \in {None, s}
    BY <1>1, TrySendFacts
  <1> HIDE DEF q1
  <1>3. /\ q2 \in Seq(Frame) /\ Len(q2) <= SendBuf
        /\ \A i \in DOMAIN q2 : q2[i] \in {None, s}
    BY <1>1, <1>2, TrySendFacts
  <1> HIDE DEF q2
  <1>4. PICK q \in Seq(Frame) : /\ Len(q) <= SendBuf /\ send' = [send EXCEPT ![c] = q]
                                /\ \A i \in DOMAIN q : q[i] \in {None, s}
    <2>1. CASE send' = [send EXCEPT ![c] = q1]
      BY <1>2, <2>1
    <2>2. CASE send' = [send EXCEPT ![c] = q2]
      BY <1>3, <2>2
    <2> QED BY <2>1, <2>2 DEF q1, q2
  <1>5. /\ \A d \in Conns : bound'[d] = IF d = c THEN s ELSE bound[d]
        /\ \A d \in Conns : send'[d] = IF d = c THEN q ELSE send[d]
        /\ \A t \in Sessions : registry'[t] = IF t = s THEN registry[s] \cup {c} ELSE registry[t]
    BY <1>4 DEF TypeOK
  <1>6. TypeOK'
    <2>1. send' \in [Conns -> Seq(Frame)] /\ \A d \in Conns : Len(send'[d]) <= SendBuf
      BY <1>4, <1>5 DEF TypeOK
    <2>2. bound' \in [Conns -> Sessions \cup {None}] /\ registry' \in [Sessions -> SUBSET Conns]
      BY DEF TypeOK
    <2> QED BY <2>1, <2>2 DEF TypeOK
  <1>7. OnlyOwnSession'
    BY <1>4, <1>5 DEF OnlyOwnSession
  <1>8. RegisteredIsAlive'
    BY <1>5 DEF RegisteredIsAlive, TypeOK
  <1>9. RepliesToItsSession'
    BY <1>5 DEF RepliesToItsSession, QueriesHaveSessions, TypeOK, ReplyStates
  <1> QED BY <1>6, <1>7, <1>8, <1>9 DEF PublishesSomething, QueriesHaveSessions

LEMMA TalkSInv ==
  ASSUME SInv, NEW c \in Conns, Upgrade(c) \/ Chat(c) \/ Interrupt(c) \/ WriteFrame(c)
  PROVE  SInv'
  <1>1. CASE Upgrade(c)
    <2>1. TypeOK'
      BY <1>1 DEF SInv, Upgrade, TypeOK, engine
    <2>2. \A d \in Conns : reader'[d] = IF d = c THEN "reading" ELSE reader[d]
      BY <1>1 DEF SInv, Upgrade, TypeOK
    <2> QED BY <1>1, <2>1, <2>2, RestKeeps, BuffersKeep
        DEF Upgrade, SInv, PublishesSomething, engine
  <1>2. CASE Chat(c) \/ WriteFrame(c)
    <2>1. /\ send' \in [Conns -> Seq(Frame)] /\ \A d \in Conns : Len(send'[d]) <= SendBuf
          /\ OnlyOwnSession'
      <3>1. CASE Chat(c)
        BY <3>1, PushKeeps DEF SInv, Chat, Say
      <3>2. CASE WriteFrame(c)
        BY <3>2, PopKeeps DEF SInv, WriteFrame
      <3> QED BY <1>2, <3>1, <3>2
    <2>2. UNCHANGED <<reader, holds, bound, done, registry, queue, open, panicked, handler, spent,
                      engine, answered, sent, stage>>
      BY <1>2 DEF Chat, WriteFrame
    <2>3. TypeOK'
      BY <2>1, <2>2 DEF SInv, TypeOK, engine
    <2> QED BY <2>1, <2>2, <2>3, RestKeeps DEF SInv, PublishesSomething, engine
  <1>3. CASE Interrupt(c)
    <2>1. query' \in [Ids -> {"none", "running", "asking", "ended"}]
          /\ \A m \in Ids : query'[m] # "none" => query[m] # "none"
      BY <1>3 DEF SInv, Interrupt, TypeOK
    <2>2. TypeOK'
      BY <1>3, <2>1 DEF SInv, Interrupt, TypeOK, conns
    <2> QED BY <1>3, <2>1, <2>2, RestKeeps, BuffersKeep
        DEF Interrupt, SInv, PublishesSomething, conns
  <1> QED BY <1>1, <1>2, <1>3

LEMMA PublishingSInv ==
  ASSUME SInv, NEW c \in Conns, NEW m \in Message, reader[c] = "reading", Publishing(c, m),
         sent' \in Nat, answered' \in SUBSET Ids
  PROVE  SInv'
  <1>1. TypeOK'
    BY DEF SInv, Publishing, engine, TypeOK
  <1>2. /\ \A d \in Conns : reader'[d] = IF d = c THEN "publishing" ELSE reader[d]
        /\ \A d \in Conns : holds'[d] = IF d = c THEN m ELSE holds[d]
    BY DEF SInv, Publishing, TypeOK
  <1> QED BY <1>1, <1>2, RestKeeps, BuffersKeep DEF Publishing, SInv, PublishesSomething, engine

LEMMA SaySInv ==
  ASSUME SInv, NEW c \in Conns,
         (\E content \in Contents : Write(c, content)) \/ (\E m \in Ids : Answer(c, m))
  PROVE  SInv'
  <1>1. ASSUME NEW content \in Contents, Write(c, content) PROVE SInv'
    <2>1. sent + 1 \in Ids /\ sent' \in Nat /\ bound[c] \in Sessions /\ UserOf[c] \in Users
      BY <1>1 DEF Write, SInv, TypeOK
    <2>2. [answer |-> FALSE, content |-> content, id |-> sent + 1, session |-> bound[c],
           user |-> UserOf[c]] \in Message
      BY <1>1, <2>1 DEF Message
    <2> QED BY <1>1, <2>1, <2>2, PublishingSInv DEF Write, SInv, TypeOK
  <1>2. ASSUME NEW m \in Ids, Answer(c, m) PROVE SInv'
    <2>1. of[m] \in Sessions /\ UserOf[c] \in Users
      BY <1>2 DEF Answer, SInv, QueriesHaveSessions
    <2>2. [answer |-> TRUE, content |-> <<>>, id |-> m, session |-> of[m], user |-> UserOf[c]]
            \in Message
      BY <1>2, <2>1 DEF Message
    <2>3. sent' \in Nat /\ answered' \in SUBSET Ids
      BY <1>2 DEF Answer, SInv, TypeOK
    <2> QED BY <1>2, <2>2, <2>3, PublishingSInv DEF Answer
  <1> QED BY <1>1, <1>2

LEMMA PublishSInv ==
  ASSUME SInv, NEW c \in Conns, Publish(c) \/ PublishCancelled(c) \/ PublishClosed(c)
  PROVE  SInv'
  <1>1. Back(c) /\ reader[c] = "publishing" /\ holds[c] \in Message
    BY DEF Publish, PublishCancelled, PublishClosed, SInv, PublishesSomething
  <1>2. /\ \A d \in Conns : reader'[d] = IF d = c THEN "reading" ELSE reader[d]
        /\ \A d \in Conns : d # c => holds'[d] = holds[d]
        /\ reader' \in [Conns -> {"none", "reading", "publishing", "done"}]
        /\ holds' \in [Conns -> Message \cup {None}]
    BY <1>1 DEF Back, SInv, TypeOK
  <1>3. queue' \in Seq(Message)
    <2>1. CASE Publish(c)
      BY <1>1, <2>1 DEF Publish, SInv, TypeOK
    <2>2. CASE PublishCancelled(c) \/ PublishClosed(c)
      BY <2>2 DEF PublishCancelled, PublishClosed, SInv, TypeOK
    <2> QED BY <2>1, <2>2
  <1>4. /\ send' \in [Conns -> Seq(Frame)] /\ \A d \in Conns : Len(send'[d]) <= SendBuf
        /\ OnlyOwnSession'
    <2>1. CASE PublishCancelled(c)
      BY <2>1, PushKeeps DEF SInv, PublishCancelled, Say
    <2>2. CASE Publish(c) \/ PublishClosed(c)
      BY <2>2, BuffersKeep DEF Publish, PublishClosed, SInv, TypeOK
    <2> QED BY <2>1, <2>2
  <1>5. /\ UNCHANGED <<bound, done, registry, open, handler, spent, engine, answered, sent, stage>>
        /\ panicked' \in BOOLEAN
    BY DEF Publish, PublishCancelled, PublishClosed, SInv, TypeOK
  <1>6. TypeOK'
    BY <1>2, <1>3, <1>4, <1>5 DEF SInv, TypeOK, engine
  <1> QED BY <1>2, <1>4, <1>5, <1>6, RestKeeps DEF SInv, PublishesSomething, engine

\* A reader that ends takes its connection out of the one set that may hold it.
LEMMA ReadFailsSInv ==
  ASSUME SInv, NEW c \in Conns, ReadFails(c)
  PROVE  SInv'
  <1> USE DEF SInv, ReadFails, engine
  <1>1. registry' \in [Sessions -> SUBSET Conns]
        /\ \A s \in Sessions : registry'[s] \subseteq registry[s] \ {c}
    <2>1. CASE bound[c] = None
      BY <2>1 DEF Unregister, RegisteredIsAlive, TypeOK
    <2>2. CASE bound[c] # None
      BY <2>2 DEF Unregister, RegisteredIsAlive, TypeOK
    <2> QED BY <2>1, <2>2
  <1>2. RegisteredIsAlive'
    BY <1>1 DEF RegisteredIsAlive, TypeOK
  <1>3. TypeOK'
    BY <1>1 DEF TypeOK
  <1> QED BY <1>2, <1>3 DEF OnlyOwnSession, PublishesSomething, QueriesHaveSessions,
      RepliesToItsSession, TypeOK

-----------------------------------------------------------------------------
\* The goroutine that takes the messages.
LEMMA HandleSInv == ASSUME SInv, Handle PROVE SInv'
  <1> USE DEF SInv, Handle, engine
  <1> DEFINE m == Head(queue)
  <1>1. m \in Message /\ queue' \in Seq(Message)
    BY DEF TypeOK
  <1>2. m.id \in Ids /\ m.session \in Sessions /\ m.user \in Users
    BY <1>1 DEF Message
  <1>3. spent' \in [Users -> Nat]
    BY <1>2 DEF TypeOK
  <1>4. CASE UNCHANGED <<send, engine>>
    <2>1. TypeOK'
      BY <1>1, <1>3, <1>4 DEF TypeOK
    <2> QED BY <1>4, <2>1, RestKeeps, BuffersKeep DEF PublishesSomething
  <1>5. CASE /\ query' = [query EXCEPT ![m.id] = IF @ = "asking" THEN "running" ELSE @]
             /\ UNCHANGED <<send, of, told, stream, reply>>
    <2>1. query' \in [Ids -> {"none", "running", "asking", "ended"}]
          /\ \A i \in Ids : query'[i] # "none" => query[i] # "none"
      BY <1>2, <1>5 DEF TypeOK
    <2>2. TypeOK'
      BY <1>1, <1>3, <1>5, <2>1 DEF TypeOK
    <2> QED BY <1>5, <2>1, <2>2, RestKeeps, BuffersKeep DEF PublishesSomething
  <1>6. CASE /\ \E c \in Emitters(m.session) :
                   send' = [send EXCEPT ![c] = TrySend(@, m.session)]
             /\ UNCHANGED engine
    <2>1. PICK c \in registry[m.session] : send' = [send EXCEPT ![c] = TrySend(@, m.session)]
      BY <1>6 DEF Emitters
    <2>2. c \in Conns /\ bound[c] = m.session
      BY <1>2, <2>1 DEF RegisteredIsAlive, TypeOK
    <2>3. /\ send' \in [Conns -> Seq(Frame)] /\ \A d \in Conns : Len(send'[d]) <= SendBuf
          /\ OnlyOwnSession'
      BY <2>1, <2>2, PushKeeps
    <2>4. TypeOK'
      BY <1>1, <1>3, <1>6, <2>3 DEF TypeOK
    <2> QED BY <1>6, <2>3, <2>4, RestKeeps DEF PublishesSomething
  <1>7. CASE /\ query' = [query EXCEPT ![m.id] = "running"]
             /\ of' = [of EXCEPT ![m.id] = m.session]
             /\ reply' = [reply EXCEPT ![m.id] = "choosing"]
             /\ UNCHANGED <<send, told, stream>>
    <2>0. "choosing" \notin Conns
      BY DEF ReplyStates
    <2>1. /\ \A i \in Ids : query'[i] = IF i = m.id THEN "running" ELSE query[i]
          /\ \A i \in Ids : of'[i] = IF i = m.id THEN m.session ELSE of[i]
          /\ \A i \in Ids : reply'[i] = IF i = m.id THEN "choosing" ELSE reply[i]
      BY <1>2, <1>7 DEF TypeOK
    <2>2. TypeOK'
      <3>1. /\ query' \in [Ids -> {"none", "running", "asking", "ended"}]
            /\ of' \in [Ids -> Sessions \cup {None}] /\ reply' \in [Ids -> ReplyStates \cup Conns]
        BY <1>2, <1>7 DEF TypeOK, ReplyStates
      <3> QED BY <1>1, <1>3, <1>7, <3>1 DEF TypeOK
    <2>3. QueriesHaveSessions' /\ RepliesToItsSession'
      BY <1>2, <2>0, <2>1 DEF QueriesHaveSessions, RepliesToItsSession
    <2> QED BY <1>7, <2>2, <2>3 DEF OnlyOwnSession, RegisteredIsAlive, PublishesSomething
  <1> QED BY <1>4, <1>5, <1>6, <1>7

LEMMA ReplySInv ==
  ASSUME SInv, NEW m \in Ids, Choose(m) \/ Forward(m) \/ ReplyEnds(m)
  PROVE  SInv'
  <1> USE DEF SInv, conns, ReplyStates
  <1>1. CASE Choose(m)
    <2>0. of[m] \in Sessions
      BY <1>1 DEF Choose, QueriesHaveSessions
    <2>1. PICK r \in {"draining"} \cup registry[of[m]] : reply' = [reply EXCEPT ![m] = r]
      BY <1>1 DEF Choose, DrainsStream, Emitters
    <2>2. r \in Conns => bound[r] = of[m]
      BY <2>0, <2>1 DEF RegisteredIsAlive
    <2>3. \A i \in Ids : reply'[i] = IF i = m THEN r ELSE reply[i]
      BY <2>1 DEF TypeOK
    <2>4. RepliesToItsSession' /\ QueriesHaveSessions'
      BY <1>1, <2>0, <2>2, <2>3 DEF RepliesToItsSession, QueriesHaveSessions, Choose
    <2>5. TypeOK'
      BY <1>1, <2>0, <2>1 DEF Choose, TypeOK
    <2> QED BY <1>1, <2>4, <2>5 DEF Choose, OnlyOwnSession, RegisteredIsAlive, PublishesSomething
  <1>2. CASE Forward(m)
    <2>1. stream' \in [Ids -> Nat]
      <3>1. stream \in [Ids -> Nat]
        BY DEF TypeOK
      <3>2. stream[m] > 0 /\ stream' = [stream EXCEPT ![m] = stream[m] - 1]
        BY <1>2 DEF Forward
      <3>3. stream[m] \in Nat
        BY <3>1
      <3>4. stream[m] - 1 \in Nat
        BY <3>2, <3>3
      <3> HIDE DEF SInv
      <3> QED BY <3>1, <3>2, <3>4
    <2>2. CASE reply[m] \in Conns
      <3>1. send' = [send EXCEPT ![reply[m]] = TrySend(@, of[m])] /\ bound[reply[m]] = of[m]
            /\ bound' = bound
        BY <1>2, <2>2 DEF Forward, RepliesToItsSession
      <3>2. /\ send' \in [Conns -> Seq(Frame)] /\ \A d \in Conns : Len(send'[d]) <= SendBuf
            /\ OnlyOwnSession'
        BY <2>2, <3>1, PushKeeps
      <3> QED BY <1>2, <2>1, <3>2 DEF Forward, TypeOK, RegisteredIsAlive, PublishesSomething,
          QueriesHaveSessions, RepliesToItsSession
    <2>3. CASE reply[m] \notin Conns
      BY <1>2, <2>1, <2>3 DEF Forward, TypeOK, OnlyOwnSession, RegisteredIsAlive,
         PublishesSomething, QueriesHaveSessions, RepliesToItsSession
    <2> QED BY <2>2, <2>3
  <1>3. CASE ReplyEnds(m)
    <2>1. \A i \in Ids : reply'[i] = IF i = m THEN "done" ELSE reply[i]
      BY <1>3 DEF ReplyEnds, TypeOK
    <2>2. TypeOK'
      BY <1>3 DEF ReplyEnds, TypeOK
    <2>3. RepliesToItsSession' /\ QueriesHaveSessions'
      BY <1>3, <2>1 DEF ReplyEnds, RepliesToItsSession, QueriesHaveSessions, TypeOK
    <2> QED BY <1>3, <2>2, <2>3 DEF ReplyEnds, OnlyOwnSession, RegisteredIsAlive,
        PublishesSomething
  <1> QED BY <1>1, <1>2, <1>3

LEMMA EngineSInv ==
  ASSUME SInv, NEW m \in Ids, Emit(m) \/ Ask(m) \/ Finish(m)
  PROVE  SInv'
  <1>1. CASE Emit(m)
    <2>1. told' \in [Ids -> Nat] /\ stream' \in [Ids -> Nat]
      <3>1. told \in [Ids -> Nat] /\ stream \in [Ids -> Nat]
        BY DEF SInv, TypeOK
      <3>2. told' = [told EXCEPT ![m] = @ + 1] /\ stream' = [stream EXCEPT ![m] = @ + 1]
        BY <1>1 DEF Emit
      <3> QED BY <3>1, <3>2
    <2>2. TypeOK'
      BY <1>1, <2>1 DEF SInv, Emit, TypeOK, conns
    <2> QED BY <1>1, <2>2, RestKeeps, BuffersKeep DEF Emit, SInv, PublishesSomething, conns
  <1>2. CASE Ask(m) \/ Finish(m)
    <2>1. query' \in [Ids -> {"none", "running", "asking", "ended"}]
          /\ \A i \in Ids : query'[i] # "none" => query[i] # "none"
      BY <1>2 DEF SInv, Ask, Finish, TypeOK
    <2>2. UNCHANGED <<conns, queue, open, panicked, handler, spent, of, told, stream, reply,
                      answered, sent, stage>>
      BY <1>2 DEF Ask, Finish
    <2>3. TypeOK'
      BY <2>1, <2>2 DEF SInv, TypeOK, conns
    <2> QED BY <2>1, <2>2, <2>3, RestKeeps, BuffersKeep DEF SInv, PublishesSomething, conns
  <1> QED BY <1>1, <1>2

LEMMA CloseSInv ==
  ASSUME SInv,
         \/ Signal \/ CloseAll \/ CloseMessages \/ HandlerExits
         \/ \E u \in Users : NextWindow(u)
         \/ UNCHANGED vars
  PROVE  SInv'
  <1>1. CASE CloseAll
    <2>1. TypeOK'
      BY <1>1 DEF SInv, CloseAll, TypeOK, engine
    <2>2. OnlyOwnSession' /\ RegisteredIsAlive'
      BY <1>1, BuffersKeep DEF SInv, CloseAll, RegisteredIsAlive
    <2> QED BY <1>1, <2>1, <2>2 DEF SInv, CloseAll, engine, PublishesSomething,
        QueriesHaveSessions, RepliesToItsSession
  <1>2. CASE Signal \/ CloseMessages \/ HandlerExits \/ \E u \in Users : NextWindow(u)
    <2>1. UNCHANGED <<conns, queue, panicked, engine, answered, sent>>
      BY <1>2 DEF Signal, CloseMessages, HandlerExits, NextWindow
    <2>2. /\ open' \in BOOLEAN /\ handler' \in BOOLEAN
          /\ stage' \in {"up", "cancelled", "swept", "closed"}
      BY <1>2 DEF SInv, TypeOK, Signal, CloseMessages, HandlerExits, NextWindow
    <2>3. spent' \in [Users -> Nat]
      BY <1>2 DEF SInv, TypeOK, Signal, CloseMessages, HandlerExits, NextWindow
    <2>4. TypeOK'
      BY <2>1, <2>2, <2>3 DEF SInv, TypeOK, conns, engine
    <2> QED BY <2>1, <2>4, RestKeeps, BuffersKeep DEF SInv, PublishesSomething, conns, engine
  <1>3. CASE UNCHANGED vars
    <2>1. TypeOK'
      BY <1>3 DEF vars, conns, engine, SInv, TypeOK
    <2> QED BY <1>3, <2>1, RestKeeps, BuffersKeep DEF vars, conns, engine, SInv,
        PublishesSomething
  <1> QED BY <1>1, <1>2, <1>3

LEMMA NextSInv == SInv /\ [Next]_vars => SInv'
  BY CreateSInv, TalkSInv, SaySInv, PublishSInv, ReadFailsSInv, HandleSInv, ReplySInv, EngineSInv,
     CloseSInv DEF Next

LEMMA SpecSInv == Spec => []SInv
  BY InitSInv, NextSInv, PTL DEF Spec

-----------------------------------------------------------------------------
\* Every variable keeps its type, and no send buffer outgrows its capacity.
THEOREM SocketTypes == Spec => []TypeOK
  BY SpecSInv, PTL DEF SInv

\* A client is shown the events of its own session only: a connection is bound once, Reply chooses
\* among the connections of the session, and goes on writing to the one it chose.
THEOREM OnlyItsSessionIsShown == Spec => []OnlyOwnSession
  BY SpecSInv, PTL DEF SInv

\* The registry holds living connections only, whatever the order of session.create, the end of a
\* reader and closeAll.
THEOREM TheRegistryIsAlive == Spec => []RegisteredIsAlive
  BY SpecSInv, PTL DEF SInv
=============================================================================
