--------------------------- MODULE PlanWriter_proofs ---------------------------
(***************************************************************************)
(* Proofs about PlanWriter for any tasks, callers, operations, number of    *)
(* writers, capacity of their queues and number of faults.                  *)
(***************************************************************************)
EXTENDS PlanWriter, TLAPS

USE PlanWriterAssumption DEF PlanWriterAssumption, Writers

Distinct(q) == \A k, l \in DOMAIN q : q[k] = q[l] => k = l

\* A caller that is not idle has its operation and its writer.
CallersAreBound == \A c \in Callers : pc[c] # "idle" => op[c] \in Operations /\ mine[c] \in 1..started

\* Only the writer in the registry applies changes, and the one that StopAll waits for;
\* writers are started one after the other.
OneWriter ==
  /\ stopping \in {"stop", "wait"} => taken # 0
  /\ \A i \in Writers : loop[i] \in {"select", "save"} =>
       i = current \/ (stopping \in {"stop", "wait"} /\ i = taken)
  /\ \A i \in Writers : loop[i] = "none" <=> i > started

\* A writer has a change in hand while it saves.
HandsAreFull ==
  \A i \in Writers : /\ loop[i] = "save" => cur[i] # None
                     /\ loop[i] # "save" => cur[i] = None /\ draft[i] = None

\* One writer saves at a time, and holds what it makes of the file as it still is.
DraftIsFresh ==
  ~raced => \A i \in Writers : loop[i] = "save" =>
    /\ draft[i] = Handled(plan, op[cur[i]])
    /\ \A j \in Writers : loop[j] = "save" => i = j

\* A change is in one hand at a time.
OnceInHand == \A i \in Writers : Distinct(queue[i]) /\ cur[i] \notin Range(queue[i])

WaitersArePending ==
  /\ \A c \in Callers : pc[c] = "wait" <=> \E i \in Writers : c \in Pending(i)
  /\ \A i \in Writers : \A c \in Pending(i) : mine[c] = i

ToldAsApplied ==
  ~raced => \A c \in Callers :
    /\ pc[c] = "answered" => applied[c] = IF answer[c] = "ok" THEN 1 ELSE 0
    /\ pc[c] # "answered" => applied[c] = 0

PlanIsValid == ~raced /\ plan # None => Valid(plan)

WriterInv ==
  /\ TypeOK /\ PlanIsValid /\ CallersAreBound /\ OneWriter /\ HandsAreFull /\ DraftIsFresh
  /\ OnceInHand /\ WaitersArePending /\ ToldAsApplied

-----------------------------------------------------------------------------
\* What the operators return.

LEMMA AppendFacts ==
  ASSUME NEW S, NEW q \in Seq(S), NEW e \in S
  PROVE  /\ Append(q, e) \in Seq(S) /\ Len(Append(q, e)) = Len(q) + 1
         /\ Range(Append(q, e)) = Range(q) \cup {e}
         /\ Distinct(q) /\ e \notin Range(q) => Distinct(Append(q, e))
  <1> DEFINE r == Append(q, e)
  <1>1. /\ r \in Seq(S) /\ Len(r) = Len(q) + 1 /\ Len(q) \in Nat
        /\ DOMAIN r = 1..(Len(q) + 1) /\ DOMAIN q = 1..Len(q)
        /\ \A k \in 1..Len(q) : r[k] = q[k]
        /\ r[Len(q) + 1] = e
    OBVIOUS
  <1> HIDE DEF r
  <1>2. \A k \in DOMAIN r : k \in DOMAIN q \/ k = Len(q) + 1
    BY <1>1
  <1>3. Range(r) = Range(q) \cup {e}
    BY <1>1, <1>2 DEF Range
  <1>4. Distinct(q) /\ e \notin Range(q) => Distinct(r)
    BY <1>1, <1>2 DEF Distinct, Range
  <1> QED BY <1>1, <1>3, <1>4 DEF r

LEMMA TailFacts ==
  ASSUME NEW S, NEW q \in Seq(S), q # <<>>
  PROVE  /\ Tail(q) \in Seq(S) /\ Len(Tail(q)) = Len(q) - 1 /\ Head(q) \in S
         /\ Head(q) \in Range(q)
         /\ Distinct(q) => Distinct(Tail(q)) /\ Range(Tail(q)) = Range(q) \ {Head(q)}
  <1> DEFINE r == Tail(q)
  <1>1. /\ r \in Seq(S) /\ Len(r) = Len(q) - 1 /\ Len(q) \in Nat \ {0}
        /\ DOMAIN r = 1..(Len(q) - 1) /\ DOMAIN q = 1..Len(q)
        /\ \A k \in 1..(Len(q) - 1) : r[k] = q[k + 1]
        /\ Head(q) = q[1] /\ q[1] \in S
    OBVIOUS
  <1> HIDE DEF r
  <1>2. ASSUME Distinct(q)
        PROVE  Distinct(r) /\ Range(r) = Range(q) \ {q[1]}
    <2>1. \A k \in DOMAIN r : k + 1 \in DOMAIN q /\ k + 1 # 1 /\ r[k] = q[k + 1]
      BY <1>1
    <2>2. \A k \in DOMAIN q : k # 1 => k - 1 \in DOMAIN r /\ r[k - 1] = q[k]
      BY <1>1
    <2>3. 1 \in DOMAIN q
      BY <1>1
    <2>4. \A k, l \in DOMAIN r : r[k] = r[l] => k = l
      <3> SUFFICES ASSUME NEW k \in DOMAIN r, NEW l \in DOMAIN r, r[k] = r[l] PROVE k = l
        OBVIOUS
      <3>1. k + 1 = l + 1
        BY <1>2, <2>1 DEF Distinct
      <3> QED BY <1>1, <3>1
    <2>5. Range(r) = Range(q) \ {q[1]}
      BY <1>2, <2>1, <2>2, <2>3 DEF Distinct, Range
    <2> QED BY <2>4, <2>5 DEF Distinct
  <1>3. q[1] \in Range(q)
    BY <1>1 DEF Range
  <1> QED BY <1>1, <1>2, <1>3 DEF r

LEMMA PendingFacts ==
  ASSUME TypeOK, NEW i \in Writers
  PROVE  /\ \A c : c \in Pending(i) <=> c \in Range(queue[i]) \/ (c = cur[i] /\ c # None)
         /\ Pending(i) \subseteq Callers /\ Range(queue[i]) \subseteq Callers
  <1>1. queue[i] \in Seq(Callers) /\ cur[i] \in Callers \cup {None}
    BY DEF TypeOK
  <1>2. \A k \in DOMAIN queue[i] : queue[i][k] \in Callers
    BY <1>1
  <1> QED BY <1>1, <1>2 DEF Pending, Range

\* A change makes a table of a table, or is refused.
LEMMA ChangeFacts ==
  ASSUME NEW p \in Tables, NEW o \in Operations
  PROVE  Change(p, o) \in Tables \cup {None}
  <1>1. o \in Ops
    OBVIOUS
  <1>2. CASE o \in [kind : {"create"}, task : Tasks, deps : SUBSET Tasks]
    <2>1. Fresh(o.deps) \in Entries
      BY <1>2 DEF Fresh, Entries, Statuses
    <2> QED BY <1>2, <2>1 DEF Change, Create, Tables
  <1>3. CASE o \in [kind : {"status"}, task : Tasks, status : Statuses, ref : BOOLEAN]
    <2>1. o.kind = "status" /\ o.task \in Tasks /\ o.status \in Statuses /\ o.ref \in BOOLEAN
      BY <1>3
    <2>2. Change(p, o) = UpdateStatus(p, o)
      BY <2>1 DEF Change
    <2>3. CASE p[o.task] \in Entries
      <3>1. Told(p[o.task], o) \in Entries
        BY <2>1, <2>3 DEF Entries, Told
      <3> QED BY <2>1, <2>2, <3>1 DEF UpdateStatus, Tables
    <2> QED BY <2>1, <2>2, <2>3 DEF UpdateStatus, Tables
  <1>4. CASE o \in [kind : {"wipe"}, task : Tasks]
    <2>1. o.kind = "wipe" /\ o.task \in Tasks
      BY <1>4
    <2>2. Change(p, o) = WipeForRetry(p, o)
      BY <2>1 DEF Change
    <2>3. CASE p[o.task] \in Entries
      <3>1. Again(p[o.task]) \in Entries
        <4>1. p[o.task].attempt + 1 \in Nat /\ "pending" \in Statuses
          BY <2>3 DEF Entries, Statuses
        <4> QED BY <2>3, <4>1 DEF Entries, Again
      <3> QED BY <2>1, <2>2, <3>1 DEF WipeForRetry, Tables
    <2> QED BY <2>1, <2>2, <2>3 DEF WipeForRetry, Tables
  <1> QED BY <1>1, <1>2, <1>3, <1>4 DEF Ops

LEMMA HandledFacts ==
  ASSUME NEW p \in Tables \cup {None}, NEW o \in Operations
  PROVE  /\ Handled(p, o) \in Tables \cup {None}
         /\ Handled(p, o) # None => /\ p # None /\ Valid(Handled(p, o))
                                   /\ FrozenStays(p, Handled(p, o))
  BY ChangeFacts DEF Handled

-----------------------------------------------------------------------------
LEMMA InitWriter == Init => WriterInv
  <1> SUFFICES ASSUME Init PROVE WriterInv
    OBVIOUS
  <1>1. TypeOK
    <2>1. queue \in [Writers -> Seq(Callers)] /\ \A i \in Writers : Len(queue[i]) <= Queue
      <3>1. <<>> \in Seq(Callers) /\ Len(<<>>) = 0
        OBVIOUS
      <3> QED BY <3>1 DEF Init
    <2>2. dirs \in [Tasks -> {None, "empty", "full"}] /\ plan \in Tables \cup {None}
      BY DEF Init
    <2>3. /\ current \in 0..started /\ started \in 0..MaxWriters /\ taken \in 0..started
          /\ asked \in 0..MaxCalls /\ faults \in 0..MaxFaults
      BY DEF Init
    <2>4. /\ mine \in [Callers -> 0..started] /\ applied \in [Callers -> Nat]
          /\ draft \in [Writers -> Tables \cup {None}]
      BY DEF Init
    <2> QED BY <2>1, <2>2, <2>3, <2>4 DEF Init, TypeOK
  <1>2. PlanIsValid /\ CallersAreBound /\ ToldAsApplied
    BY PlansAssumption DEF Init, PlanIsValid, PlansAssumption, CallersAreBound, ToldAsApplied
  <1>3. OneWriter /\ HandsAreFull /\ DraftIsFresh
    BY DEF Init, OneWriter, HandsAreFull, DraftIsFresh
  <1>4. \A i \in Writers : queue[i] = <<>> /\ DOMAIN queue[i] = {} /\ cur[i] = None
    <2>1. DOMAIN <<>> = {}
      OBVIOUS
    <2> QED BY <2>1 DEF Init
  <1>5. OnceInHand
    BY <1>4 DEF OnceInHand, Distinct, Range
  <1>6. WaitersArePending
    BY <1>4 DEF Init, WaitersArePending, Pending, Range
  <1> QED BY <1>1, <1>2, <1>3, <1>5, <1>6 DEF WriterInv

\* Steps that leave alone what is queued and what is being saved.
LEMMA HandsKeep ==
  ASSUME WriterInv, UNCHANGED <<plan, queue, cur, draft, raced>>,
         \A i \in Writers : loop'[i] = "save" <=> loop[i] = "save",
         \A c \in Callers : /\ pc'[c] = "wait" <=> pc[c] = "wait"
                            /\ pc[c] = "wait" => op'[c] = op[c] /\ mine'[c] = mine[c]
  PROVE  PlanIsValid' /\ HandsAreFull' /\ DraftIsFresh' /\ OnceInHand' /\ WaitersArePending'
  <1>1. \A i \in Writers : Pending(i)' = Pending(i) /\ Range(queue'[i]) = Range(queue[i])
    BY DEF Pending
  <1>2. \A i \in Writers : \A c \in Pending(i) : c \in Callers /\ pc[c] = "wait" /\ mine[c] = i
    BY PendingFacts DEF WriterInv, WaitersArePending
  <1>3. WaitersArePending'
    <2>1. \A c \in Callers : pc'[c] = "wait" <=> \E i \in Writers : c \in Pending(i)
      BY DEF WriterInv, WaitersArePending
    <2>2. \A i \in Writers : \A c \in Pending(i) : mine'[c] = i
      BY <1>2
    <2> QED BY <1>1, <2>1, <2>2 DEF WaitersArePending
  <1>4. DraftIsFresh'
    <2>1. ASSUME NEW i \in Writers, loop[i] = "save" PROVE op'[cur[i]] = op[cur[i]]
      <3>1. cur[i] \in Pending(i)
        BY <2>1 DEF WriterInv, HandsAreFull, Pending
      <3> QED BY <1>2, <3>1
    <2> QED BY <2>1 DEF WriterInv, DraftIsFresh
  <1>5. PlanIsValid' /\ HandsAreFull' /\ OnceInHand'
    BY <1>1 DEF WriterInv, PlanIsValid, HandsAreFull, OnceInHand
  <1> QED BY <1>3, <1>4, <1>5

\* A step of a caller that is not waiting and does not come to wait.
LEMMA CallerKeeps ==
  ASSUME WriterInv, NEW c \in Callers, UNCHANGED <<plan, writers, shutdown>>,
         NEW s \in {"idle", "check", "send", "answered"}, pc' = [pc EXCEPT ![c] = s],
         pc[c] \notin {"idle", "wait"}, asked' \in 0..MaxCalls, faults' \in 0..MaxFaults,
         dirs' \in [Tasks -> {None, "empty", "full"}],
         op' \in [Callers -> Operations \cup {None}], mine' \in [Callers -> 0..started],
         answer' \in [Callers -> {None, "ok", "error"}], applied' \in [Callers -> Nat],
         \A d \in Callers : d # c => /\ op'[d] = op[d] /\ mine'[d] = mine[d]
                                     /\ answer'[d] = answer[d] /\ applied'[d] = applied[d],
         s # "idle" => /\ op'[c] = op[c] /\ mine'[c] = mine[c] /\ applied'[c] = applied[c]
                       /\ pc[c] # "answered",
         s = "idle" => applied'[c] = 0,
         s = "answered" => answer'[c] = "error"
  PROVE  WriterInv'
  <1>1. \A d \in Callers : pc'[d] = IF d = c THEN s ELSE pc[d]
    BY DEF WriterInv, TypeOK
  <1>2. /\ PlanIsValid' /\ OneWriter' /\ HandsAreFull' /\ DraftIsFresh' /\ OnceInHand'
        /\ WaitersArePending'
    <2>1. PlanIsValid' /\ HandsAreFull' /\ DraftIsFresh' /\ OnceInHand' /\ WaitersArePending'
      BY <1>1, HandsKeep DEF writers, shutdown
    <2> QED BY <2>1 DEF WriterInv, OneWriter, writers, shutdown
  <1>3. TypeOK'
    BY DEF WriterInv, TypeOK, writers, shutdown
  <1>4. CallersAreBound' /\ ToldAsApplied'
    BY <1>1 DEF WriterInv, CallersAreBound, ToldAsApplied, writers, shutdown
  <1> QED BY <1>2, <1>3, <1>4 DEF WriterInv

LEMMA CallerWriter ==
  ASSUME WriterInv, NEW c \in Callers,
         Directory(c) \/ CheckStopped(c) \/ GiveUp(c) \/ Finish(c)
  PROVE  WriterInv'
  <1>0. /\ asked \in 0..MaxCalls /\ faults \in 0..MaxFaults
        /\ dirs \in [Tasks -> {None, "empty", "full"}]
        /\ op \in [Callers -> Operations \cup {None}] /\ mine \in [Callers -> 0..started]
        /\ answer \in [Callers -> {None, "ok", "error"}] /\ applied \in [Callers -> Nat]
        /\ started \in Nat
    BY DEF WriterInv, TypeOK
  <1>1. ASSUME Over(c)
        PROVE  /\ op' \in [Callers -> Operations \cup {None}] /\ mine' \in [Callers -> 0..started]
               /\ answer' \in [Callers -> {None, "ok", "error"}] /\ applied' \in [Callers -> Nat]
               /\ \A d \in Callers : d # c => /\ op'[d] = op[d] /\ mine'[d] = mine[d]
                                            /\ answer'[d] = answer[d] /\ applied'[d] = applied[d]
               /\ pc' = [pc EXCEPT ![c] = "idle"] /\ applied'[c] = 0
    BY <1>0, <1>1 DEF Over
  <1>2. CASE Directory(c)
    <2>1. dirs' \in [Tasks -> {None, "empty", "full"}] /\ faults' \in 0..MaxFaults
      BY <1>0, <1>2 DEF Directory
    <2>2. CASE Over(c)
      <3>1. asked' = asked /\ UNCHANGED <<plan, writers, shutdown>> /\ pc[c] = "dir"
        BY <1>2 DEF Directory
      <3> QED BY <1>0, <1>1, <2>1, <2>2, <3>1, CallerKeeps
    <2>3. CASE pc' = [pc EXCEPT ![c] = "check"] /\ UNCHANGED <<op, mine, answer, applied, faults>>
      <3>1. asked' = asked /\ UNCHANGED <<plan, writers, shutdown>> /\ pc[c] = "dir"
        BY <1>2 DEF Directory
      <3> QED BY <1>0, <2>1, <2>3, <3>1, CallerKeeps
    <2> QED BY <1>2, <2>2, <2>3 DEF Directory
  <1>3. CASE CheckStopped(c) \/ GiveUp(c)
    <2>1. PICK s \in {"send", "answered"} :
            /\ pc' = [pc EXCEPT ![c] = s]
            /\ answer' = IF s = "send" THEN answer ELSE [answer EXCEPT ![c] = "error"]
      BY <1>3 DEF CheckStopped, GiveUp, Refuse
    <2>2. answer' \in [Callers -> {None, "ok", "error"}]
          /\ (\A d \in Callers : d # c => answer'[d] = answer[d])
          /\ (s = "answered" => answer'[c] = "error")
      BY <1>0, <2>1
    <2>3. /\ pc[c] \in {"check", "send"}
          /\ UNCHANGED <<files, writers, op, mine, applied, shutdown, asked, faults>>
      BY <1>3 DEF CheckStopped, GiveUp
    <2> QED BY <1>0, <2>1, <2>2, <2>3, CallerKeeps DEF files
  <1>4. CASE Finish(c)
    <2>1. dirs' \in [Tasks -> {None, "empty", "full"}]
      BY <1>0, <1>4 DEF Finish
    <2>2. /\ Over(c) /\ pc[c] = "answered"
          /\ UNCHANGED <<plan, writers, shutdown, asked, faults>>
      BY <1>4 DEF Finish
    <2> QED BY <1>0, <1>1, <2>1, <2>2, CallerKeeps
  <1> QED BY <1>2, <1>3, <1>4

LEMMA CallWriter ==
  ASSUME WriterInv, NEW c \in Callers, NEW o \in Operations, Call(c, o)
  PROVE  WriterInv'
  <1>1. /\ \A d \in Callers : d # c => /\ pc'[d] = pc[d] /\ op'[d] = op[d]
                                       /\ mine'[d] = mine[d]
        /\ pc'[c] \in {"check", "dir"} /\ op'[c] = o
        /\ pc[c] = "idle" /\ UNCHANGED <<answer, applied, shutdown>>
    BY DEF Call, Get, StartWriter, WriterInv, TypeOK, shutdown
  <1>t. /\ pc' \in [Callers -> {"idle", "dir", "check", "send", "wait", "answered"}]
        /\ op' \in [Callers -> Operations \cup {None}]
        /\ answer' \in [Callers -> {None, "ok", "error"}] /\ applied' \in [Callers -> Nat]
        /\ asked' \in 0..MaxCalls
    BY DEF Call, WriterInv, TypeOK
  <1>2. CASE current # 0 /\ mine' = [mine EXCEPT ![c] = current]
             /\ UNCHANGED <<started, current, loop>>
    <2>1. PlanIsValid' /\ HandsAreFull' /\ DraftIsFresh' /\ OnceInHand' /\ WaitersArePending'
      BY <1>1, <1>2, HandsKeep DEF Call, files, shutdown
    <2>2. OneWriter'
      BY <1>1, <1>2 DEF WriterInv, OneWriter, shutdown
    <2>3. mine' \in [Callers -> 0..started'] /\ mine'[c] \in 1..started'
      BY <1>2 DEF WriterInv, TypeOK
    <2>4. TypeOK'
      BY <1>2, <1>t, <2>3 DEF Call, files, shutdown, WriterInv, TypeOK
    <2>5. CallersAreBound' /\ ToldAsApplied'
      BY <1>1, <1>2, <2>3 DEF shutdown, WriterInv, CallersAreBound, ToldAsApplied
    <2> QED BY <2>1, <2>2, <2>4, <2>5 DEF WriterInv
  <1>3. CASE current = 0 /\ StartWriter /\ mine' = [mine EXCEPT ![c] = started + 1]
    <2>0. /\ started \in 0..MaxWriters /\ started < MaxWriters /\ started + 1 \in Writers
          /\ loop \in [Writers -> {"none", "select", "save", "idle", "drain", "end"}]
      BY <1>3 DEF WriterInv, TypeOK, StartWriter
    <2>1. \A i \in Writers : loop'[i] = IF i = started + 1 THEN "select" ELSE loop[i]
      BY <1>3, <2>0 DEF StartWriter
    <2>2. loop[started + 1] = "none"
      BY <2>0 DEF WriterInv, OneWriter
    <2>3. PlanIsValid' /\ HandsAreFull' /\ DraftIsFresh' /\ OnceInHand' /\ WaitersArePending'
      BY <1>1, <1>3, <2>1, <2>2, HandsKeep DEF Call, files, shutdown
    <2>4. OneWriter'
      <3>1. \A i \in Writers : loop[i] \in {"select", "save"} =>
              stopping \in {"stop", "wait"} /\ i = taken
        BY <1>3 DEF WriterInv, OneWriter
      <3> QED BY <1>1, <1>3, <2>0, <2>1, <3>1 DEF shutdown, WriterInv, OneWriter, StartWriter
    <2>5. mine' \in [Callers -> 0..started'] /\ mine'[c] \in 1..started'
      BY <1>3, <2>0 DEF WriterInv, TypeOK, StartWriter
    <2>6. TypeOK'
      <3>1. loop' \in [Writers -> {"none", "select", "save", "idle", "drain", "end"}]
            /\ current' \in 0..started' /\ started' \in 0..MaxWriters
        BY <1>3, <2>0 DEF StartWriter
      <3>2. taken' \in 0..started'
        <4>1. taken \in 0..started /\ taken' = taken /\ started' = started + 1
          BY <1>1, <1>3 DEF shutdown, WriterInv, TypeOK, StartWriter
        <4> QED BY <2>0, <4>1
      <3> QED BY <1>t, <2>5, <3>1, <3>2 DEF Call, files, shutdown, WriterInv, TypeOK
    <2>7. CallersAreBound' /\ ToldAsApplied'
      BY <1>1, <1>3, <2>0, <2>5 DEF shutdown, WriterInv, CallersAreBound, ToldAsApplied, StartWriter
    <2> QED BY <2>3, <2>4, <2>6, <2>7 DEF WriterInv
  <1> QED BY <1>2, <1>3 DEF Call, Get

LEMMA EnqueueWriter ==
  ASSUME WriterInv, NEW c \in Callers, Enqueue(c)
  PROVE  WriterInv'
  <1>0. PICK m \in Writers : m = mine[c]
    BY DEF WriterInv, TypeOK, CallersAreBound, Enqueue
  <1>1. /\ pc[c] = "send" /\ c # None
        /\ queue[m] \in Seq(Callers) /\ Len(queue[m]) < Queue
        /\ cur \in [Writers -> Callers \cup {None}]
    BY <1>0 DEF WriterInv, TypeOK, Enqueue
  <1>2. /\ \A i \in Writers : queue'[i] = IF i = m THEN Append(queue[m], c) ELSE queue[i]
        /\ \A d \in Callers : pc'[d] = IF d = c THEN "wait" ELSE pc[d]
    BY <1>0 DEF WriterInv, TypeOK, Enqueue
  <1>3. \A i \in Writers : c \notin Pending(i) /\ c \notin Range(queue[i]) /\ c # cur[i]
    BY <1>1, PendingFacts DEF WriterInv, WaitersArePending
  <1>4. /\ Range(queue'[m]) = Range(queue[m]) \cup {c} /\ Distinct(queue'[m])
        /\ queue'[m] \in Seq(Callers) /\ Len(queue'[m]) = Len(queue[m]) + 1
        /\ \A i \in Writers \ {m} : Range(queue'[i]) = Range(queue[i]) /\ queue'[i] = queue[i]
    <2>1. queue'[m] = Append(queue[m], c) /\ \A i \in Writers \ {m} : queue'[i] = queue[i]
      BY <1>1, <1>2
    <2>2. Distinct(queue[m]) /\ c \notin Range(queue[m])
      BY <1>1, <1>3 DEF WriterInv, OnceInHand
    <2>3. /\ Append(queue[m], c) \in Seq(Callers) /\ Len(Append(queue[m], c)) = Len(queue[m]) + 1
          /\ Range(Append(queue[m], c)) = Range(queue[m]) \cup {c}
          /\ Distinct(Append(queue[m], c))
      BY <1>1, <2>2, AppendFacts
    <2> QED BY <2>1, <2>3
  <1>5. TypeOK'
    <2>1. queue' \in [Writers -> Seq(Callers)] /\ \A i \in Writers : Len(queue'[i]) <= Queue
      <3>1. \A i \in Writers : Len(queue'[i]) <= Queue
        <4>1. Len(queue[m]) \in Nat
          BY <1>1
        <4>2. Len(queue'[m]) <= Queue
          BY <1>1, <1>4, <4>1
        <4> QED BY <1>4, <4>2 DEF WriterInv, TypeOK
      <3>2. queue' = [queue EXCEPT ![m] = Append(queue[m], c)] /\ Append(queue[m], c) \in Seq(Callers)
        BY <1>0, <1>1, <1>2, <1>4 DEF Enqueue
      <3> QED BY <3>1, <3>2 DEF WriterInv, TypeOK
    <2> QED BY <2>1 DEF Enqueue, files, shutdown, WriterInv, TypeOK
  <1>6. \A i \in Writers : \A d : d \in Pending(i)' <=> d \in Pending(i) \/ (i = m /\ d = c)
    <2>1. cur' = cur
      BY DEF Enqueue
    <2>2. Pending(m)' = Pending(m) \cup {c}
      BY <1>4, <2>1 DEF Pending
    <2>3. \A i \in Writers \ {m} : Pending(i)' = Pending(i)
      BY <1>4, <2>1 DEF Pending
    <2> QED BY <2>2, <2>3
  <1>7. WaitersArePending'
    <2>1. \A d \in Callers : pc'[d] = "wait" <=> \E i \in Writers : d \in Pending(i)'
      BY <1>1, <1>2, <1>6 DEF WriterInv, WaitersArePending
    <2>2. \A i \in Writers : \A d \in Pending(i)' : mine'[d] = i
      BY <1>0, <1>6 DEF Enqueue, WriterInv, WaitersArePending
    <2> QED BY <2>1, <2>2 DEF WaitersArePending
  <1>8. OnceInHand'
    <2>1. cur' = cur
      BY DEF Enqueue
    <2>2. \A i \in Writers : cur[i] \notin Range(queue'[i])
      BY <1>3, <1>4 DEF WriterInv, OnceInHand
    <2>3. \A i \in Writers : Distinct(queue'[i])
      BY <1>4 DEF WriterInv, OnceInHand
    <2> QED BY <2>1, <2>2, <2>3 DEF OnceInHand
  <1>9. /\ PlanIsValid' /\ CallersAreBound' /\ OneWriter' /\ HandsAreFull' /\ DraftIsFresh'
        /\ ToldAsApplied'
    <2>1. UNCHANGED <<plan, current, started, loop, cur, draft, op, mine, answer, applied,
                      stopping, taken, raced>>
      BY DEF Enqueue, files, shutdown
    <2>2. PlanIsValid' /\ OneWriter' /\ HandsAreFull' /\ DraftIsFresh'
      BY <2>1 DEF WriterInv, PlanIsValid, OneWriter, HandsAreFull, DraftIsFresh
    <2>3. CallersAreBound' /\ ToldAsApplied'
      BY <1>1, <1>2, <2>1 DEF WriterInv, CallersAreBound, ToldAsApplied
    <2> QED BY <2>2, <2>3
  <1> QED BY <1>5, <1>7, <1>8, <1>9 DEF WriterInv

LEMMA TakeWriter ==
  ASSUME WriterInv, NEW m \in Writers, Take(m)
  PROVE  WriterInv'
  <1>1. /\ queue[m] \in Seq(Callers) /\ queue[m] # <<>> /\ Len(queue[m]) <= Queue
        /\ Distinct(queue[m]) /\ cur[m] = None /\ loop[m] = "select"
        /\ plan \in Tables \cup {None}
    BY DEF WriterInv, TypeOK, HandsAreFull, OnceInHand, Take
  <1>2. PICK d \in Callers : d = Head(queue[m])
    BY <1>1, TailFacts
  <1>3. /\ Tail(queue[m]) \in Seq(Callers) /\ Len(Tail(queue[m])) = Len(queue[m]) - 1
        /\ d \in Range(queue[m]) /\ Distinct(Tail(queue[m]))
        /\ Range(Tail(queue[m])) = Range(queue[m]) \ {d}
    BY <1>1, <1>2, TailFacts
  <1>4. /\ queue' = [queue EXCEPT ![m] = Tail(queue[m])] /\ cur' = [cur EXCEPT ![m] = d]
        /\ draft' = [draft EXCEPT ![m] = Handled(plan, op[d])]
        /\ loop' = [loop EXCEPT ![m] = "save"]
        /\ raced' \in BOOLEAN /\ (~raced' => ~raced /\ ~Beside(m))
        /\ UNCHANGED <<files, current, started, stopped, stopping, taken, callers, asked, faults>>
    BY <1>2 DEF Take, WriterInv, TypeOK
  <1>5. /\ \A i \in Writers : /\ queue'[i] = IF i = m THEN Tail(queue[m]) ELSE queue[i]
                              /\ cur'[i] = IF i = m THEN d ELSE cur[i]
                              /\ draft'[i] = IF i = m THEN Handled(plan, op[d]) ELSE draft[i]
                              /\ loop'[i] = IF i = m THEN "save" ELSE loop[i]
    BY <1>4 DEF WriterInv, TypeOK
  <1>6. d # None /\ d \in Pending(m) /\ pc[d] = "wait" /\ op[d] \in Operations
    BY <1>3, PendingFacts DEF WriterInv, WaitersArePending, CallersAreBound
  <1>7. TypeOK'
    <2>1. queue' \in [Writers -> Seq(Callers)] /\ \A i \in Writers : Len(queue'[i]) <= Queue
      <3>1. Len(Tail(queue[m])) <= Queue
        <4>1. Len(queue[m]) \in Nat
          BY <1>1
        <4> QED BY <1>1, <1>3, <4>1
      <3> QED BY <1>3, <1>4, <1>5, <3>1 DEF WriterInv, TypeOK
    <2>2. Handled(plan, op[d]) \in Tables \cup {None}
      BY <1>1, <1>6, HandledFacts
    <2> QED BY <1>4, <2>1, <2>2 DEF files, callers, WriterInv, TypeOK
  <1>8. \A i \in Writers : Pending(i)' = Pending(i)
    <2>1. Pending(m)' = Pending(m)
      BY <1>1, <1>3, <1>5, <1>6 DEF Pending
    <2> QED BY <1>5, <2>1 DEF Pending
  <1>9. WaitersArePending'
    BY <1>4, <1>8 DEF callers, WriterInv, WaitersArePending
  <1>10. OnceInHand'
    BY <1>3, <1>5 DEF WriterInv, OnceInHand
  <1>11. OneWriter'
    BY <1>1, <1>4, <1>5 DEF WriterInv, OneWriter
  <1>12. HandsAreFull' /\ DraftIsFresh'
    <2>1. HandsAreFull'
      BY <1>5, <1>6 DEF WriterInv, HandsAreFull
    <2>2. ASSUME ~raced' PROVE ~raced /\ \A j \in Writers \ {m} : loop[j] # "save"
      <3>1. CASE stopping = "no"
        BY <1>1, <1>4, <2>2, <3>1 DEF WriterInv, OneWriter
      <3>2. CASE stopping # "no"
        BY <1>4, <2>2, <3>2 DEF Beside
      <3> QED BY <3>1, <3>2
    <2>3. DraftIsFresh'
      BY <1>4, <1>5, <2>2 DEF files, callers, DraftIsFresh
    <2> QED BY <2>1, <2>3
  <1>13. PlanIsValid' /\ CallersAreBound' /\ ToldAsApplied'
    BY <1>4 DEF files, callers, WriterInv, PlanIsValid, CallersAreBound, ToldAsApplied
  <1> QED BY <1>7, <1>9, <1>10, <1>11, <1>12, <1>13 DEF WriterInv

\* A step that answers caller d, whose change writer m had, and takes it from m.
LEMMA AnswerKeeps ==
  ASSUME WriterInv, NEW m \in Writers, NEW d \in Pending(m), NEW r \in {"ok", "error"},
         Reply(d, r), UNCHANGED <<op, mine>>,
         Pending(m)' = Pending(m) \ {d}, \A i \in Writers \ {m} : Pending(i)' = Pending(i)
  PROVE  /\ d \in Callers /\ pc[d] = "wait"
         /\ pc' = [pc EXCEPT ![d] = "answered"] /\ answer' = [answer EXCEPT ![d] = r]
         /\ WaitersArePending' /\ \A i \in Writers \ {m} : d \notin Pending(i)
  <1>1. d \in Callers /\ pc[d] = "wait" /\ mine[d] = m
    BY PendingFacts DEF WriterInv, WaitersArePending
  <1>2. \A i \in Writers \ {m} : d \notin Pending(i)
    BY <1>1 DEF WriterInv, WaitersArePending
  <1>3. pc' = [pc EXCEPT ![d] = "answered"] /\ answer' = [answer EXCEPT ![d] = r]
    BY <1>1 DEF Reply
  <1>4. \A c \in Callers : pc'[c] = IF c = d THEN "answered" ELSE pc[c]
    BY <1>3 DEF WriterInv, TypeOK
  <1>5. \A i \in Writers : \A c : c \in Pending(i)' <=> c \in Pending(i) /\ c # d
    BY <1>2
  <1>6. \A c \in Callers : pc'[c] = "wait" <=> \E i \in Writers : c \in Pending(i)'
    BY <1>4, <1>5 DEF WriterInv, WaitersArePending
  <1>7. \A i \in Writers : \A c \in Pending(i)' : mine'[c] = i
    BY <1>5 DEF WriterInv, WaitersArePending
  <1> QED BY <1>1, <1>2, <1>3, <1>6, <1>7 DEF WaitersArePending

\* A step that refuses the next change of a writer that does not save.
LEMMA FailKeeps ==
  ASSUME WriterInv, NEW m \in Writers, loop[m] # "save", FailNext(m),
         UNCHANGED <<files, current, started, loop, stopped, cur, draft, op, mine, applied,
                     shutdown, asked, faults>>
  PROVE  WriterInv'
  <1>0. /\ queue[m] \in Seq(Callers) /\ Len(queue[m]) <= Queue /\ Len(queue[m]) \in Nat
        /\ Distinct(queue[m]) /\ cur[m] = None /\ queue[m] # <<>>
        /\ queue \in [Writers -> Seq(Callers)]
    BY DEF WriterInv, TypeOK, HandsAreFull, OnceInHand, FailNext
  <1>1. PICK d \in Callers : d = Head(queue[m])
    BY <1>0, TailFacts
  <1>2. /\ Tail(queue[m]) \in Seq(Callers) /\ Len(Tail(queue[m])) = Len(queue[m]) - 1
        /\ d \in Range(queue[m]) /\ Distinct(Tail(queue[m]))
        /\ Range(Tail(queue[m])) = Range(queue[m]) \ {d}
    BY <1>0, <1>1, TailFacts
  <1>3. /\ queue' = [queue EXCEPT ![m] = Tail(queue[m])] /\ Reply(d, "error")
        /\ \A i \in Writers : queue'[i] = IF i = m THEN Tail(queue[m]) ELSE queue[i]
    BY <1>0, <1>1 DEF FailNext
  <1>4. Pending(m)' = Pending(m) \ {d} /\ \A i \in Writers \ {m} : Pending(i)' = Pending(i)
    BY <1>0, <1>2, <1>3 DEF Pending
  <1>5. d \in Pending(m)
    BY <1>2 DEF Pending
  <1>6. /\ pc[d] = "wait" /\ WaitersArePending'
        /\ pc' = [pc EXCEPT ![d] = "answered"] /\ answer' = [answer EXCEPT ![d] = "error"]
        /\ \A i \in Writers \ {m} : d \notin Pending(i)
    BY <1>3, <1>4, <1>5, AnswerKeeps
  <1>7. TypeOK'
    <2>1. queue' \in [Writers -> Seq(Callers)] /\ \A i \in Writers : Len(queue'[i]) <= Queue
      <3>1. Len(Tail(queue[m])) <= Queue
        BY <1>0, <1>2
      <3> QED BY <1>0, <1>2, <1>3, <3>1 DEF WriterInv, TypeOK
    <2> QED BY <1>6, <2>1 DEF files, shutdown, WriterInv, TypeOK
  <1>8. OnceInHand'
    BY <1>2, <1>3 DEF WriterInv, OnceInHand
  <1>9. PlanIsValid' /\ OneWriter' /\ HandsAreFull' /\ DraftIsFresh'
    BY DEF files, shutdown, WriterInv, PlanIsValid, OneWriter, HandsAreFull, DraftIsFresh
  <1>10. CallersAreBound' /\ ToldAsApplied'
    BY <1>6 DEF shutdown, WriterInv, TypeOK, CallersAreBound, ToldAsApplied
  <1> QED BY <1>6, <1>7, <1>8, <1>9, <1>10 DEF WriterInv

\* A step that changes only what the writers are told or do when they do not apply a change.
LEMMA WriterKeeps ==
  ASSUME WriterInv, UNCHANGED <<files, started, queue, cur, draft, callers, raced, asked, faults>>,
         TypeOK', OneWriter', \A i \in Writers : loop'[i] = "save" <=> loop[i] = "save"
  PROVE  WriterInv'
  <1>1. PlanIsValid' /\ HandsAreFull' /\ DraftIsFresh' /\ OnceInHand' /\ WaitersArePending'
    BY HandsKeep DEF files, callers
  <1>2. CallersAreBound' /\ ToldAsApplied'
    BY DEF callers, WriterInv, CallersAreBound, ToldAsApplied
  <1> QED BY <1>1, <1>2 DEF WriterInv

LEMMA DrainWriter ==
  ASSUME WriterInv, NEW m \in Writers, DrainAndFail(m)
  PROVE  WriterInv'
  <1>0. /\ loop[m] = "drain"
        /\ UNCHANGED <<files, current, started, stopped, cur, draft, op, mine, applied, shutdown,
                       asked, faults>>
    BY DEF DrainAndFail
  <1>1. CASE FailNext(m) /\ UNCHANGED loop
    BY <1>0, <1>1, FailKeeps
  <1>2. CASE loop' = [loop EXCEPT ![m] = "end"] /\ UNCHANGED <<queue, pc, answer>>
    <2>1. \A i \in Writers : loop'[i] = IF i = m THEN "end" ELSE loop[i]
      BY <1>2 DEF WriterInv, TypeOK
    <2>2. OneWriter'
      BY <1>0, <2>1 DEF shutdown, WriterInv, OneWriter
    <2>3. TypeOK'
      BY <1>0, <1>2 DEF files, shutdown, WriterInv, TypeOK
    <2> QED BY <1>0, <1>2, <2>1, <2>2, <2>3, WriterKeeps DEF callers, shutdown
  <1> QED BY <1>1, <1>2 DEF DrainAndFail

\* The shutdown: the writer that StopAll waits for applies what is queued until it ends.
LEMMA StopWriterKeeps ==
  ASSUME WriterInv, StopAll \/ StopWriter \/ FailLeft
  PROVE  WriterInv'
  <1>0. taken \in 0..started /\ current \in 0..started /\ started \in 0..MaxWriters
    BY DEF WriterInv, TypeOK
  <1>1. CASE StopAll
    <2>1. /\ stopping = "no" /\ taken' = current /\ current' = 0
          /\ stopping' = IF current = 0 THEN "done" ELSE "stop"
          /\ UNCHANGED <<files, started, loop, stopped, queue, cur, draft, callers, raced, asked,
                         faults>>
      BY <1>1 DEF StopAll
    <2>2. \A i \in Writers : loop[i] \in {"select", "save"} => i = current /\ current # 0
      BY <2>1 DEF WriterInv, OneWriter
    <2>3. OneWriter'
      BY <2>1, <2>2 DEF WriterInv, OneWriter
    <2>4. TypeOK'
      BY <1>0, <2>1 DEF files, callers, WriterInv, TypeOK
    <2> QED BY <2>1, <2>3, <2>4, WriterKeeps
  <1>2. CASE StopWriter
    <2>1. /\ stopping = "stop" /\ stopping' = "wait" /\ stopped' = [stopped EXCEPT ![taken] = TRUE]
          /\ UNCHANGED <<files, current, started, loop, queue, cur, draft, callers, taken, raced,
                         asked, faults>>
      BY <1>2 DEF StopWriter
    <2>2. OneWriter'
      BY <2>1 DEF WriterInv, OneWriter
    <2>3. TypeOK'
      BY <1>0, <2>1 DEF files, callers, WriterInv, TypeOK
    <2> QED BY <2>1, <2>2, <2>3, WriterKeeps
  <1>3. CASE FailLeft
    <2>0. /\ stopping = "wait" /\ loop[taken] = "end" /\ taken \in Writers
          /\ UNCHANGED <<files, current, started, loop, stopped, cur, draft, op, mine, applied,
                         taken, raced, asked, faults>>
      BY <1>0, <1>3 DEF FailLeft, WriterInv, OneWriter
    <2>1. CASE FailNext(taken) /\ UNCHANGED stopping
      BY <2>0, <2>1, FailKeeps DEF shutdown
    <2>2. CASE stopping' = "done" /\ UNCHANGED <<queue, pc, answer>>
      <3>1. OneWriter'
        BY <2>0, <2>2 DEF WriterInv, OneWriter
      <3>2. TypeOK'
        BY <2>0, <2>2 DEF files, WriterInv, TypeOK
      <3> QED BY <2>0, <2>2, <3>1, <3>2, WriterKeeps DEF callers
    <2> QED BY <1>3, <2>1, <2>2 DEF FailLeft
  <1> QED BY <1>1, <1>2, <1>3

\* What a save does: it is for a caller that waits, and the change was made of the file as
\* it is unless two writers have been at it at once.
LEMMA SaveIs ==
  ASSUME WriterInv, NEW m \in Writers, Save(m)
  PROVE  \E d \in Callers :
           /\ d = cur[m] /\ d \in Pending(m) /\ pc[d] = "wait" /\ op[d] \in Operations
           /\ ~raced => draft[m] = Handled(plan, op[d]) /\ applied[d] = 0
  <1>1. /\ cur[m] \in Callers \cup {None} /\ cur[m] # None /\ cur[m] \in Pending(m)
        /\ ~raced => draft[m] = Handled(plan, op[cur[m]])
    BY DEF WriterInv, TypeOK, HandsAreFull, DraftIsFresh, Save, Pending
  <1>2. cur[m] \in Callers /\ pc[cur[m]] = "wait"
    BY <1>1 DEF WriterInv, WaitersArePending
  <1> QED BY <1>1, <1>2 DEF WriterInv, CallersAreBound, ToldAsApplied

LEMMA SaveWriter ==
  ASSUME WriterInv, NEW m \in Writers, Save(m)
  PROVE  WriterInv'
  <1>1. PICK d \in Callers : /\ d = cur[m] /\ d \in Pending(m) /\ pc[d] = "wait"
                             /\ op[d] \in Operations
                             /\ ~raced => draft[m] = Handled(plan, op[d]) /\ applied[d] = 0
    BY SaveIs
  <1>2. /\ loop[m] = "save" /\ loop' = [loop EXCEPT ![m] = "select"]
        /\ cur' = [cur EXCEPT ![m] = None] /\ draft' = [draft EXCEPT ![m] = None]
        /\ UNCHANGED <<dirs, current, started, stopped, queue, op, mine, asked>>
        /\ UNCHANGED <<stopping, taken, raced>>
    BY DEF Save, shutdown
  <1>3. \A i \in Writers : /\ cur'[i] = IF i = m THEN None ELSE cur[i]
                           /\ draft'[i] = IF i = m THEN None ELSE draft[i]
                           /\ loop'[i] = IF i = m THEN "select" ELSE loop[i]
    BY <1>2 DEF WriterInv, TypeOK
  <1>4. Pending(m)' = Pending(m) \ {d} /\ \A i \in Writers \ {m} : Pending(i)' = Pending(i)
    <2>1. d \notin Range(queue[m])
      BY <1>1 DEF WriterInv, OnceInHand
    <2> QED BY <1>1, <1>2, <1>3, <2>1 DEF Pending
  <1>5. ~raced => \A i \in Writers : loop[i] = "save" => i = m
    BY <1>2 DEF WriterInv, DraftIsFresh
  <1>6. OneWriter'
    BY <1>2, <1>3 DEF WriterInv, OneWriter
  <1>7. HandsAreFull' /\ DraftIsFresh'
    BY <1>2, <1>3, <1>5 DEF WriterInv, HandsAreFull, DraftIsFresh
  <1>8. OnceInHand'
    <2>1. None \notin Range(queue[m])
      BY PendingFacts DEF WriterInv
    <2> QED BY <1>2, <1>3, <2>1 DEF WriterInv, OnceInHand
  <1>9. CASE /\ draft[m] # None /\ plan' = draft[m]
             /\ applied' = [applied EXCEPT ![d] = @ + 1] /\ Reply(d, "ok") /\ UNCHANGED faults
    <2>1. /\ WaitersArePending'
          /\ pc' = [pc EXCEPT ![d] = "answered"] /\ answer' = [answer EXCEPT ![d] = "ok"]
      BY <1>1, <1>2, <1>4, <1>9, AnswerKeeps
    <2>2. plan' \in Tables /\ (~raced => Valid(plan'))
      <3>1. /\ plan \in Tables \cup {None} /\ plan' # None /\ plan' \in Tables \cup {None}
            /\ ~raced => plan' = Handled(plan, op[d])
        BY <1>1, <1>9 DEF WriterInv, TypeOK
      <3>2. Handled(plan, op[d]) # None => Valid(Handled(plan, op[d]))
        BY <1>1, <3>1, HandledFacts
      <3> QED BY <3>1, <3>2
    <2>3. TypeOK'
      BY <1>2, <1>9, <2>1, <2>2 DEF WriterInv, TypeOK
    <2>4. PlanIsValid'
      BY <1>2, <2>2 DEF PlanIsValid
    <2>5. CallersAreBound'
      BY <1>1, <1>2, <2>1 DEF WriterInv, TypeOK, CallersAreBound
    <2>6. ToldAsApplied'
      <3>1. \A c \in Callers : /\ pc'[c] = IF c = d THEN "answered" ELSE pc[c]
                               /\ answer'[c] = IF c = d THEN "ok" ELSE answer[c]
                               /\ applied'[c] = IF c = d THEN applied[d] + 1 ELSE applied[c]
        BY <1>1, <1>9, <2>1 DEF WriterInv, TypeOK
      <3> QED BY <1>1, <1>2, <3>1 DEF WriterInv, ToldAsApplied
    <2> QED BY <1>6, <1>7, <1>8, <2>1, <2>3, <2>4, <2>5, <2>6 DEF WriterInv
  <1>10. CASE Reply(d, "error") /\ faults' \in 0..MaxFaults /\ UNCHANGED <<plan, applied>>
    <2>1. /\ WaitersArePending'
          /\ pc' = [pc EXCEPT ![d] = "answered"] /\ answer' = [answer EXCEPT ![d] = "error"]
      BY <1>1, <1>2, <1>4, <1>10, AnswerKeeps
    <2>2. TypeOK'
      BY <1>2, <1>10, <2>1 DEF WriterInv, TypeOK
    <2>3. PlanIsValid' /\ CallersAreBound'
      BY <1>1, <1>2, <1>10, <2>1 DEF WriterInv, TypeOK, PlanIsValid, CallersAreBound
    <2>4. ToldAsApplied'
      BY <1>1, <1>2, <1>10, <2>1 DEF WriterInv, TypeOK, ToldAsApplied
    <2> QED BY <1>6, <1>7, <1>8, <2>1, <2>2, <2>3, <2>4 DEF WriterInv
  <1>11. faults \in 0..MaxFaults /\ (faults < MaxFaults => faults + 1 \in 0..MaxFaults)
    BY DEF WriterInv, TypeOK
  <1> QED BY <1>1, <1>9, <1>10, <1>11 DEF Save

\* The writer that is idle or was told to stop is not saving, and stays what it was to its
\* callers.
LEMMA IdleWriter ==
  ASSUME WriterInv, NEW m \in Writers, IdleStop(m) \/ OnIdle(m) \/ SeeStopped(m)
  PROVE  WriterInv'
  <1>1. PICK s \in {"idle", "drain"} : loop' = [loop EXCEPT ![m] = s]
    BY DEF IdleStop, OnIdle, SeeStopped
  <1>2. /\ loop[m] \in {"select", "idle"} /\ (loop[m] = "idle" \/ current' = current)
        /\ current' = current \/ (current = m /\ current' = 0)
        /\ UNCHANGED <<files, started, queue, cur, draft, callers, shutdown, asked, faults>>
        /\ stopped' \in [Writers -> BOOLEAN]
    BY DEF IdleStop, OnIdle, SeeStopped, WriterInv, TypeOK
  <1>3. \A i \in Writers : loop'[i] = IF i = m THEN s ELSE loop[i]
    BY <1>1 DEF WriterInv, TypeOK
  <1>4. OneWriter'
    BY <1>2, <1>3 DEF shutdown, WriterInv, OneWriter
  <1>5. TypeOK'
    <2>1. current' \in 0..started
      BY <1>2 DEF WriterInv, TypeOK
    <2> QED BY <1>1, <1>2, <2>1 DEF files, callers, shutdown, WriterInv, TypeOK
  <1> QED BY <1>2, <1>3, <1>4, <1>5, WriterKeeps DEF shutdown

LEMMA NextWriter == WriterInv /\ [Next]_vars => WriterInv'
  <1> SUFFICES ASSUME WriterInv, [Next]_vars PROVE WriterInv'
    OBVIOUS
  <1>1. ASSUME NEW t \in Tasks, WriteFile(t) PROVE WriterInv'
    <2>1. /\ dirs' \in [Tasks -> {None, "empty", "full"}]
          /\ UNCHANGED <<plan, writers, callers, shutdown, asked, faults>>
      BY <1>1 DEF WriteFile, WriterInv, TypeOK
    <2>2. PlanIsValid' /\ HandsAreFull' /\ DraftIsFresh' /\ OnceInHand' /\ WaitersArePending'
      BY <2>1, HandsKeep DEF writers, callers, shutdown
    <2>3. TypeOK' /\ CallersAreBound' /\ OneWriter' /\ ToldAsApplied'
      BY <2>1 DEF writers, callers, shutdown, WriterInv, TypeOK, CallersAreBound, OneWriter,
                  ToldAsApplied
    <2> QED BY <2>2, <2>3 DEF WriterInv
  <1>2. ASSUME UNCHANGED vars PROVE WriterInv'
    <2>1. UNCHANGED <<files, writers, callers, shutdown, asked, faults>>
      BY <1>2 DEF vars
    <2>2. PlanIsValid' /\ HandsAreFull' /\ DraftIsFresh' /\ OnceInHand' /\ WaitersArePending'
      BY <2>1, HandsKeep DEF files, writers, callers, shutdown
    <2>3. TypeOK' /\ CallersAreBound' /\ OneWriter' /\ ToldAsApplied'
      BY <2>1 DEF files, writers, callers, shutdown, WriterInv, TypeOK, CallersAreBound, OneWriter,
                  ToldAsApplied
    <2> QED BY <2>2, <2>3 DEF WriterInv
  <1>3. ASSUME NEW c \in Callers,
               \/ \E o \in Operations : Call(c, o)
               \/ Directory(c) \/ CheckStopped(c) \/ Enqueue(c) \/ GiveUp(c) \/ Finish(c)
        PROVE  WriterInv'
    BY <1>3, CallWriter, CallerWriter, EnqueueWriter
  <1>4. ASSUME NEW i \in Writers,
               \/ Take(i) \/ Save(i) \/ IdleStop(i) \/ OnIdle(i) \/ SeeStopped(i)
               \/ DrainAndFail(i)
        PROVE  WriterInv'
    BY <1>4, TakeWriter, SaveWriter, IdleWriter, DrainWriter
  <1> QED BY <1>1, <1>2, <1>3, <1>4, StopWriterKeeps DEF Next

-----------------------------------------------------------------------------
\* The inductive invariant: what the writers hold and what they have done with it agrees with
\* what the callers wait for and were told, and with the file as it is.
THEOREM WritersInvariant == Spec => []WriterInv
  <1> QED BY InitWriter, NextWriter, PTL DEF Spec

\* What a caller of plan_update is told is what happened to the file, and the file stays a
\* valid plan, whatever stops, starts and fails in between, until the shutdown has let two
\* writers at the file at once.
THEOREM CallersAreToldTheTruth == Spec => []AnsweredAsApplied
  <1>1. WriterInv => AnsweredAsApplied
    BY DEF WriterInv, AnsweredAsApplied, PlanInv, PlanIsValid, WaitersArePending, ToldAsApplied
  <1> QED BY <1>1, WritersInvariant, PTL

\* No change of the plan is lost under another: the file changes by one whole operation of
\* a caller that waits for it, until the shutdown has let two writers at it at once.
THEOREM NoChangeIsLost == Spec => ChangesAreOperations
  <1>1. ASSUME WriterInv, [Next]_vars
        PROVE  [plan' # plan /\ ~raced =>
                  \E c \in Callers : pc[c] = "wait" /\ plan' = Handled(plan, op[c])]_vars
    <2> SUFFICES ASSUME plan' # plan, ~raced
                 PROVE  \E c \in Callers : pc[c] = "wait" /\ plan' = Handled(plan, op[c])
      OBVIOUS
    <2>1. PICK i \in Writers : Save(i)
      BY <1>1 DEF Next, vars, files, Call, Directory, CheckStopped, Enqueue, GiveUp, Finish,
                  Take, IdleStop, OnIdle, SeeStopped, DrainAndFail, StopAll, StopWriter, FailLeft,
                  WriteFile
    <2>2. plan' = draft[i]
      BY <2>1 DEF Save
    <2> QED BY <1>1, <2>1, <2>2, SaveIs
  <1> QED BY <1>1, WritersInvariant, PTL DEF Spec, ChangesAreOperations

\* Two writers are never at the file at once before the shutdown empties the registry, and
\* none but the one in the registry and the one StopAll still waits for ever is.
THEOREM OnlyTheShutdownRaces ==
  Spec => [](/\ stopping = "no" => NeverRaced
             /\ \A i \in Writers : loop[i] = "save" =>
                  i = current \/ (stopping \in {"stop", "wait"} /\ i = taken))
  <1>1. WriterInv => /\ stopping = "no" => NeverRaced
                     /\ \A i \in Writers : loop[i] = "save" =>
                          i = current \/ (stopping \in {"stop", "wait"} /\ i = taken)
    BY DEF WriterInv, OneWriter, NeverRaced
  <1> QED BY <1>1, WritersInvariant, PTL
=============================================================================
