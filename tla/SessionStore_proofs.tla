-------------------------- MODULE SessionStore_proofs --------------------------
(***************************************************************************)
(* Proofs about SessionStore for any number of Session objects, queries,   *)
(* messages, model calls and crashes.                                      *)
(***************************************************************************)
EXTENDS SessionStore, TLAPS

USE StoreAssumption DEF StoreAssumption

\* A query works on an object from the moment it is running.
RunningQueriesHold ==
  \A q \in Queries : (query[q] = "running") <=> (holds[q] # None)

\* While the session is in memory it has a live tracker and a worker, which runs until the
\* cleanup has stopped it; it has a row unless the store refused the eager save.
ActiveIsBound ==
  active # None =>
    /\ tracker # None
    /\ worker[active] = IF cleaner \in {"stopped", "evicting"} THEN "stopped" ELSE "running"

BaseInv == StoreInv /\ RunningQueriesHold /\ ActiveIsBound

\* Copies of the history form a chain: what is on disk is in the copy being written, and that
\* in the history of the active object.
CopiesGrow ==
  /\ ~row.exists => row.messages = {}
  /\ active # None => row.messages \subseteq content[active]
  /\ \A o \in Objects : saving[o] # None => /\ row.messages \subseteq saving[o]
                                            /\ saving[o] \subseteq content[o]

\* Nobody works on a session that is being cleaned up.  From the first flush on its history is
\* on the way to the disk, or there unless the store has refused it.
CleanupOwns ==
  /\ HeldSessionsStayActive
  /\ cleaner # "idle" => ~Held(active)
  /\ cleaner \in {"saved", "stopping", "stopped", "evicting"} =>
       \/ saving[active] = content[active]
       \/ /\ saving[active] = None
          /\ "messages" \notin refused => row.exists /\ row.messages = content[active]

\* A row that was never written has no metrics.
NoRowNoMetrics == ~row.exists => row.calls = 0

KeptInv == BaseInv /\ CleanupOwns /\ EvictionKeepsEverything /\ MetricsGoOn /\ NoRowNoMetrics

-----------------------------------------------------------------------------
\* Types, and who works for whom.

RowType == [exists : BOOLEAN, messages : SUBSET Messages, calls : Nat]

\* A save of the history replaces the row, or leaves it as it is when it is refused.
LEMMA SaveFacts ==
  ASSUME TypeOK, NEW C \in SUBSET Messages, SaveSession(C)
  PROVE  /\ row' \in RowType /\ refused' \subseteq {"messages", "metrics"} /\ refusals' \in Nat
         /\ row.exists => row'.exists
         /\ \/ /\ row'.exists /\ row'.messages = C /\ row'.calls = 0
            \/ row' = row /\ "messages" \in refused'
  <1>1. CASE row' = Replaced(C) /\ refused' = refused \ {"messages"} /\ UNCHANGED refusals
    BY <1>1 DEF TypeOK, Replaced, RowType
  <1>2. CASE Refuse("messages")
    BY <1>2 DEF TypeOK, Refuse, RowType
  <1> QED BY <1>1, <1>2 DEF SaveSession

\* A save of the metrics leaves the rest of the row alone.
LEMMA StatsFacts ==
  ASSUME TypeOK, tracker # None, SaveSessionStats
  PROVE  /\ row' \in RowType /\ refused' \subseteq {"messages", "metrics"} /\ refusals' \in Nat
         /\ row'.exists = row.exists /\ row'.messages = row.messages
         /\ ("messages" \in refused') <=> ("messages" \in refused)
         /\ \/ row'.calls = tracker
            \/ row' = row /\ "metrics" \in refused'
  <1>1. CASE row.exists /\ row' = [row EXCEPT !.calls = tracker]
             /\ refused' = refused \ {"metrics"} /\ UNCHANGED refusals
    BY <1>1 DEF TypeOK, RowType
  <1>2. CASE Refuse("metrics")
    BY <1>2 DEF TypeOK, Refuse, RowType
  <1>3. CASE refused' = refused \cup {"metrics"} /\ UNCHANGED <<row, refusals>>
    BY <1>3 DEF TypeOK, RowType
  <1> QED BY <1>1, <1>2, <1>3 DEF SaveSessionStats

LEMMA InitBase == Init => BaseInv
  <1> SUFFICES ASSUME Init PROVE BaseInv
    OBVIOUS
  <1>1. row \in RowType
    BY DEF Init, NoRow, RowType
  <1>2. TypeOK
    BY <1>1 DEF Init, TypeOK, RowType
  <1> QED BY <1>2 DEF Init, BaseInv, StoreInv, RunningQueriesHold, ActiveIsBound

\* GetOrCreate, for whatever the object starts with.
LEMMA EnterBase ==
  ASSUME BaseInv, NEW q \in Queries, UseActive(q) \/ Load(q) \/ Create(q)
  PROVE  BaseInv'
  <1>1. CASE UseActive(q)
    <2>1. TypeOK'
      BY <1>1 DEF BaseInv, StoreInv, TypeOK, UseActive, Enter, disk
    <2>2. RunningQueriesHold'
      BY <1>1 DEF BaseInv, StoreInv, TypeOK, RunningQueriesHold, UseActive, Enter
    <2> QED BY <1>1, <2>1, <2>2 DEF BaseInv, StoreInv, ActiveIsBound, UseActive
  <1>2. CASE Load(q) \/ Create(q)
    <2>1. PICK o \in Objects, C \in SUBSET Messages :
               /\ active = None /\ o \in Free /\ Enter(q, o) /\ active' = o
               /\ content' = [content EXCEPT ![o] = C]
               /\ worker' = [worker EXCEPT ![o] = "running"]
               /\ pending' = pending \ {o}
               /\ saving' = [saving EXCEPT ![o] = None]
      <3>1. CASE Load(q)
        <4>1. row.messages \in SUBSET Messages
          BY DEF BaseInv, StoreInv, TypeOK
        <4> QED BY <3>1, <4>1 DEF Load, Bind
      <3>2. CASE Create(q)
        BY <3>2 DEF Create, NewSession
      <3> QED BY <1>2, <3>1, <3>2
    <2>2. /\ row' \in RowType /\ tracker' \in Nat
          /\ refused' \subseteq {"messages", "metrics"} /\ refusals' \in Nat
          /\ UNCHANGED <<used, unsaved, cleaner, crashes>>
      <3>1. CASE Load(q)
        BY <3>1 DEF Load, Bind, BindTracker, BaseInv, StoreInv, TypeOK, RowType, disk
      <3>2. CASE Create(q)
        <4>1. TypeOK /\ SaveSession({})
          BY <3>2 DEF Create, NewSession, BaseInv, StoreInv
        <4>2. row' \in RowType
          BY <4>1, SaveFacts
        <4>3. tracker' \in Nat /\ UNCHANGED <<used, unsaved, cleaner, crashes>>
          BY <3>2, <4>2 DEF Create, NewSession, BindTracker, BaseInv, StoreInv, TypeOK, RowType
        <4> QED BY <4>1, <4>3, SaveFacts
      <3> QED BY <1>2, <3>1, <3>2
    <2>3. TypeOK'
      BY <2>1, <2>2 DEF BaseInv, StoreInv, TypeOK, Enter, RowType
    <2>4. RunningQueriesHold'
      BY <2>1 DEF BaseInv, StoreInv, TypeOK, RunningQueriesHold, Enter
    <2>5. worker'[o] = "running" /\ \A x \in Objects : worker'[x] = "running" => x = o
      BY <2>1 DEF BaseInv, StoreInv, TypeOK
    <2>6. \A x \in Objects : saving'[x] # None => worker'[x] = "running"
      BY <2>1 DEF BaseInv, StoreInv, TypeOK
    <2> QED BY <2>1, <2>2, <2>3, <2>4, <2>5, <2>6 DEF Enter, BaseInv, StoreInv, ActiveIsBound
  <1> QED BY <1>1, <1>2

LEMMA QueryBase ==
  ASSUME BaseInv, NEW q \in Queries, AddMessage(q) \/ RecordCall(q) \/ Finish(q)
  PROVE  BaseInv'
  <1>1. holds[q] \in Objects
    BY DEF BaseInv, StoreInv, TypeOK, RunningQueriesHold, AddMessage, RecordCall, Finish
  <1>2. CASE AddMessage(q)
    <2>1. TypeOK'
      BY <1>1, <1>2 DEF BaseInv, StoreInv, TypeOK, AddMessage, disk
    <2> QED BY <1>2, <2>1 DEF BaseInv, StoreInv, RunningQueriesHold, ActiveIsBound, AddMessage
  <1>3. CASE RecordCall(q)
    <2>1. TypeOK' /\ tracker' # None
      BY <1>3 DEF BaseInv, StoreInv, TypeOK, RecordCall, disk
    <2> QED BY <1>3, <2>1 DEF BaseInv, StoreInv, RunningQueriesHold, ActiveIsBound, RecordCall
  <1>4. CASE Finish(q)
    <2>1. /\ row' \in RowType /\ unsaved' \in BOOLEAN
          /\ refused' \subseteq {"messages", "metrics"} /\ refusals' \in Nat
      <3>1. CASE active # None /\ tracker # None
        BY <1>4, <3>1, StatsFacts DEF Finish, BaseInv, StoreInv
      <3>2. CASE ~(active # None /\ tracker # None)
        BY <1>4, <3>2 DEF Finish, BaseInv, StoreInv, TypeOK, RowType, disk
      <3> QED BY <3>1, <3>2
    <2>2. TypeOK'
      BY <1>4, <2>1 DEF BaseInv, StoreInv, TypeOK, Finish, RowType
    <2>3. RunningQueriesHold'
      BY <1>4 DEF BaseInv, StoreInv, TypeOK, RunningQueriesHold, Finish
    <2> QED BY <1>4, <2>1, <2>2, <2>3 DEF BaseInv, StoreInv, ActiveIsBound, Finish
  <1> QED BY <1>2, <1>3, <1>4

LEMMA WorkerBase ==
  ASSUME BaseInv, SaveStats \/ \E o \in Objects : BeginSave(o) \/ EndSave(o)
  PROVE  BaseInv'
  <1>1. CASE SaveStats
    <2>0. TypeOK /\ tracker # None /\ SaveSessionStats
      BY <1>1 DEF BaseInv, StoreInv, SaveStats
    <2>1. TypeOK'
      BY <1>1, <2>0, StatsFacts DEF TypeOK, SaveStats, RowType
    <2> QED BY <1>1, <2>1 DEF BaseInv, StoreInv, RunningQueriesHold, ActiveIsBound, SaveStats
  <1>2. ASSUME NEW o \in Objects, BeginSave(o) PROVE BaseInv'
    <2>1. TypeOK'
      BY <1>2 DEF BaseInv, StoreInv, TypeOK, BeginSave, disk
    <2>2. \A x \in Objects : saving'[x] # None => worker'[x] = "running"
      BY <1>2 DEF BaseInv, StoreInv, TypeOK, BeginSave
    <2> QED BY <1>2, <2>1, <2>2 DEF BaseInv, StoreInv, RunningQueriesHold, ActiveIsBound, BeginSave
  <1>3. ASSUME NEW o \in Objects, EndSave(o) PROVE BaseInv'
    <2>1. TypeOK /\ saving[o] \in SUBSET Messages /\ SaveSession(saving[o])
      BY <1>3 DEF EndSave, BaseInv, StoreInv, TypeOK
    <2>0. TypeOK'
      BY <1>3, <2>1, SaveFacts DEF TypeOK, EndSave, RowType
    <2>2. \A x \in Objects : saving'[x] # None => worker'[x] = "running"
      BY <1>3 DEF BaseInv, StoreInv, TypeOK, EndSave
    <2> QED BY <1>3, <2>0, <2>1, <2>2 DEF BaseInv, StoreInv, RunningQueriesHold, ActiveIsBound,
        EndSave
  <1> QED BY <1>1, <1>2, <1>3

LEMMA CleanupBase == ASSUME BaseInv, CleanupIdle PROVE BaseInv'
  <1>0. cleaner # "idle" => active \in Objects
    BY DEF BaseInv, StoreInv, TypeOK
  <1>1. CASE CleanupStart \/ CleanupGivesUp \/ CleanupUnflushed
    <2>1. TypeOK'
      BY <1>1 DEF BaseInv, StoreInv, TypeOK, CleanupStart, CleanupGivesUp, CleanupUnflushed, disk
    <2> QED BY <1>1, <2>1 DEF BaseInv, StoreInv, RunningQueriesHold, ActiveIsBound, CleanupStart,
        CleanupGivesUp, CleanupUnflushed
  <1>2. CASE CleanupFlush
    <2>1. TypeOK'
      BY <1>0, <1>2 DEF BaseInv, StoreInv, TypeOK, CleanupFlush, disk
    <2>2. worker[active] = "running"
      BY <1>2 DEF CleanupFlush, BaseInv, StoreInv, ActiveIsBound
    <2>3. \A x \in Objects : saving'[x] # None => worker'[x] = "running"
      BY <1>0, <1>2, <2>2 DEF BaseInv, StoreInv, TypeOK, CleanupFlush
    <2> QED BY <1>2, <2>1, <2>3 DEF BaseInv, StoreInv, RunningQueriesHold, ActiveIsBound,
        CleanupFlush
  <1>3. CASE CleanupStop
    <2>1. TypeOK'
      BY <1>0, <1>3 DEF BaseInv, StoreInv, TypeOK, CleanupStop, disk
    <2>2. \A x \in Objects : worker'[x] = IF x = active THEN "stopped" ELSE worker[x]
      BY <1>0, <1>3 DEF BaseInv, StoreInv, TypeOK, CleanupStop
    <2>3. ActiveIsBound'
      BY <1>0, <1>3, <2>2 DEF BaseInv, ActiveIsBound, CleanupStop
    <2>4. \A x \in Objects : saving'[x] # None => worker'[x] = "running"
      BY <1>3, <2>2 DEF BaseInv, StoreInv, CleanupStop
    <2> QED BY <1>0, <1>3, <2>1, <2>2, <2>3, <2>4 DEF BaseInv, StoreInv, RunningQueriesHold,
        CleanupStop
  <1>4. CASE CleanupStats
    <2>1. CASE tracker = None
      <3>1. TypeOK'
        BY <1>4, <2>1 DEF BaseInv, StoreInv, TypeOK, CleanupStats, disk
      <3> QED BY <1>4, <3>1 DEF BaseInv, StoreInv, RunningQueriesHold, ActiveIsBound, CleanupStats
    <2>2. CASE tracker # None
      <3>0. TypeOK /\ SaveSessionStats
        BY <1>4, <2>2 DEF BaseInv, StoreInv, CleanupStats
      <3>1. TypeOK'
        BY <1>4, <2>2, <3>0, StatsFacts DEF TypeOK, CleanupStats, RowType
      <3> QED BY <1>4, <3>1 DEF BaseInv, StoreInv, RunningQueriesHold, ActiveIsBound, CleanupStats
    <2> QED BY <2>1, <2>2
  <1>5. CASE Evict
    <2>1. TypeOK'
      BY <1>5 DEF BaseInv, StoreInv, TypeOK, Evict
    <2> QED BY <1>5, <2>1 DEF BaseInv, StoreInv, RunningQueriesHold, ActiveIsBound, Evict
  <1> QED BY <1>1, <1>2, <1>3, <1>4, <1>5 DEF CleanupIdle

LEMMA CrashBase == ASSUME BaseInv, Crash PROVE BaseInv'
  <1>1. TypeOK'
    <2>1. query' \in [Queries -> {"new", "running", "done"}]
      BY DEF Crash
    <2>2. /\ content' \in [Objects -> SUBSET Messages]
          /\ worker' \in [Objects -> {"none", "running", "stopped"}]
          /\ saving' \in [Objects -> {None} \cup SUBSET Messages]
          /\ holds' \in [Queries -> Objects \cup {None}]
      BY DEF Crash
    <2>3. /\ UNCHANGED <<used, row, refusals>> /\ crashes' = crashes + 1 /\ refused' = {}
          /\ active' = None /\ pending' = {} /\ tracker' = None /\ unsaved' = FALSE
          /\ cleaner' = "idle"
      BY DEF Crash
    <2>4. crashes' \in Nat /\ TypeOK
      BY <2>3 DEF BaseInv, StoreInv, TypeOK
    <2> QED BY <2>1, <2>2, <2>3, <2>4 DEF TypeOK
  <1>2. RunningQueriesHold'
    BY DEF RunningQueriesHold, Crash
  <1> QED BY <1>1, <1>2 DEF BaseInv, StoreInv, ActiveIsBound, Crash

LEMMA NextBase == BaseInv /\ [Next]_vars => BaseInv'
  <1>1. ASSUME BaseInv, UNCHANGED vars PROVE BaseInv'
    BY <1>1 DEF vars, disk, BaseInv, StoreInv, TypeOK, RunningQueriesHold, ActiveIsBound
  <1> QED BY <1>1, EnterBase, QueryBase, WorkerBase, CleanupBase, CrashBase DEF Next

\* Types, and the active session has the only worker that may write the row, whatever the
\* queries do and the store answers (session/manager.go: bindOnChange, CleanupIdle).
THEOREM OneWorkerWrites == Spec => []StoreInv
  <1>1. BaseInv => StoreInv
    BY DEF BaseInv
  <1> QED BY <1>1, InitBase, NextBase, PTL DEF Spec

-----------------------------------------------------------------------------
\* The row never loses a message.

\* The steps that write the metrics.
LEMMA MetricsWrites ==
  ASSUME TypeOK, SaveStats \/ CleanupStats \/ \E q \in Queries : Finish(q)
  PROVE  /\ row'.messages = row.messages /\ row'.exists = row.exists
         /\ ("messages" \in refused') <=> ("messages" \in refused)
         /\ \/ row' = row /\ (refused' = refused \/ "metrics" \in refused')
            \/ tracker # None /\ row'.calls = tracker
         /\ UNCHANGED <<active, content, saving, tracker>>
  <1>1. \/ UNCHANGED disk
        \/ tracker # None /\ SaveSessionStats
    BY DEF SaveStats, CleanupStats, Finish
  <1>2. UNCHANGED <<active, content, saving, tracker>>
    BY DEF SaveStats, CleanupStats, Finish
  <1>3. CASE UNCHANGED disk
    BY <1>2, <1>3 DEF disk
  <1>4. CASE tracker # None /\ SaveSessionStats
    BY <1>2, <1>4, StatsFacts
  <1> QED BY <1>1, <1>3, <1>4

LEMMA NextCopies ==
  ASSUME ~LoadFails, BaseInv, CopiesGrow, [Next]_vars
  PROVE  CopiesGrow' /\ row.messages \subseteq row'.messages
  <1> USE DEF CopiesGrow
  <1>1. ASSUME NEW q \in Queries, UseActive(q) \/ RecordCall(q)
        PROVE  CopiesGrow' /\ row.messages \subseteq row'.messages
    BY <1>1 DEF UseActive, RecordCall, disk
  <1>2. ASSUME NEW q \in Queries, Load(q) \/ Create(q)
        PROVE  CopiesGrow' /\ row.messages \subseteq row'.messages
    <2>1. PICK o \in Objects :
               /\ active = None /\ active' = o
               /\ content' = [content EXCEPT ![o] = row.messages]
               /\ saving' = [saving EXCEPT ![o] = None]
               /\ row'.messages = row.messages
               /\ row' = row \/ row'.exists
      <3>1. CASE Load(q)
        BY <3>1 DEF Load, Bind, disk
      <3>2. CASE Create(q)
        <4>1. row.messages = {} /\ TypeOK /\ SaveSession({})
          BY <3>2 DEF Create, NewSession, BaseInv, StoreInv
        <4> QED BY <3>2, <4>1, SaveFacts DEF Create, NewSession
      <3> QED BY <1>2, <3>1, <3>2
    <2>2. \A x \in Objects : saving'[x] = None
      BY <2>1 DEF BaseInv, StoreInv, TypeOK
    <2>3. content'[o] = row.messages
      BY <2>1 DEF BaseInv, StoreInv, TypeOK
    <2> QED BY <2>1, <2>2, <2>3
  <1>3. ASSUME NEW q \in Queries, AddMessage(q)
        PROVE  CopiesGrow' /\ row.messages \subseteq row'.messages
    <2>1. \A x \in Objects : content[x] \subseteq content'[x]
      BY <1>3 DEF AddMessage, BaseInv, StoreInv, TypeOK
    <2> QED BY <1>3, <2>1 DEF AddMessage, BaseInv, StoreInv, TypeOK, disk
  <1>4. ASSUME SaveStats \/ CleanupStats \/ \E q \in Queries : Finish(q)
        PROVE  CopiesGrow' /\ row.messages \subseteq row'.messages
    <2>0. TypeOK
      BY DEF BaseInv, StoreInv
    <2>1. /\ row'.messages = row.messages /\ row'.exists = row.exists
          /\ UNCHANGED <<active, content, saving>>
      BY <1>4, <2>0, MetricsWrites
    <2> QED BY <2>1
  <1>5. ASSUME NEW o \in Objects, BeginSave(o)
        PROVE  CopiesGrow' /\ row.messages \subseteq row'.messages
    <2>1. active = o
      BY <1>5 DEF BeginSave, BaseInv, StoreInv
    <2>2. \A x \in Objects : saving'[x] = IF x = o THEN content[o] ELSE saving[x]
      BY <1>5 DEF BeginSave, BaseInv, StoreInv, TypeOK
    <2> QED BY <1>5, <2>1, <2>2 DEF BeginSave, disk
  <1>6. ASSUME NEW o \in Objects, EndSave(o)
        PROVE  CopiesGrow' /\ row.messages \subseteq row'.messages
    <2>0. TypeOK /\ saving[o] \in SUBSET Messages /\ SaveSession(saving[o])
      BY <1>6 DEF EndSave, BaseInv, StoreInv, TypeOK
    <2>1. /\ row.messages \subseteq saving[o] /\ saving[o] \subseteq content[o]
          /\ row' = row \/ (row'.messages = saving[o] /\ row'.exists)
      BY <1>6, <2>0, SaveFacts DEF EndSave
    <2>2. \A x \in Objects : saving'[x] = None
      BY <1>6 DEF EndSave, BaseInv, StoreInv, TypeOK
    <2>3. active = o
      BY <1>6 DEF EndSave, BaseInv, StoreInv
    <2> QED BY <1>6, <2>1, <2>2, <2>3 DEF EndSave
  <1>7. ASSUME CleanupFlush
        PROVE  CopiesGrow' /\ row.messages \subseteq row'.messages
    <2>1. active \in Objects
      BY <1>7 DEF CleanupFlush, BaseInv, StoreInv, TypeOK
    <2>2. \A x \in Objects : saving'[x] = IF x = active THEN content[active] ELSE saving[x]
      BY <1>7, <2>1 DEF CleanupFlush, BaseInv, StoreInv, TypeOK
    <2> QED BY <1>7, <2>1, <2>2 DEF CleanupFlush, disk
  <1>8. ASSUME CleanupStart \/ CleanupGivesUp \/ CleanupUnflushed \/ CleanupStop \/ Evict
        PROVE  CopiesGrow' /\ row.messages \subseteq row'.messages
    BY <1>8 DEF CleanupStart, CleanupGivesUp, CleanupUnflushed, CleanupStop, Evict, disk
  <1>9. ASSUME Crash PROVE CopiesGrow' /\ row.messages \subseteq row'.messages
    BY <1>9 DEF Crash
  <1>10. ASSUME UNCHANGED vars PROVE CopiesGrow' /\ row.messages \subseteq row'.messages
    BY <1>10 DEF vars, disk
  <1> HIDE DEF CopiesGrow
  <1> QED BY <1>1, <1>2, <1>3, <1>4, <1>5, <1>6, <1>7, <1>8, <1>9, <1>10 DEF Next, CleanupIdle

\* What is on disk stays on disk, however saves, cleanups, reloads and crashes follow on one
\* another, and even if a query outlives the eviction of its session.  Reading the row must not
\* fail: GetOrCreate takes any error for a session that does not exist (manager.go).
THEOREM RowOnlyGrows == ~LoadFails /\ Spec => SavesLoseNothing
  <1>1. Init => CopiesGrow
    BY DEF Init, NoRow, CopiesGrow
  <1> SUFFICES ASSUME ~LoadFails PROVE Spec => SavesLoseNothing
    OBVIOUS
  <1>2. BaseInv /\ CopiesGrow /\ [Next]_vars
          => CopiesGrow' /\ [row.messages \subseteq row'.messages]_row
    BY NextCopies
  <1> QED BY <1>1, <1>2, InitBase, NextBase, PTL DEF Spec, SavesLoseNothing

-----------------------------------------------------------------------------
\* An eviction keeps everything.

LEMMA NextCleanupOwns ==
  ASSUME ~LongWaits, BaseInv, CleanupOwns, [Next]_vars
  PROVE  CleanupOwns'
  <1> USE DEF CleanupOwns, HeldSessionsStayActive, Held
  <1>0. \A q \in Queries : query[q] = "running" => /\ holds[q] = active /\ active \in Objects
                                                  /\ cleaner = "idle"
    BY DEF BaseInv, RunningQueriesHold, StoreInv, TypeOK
  <1>1. ASSUME NEW q \in Queries, UseActive(q) \/ Load(q) \/ Create(q) PROVE CleanupOwns'
    <2>1. cleaner = "idle" /\ cleaner' = "idle"
      BY <1>1 DEF UseActive, Load, Create, Bind, NewSession, Enter
    <2>2. /\ Enter(q, active') /\ active' # None
          /\ active # None => active' = active
      BY <1>1 DEF UseActive, Load, Create, Bind, NewSession
    <2>3. \A x \in Queries : holds'[x] = IF x = q THEN active' ELSE holds[x]
      BY <2>2 DEF Enter, BaseInv, StoreInv, TypeOK
    <2> QED BY <2>1, <2>2, <2>3
  <1>2. ASSUME NEW q \in Queries, AddMessage(q) \/ RecordCall(q) PROVE CleanupOwns'
    BY <1>0, <1>2 DEF AddMessage, RecordCall, disk
  <1>3. ASSUME NEW q \in Queries, Finish(q) PROVE CleanupOwns'
    <2>1. cleaner = "idle" /\ UNCHANGED <<cleaner, active>>
      BY <1>0, <1>3 DEF Finish
    <2>2. \A x \in Queries : holds'[x] = IF x = q THEN None ELSE holds[x]
      BY <1>3 DEF Finish, BaseInv, StoreInv, TypeOK
    <2> QED BY <2>1, <2>2
  <1>4. ASSUME SaveStats \/ CleanupStats PROVE CleanupOwns'
    <2>1. /\ row'.messages = row.messages /\ row'.exists = row.exists
          /\ ("messages" \in refused') <=> ("messages" \in refused)
          /\ UNCHANGED <<active, content, saving>>
      BY <1>4, MetricsWrites DEF BaseInv, StoreInv
    <2>3. UNCHANGED holds
      BY <1>4 DEF SaveStats, CleanupStats
    <2>2. cleaner' = cleaner \/ (cleaner = "stopped" /\ cleaner' = "evicting")
      BY <1>4 DEF SaveStats, CleanupStats
    <2> QED BY <2>1, <2>2, <2>3
  <1>5. ASSUME NEW o \in Objects, BeginSave(o) PROVE CleanupOwns'
    <2>1. active = o
      BY <1>5 DEF BeginSave, BaseInv, StoreInv
    <2>2. \A x \in Objects : saving'[x] = IF x = o THEN content[o] ELSE saving[x]
      BY <1>5 DEF BeginSave, BaseInv, StoreInv, TypeOK
    <2> QED BY <1>5, <2>1, <2>2 DEF BeginSave, disk
  <1>6. ASSUME NEW o \in Objects, EndSave(o) PROVE CleanupOwns'
    <2>1. active = o /\ saving[o] # None
      BY <1>6 DEF EndSave, BaseInv, StoreInv
    <2>0. TypeOK /\ saving[o] \in SUBSET Messages /\ SaveSession(saving[o])
      BY <1>6 DEF EndSave, BaseInv, StoreInv, TypeOK
    <2>2. /\ saving'[o] = None
          /\ "messages" \notin refused' => row'.exists /\ row'.messages = saving[o]
      BY <1>6, <2>0, SaveFacts DEF EndSave, TypeOK
    <2> QED BY <1>6, <2>1, <2>2 DEF EndSave
  <1>7. ASSUME CleanupStart PROVE CleanupOwns'
    BY <1>7 DEF CleanupStart, disk
  <1>8. ASSUME CleanupFlush PROVE CleanupOwns'
    <2>1. active \in Objects
      BY <1>8 DEF CleanupFlush, BaseInv, StoreInv, TypeOK
    <2>2. saving'[active] = content[active]
      BY <1>8, <2>1 DEF CleanupFlush, BaseInv, StoreInv, TypeOK
    <2> QED BY <1>8, <2>2 DEF CleanupFlush, disk
  <1>9. ASSUME CleanupGivesUp \/ CleanupUnflushed \/ CleanupStop PROVE CleanupOwns'
    BY <1>9 DEF CleanupGivesUp, CleanupUnflushed, CleanupStop, disk
  <1>10. ASSUME Evict PROVE CleanupOwns'
    BY <1>10 DEF Evict
  <1>11. ASSUME Crash PROVE CleanupOwns'
    BY <1>11 DEF Crash
  <1>12. ASSUME UNCHANGED vars PROVE CleanupOwns'
    BY <1>12 DEF vars, disk
  <1> HIDE DEF CleanupOwns
  <1> QED BY <1>1, <1>2, <1>3, <1>4, <1>5, <1>6, <1>7, <1>8, <1>9, <1>10, <1>11, <1>12
      DEF Next, CleanupIdle

\* What is on disk of the active session when it leaves memory.
LEMMA NextEviction ==
  ASSUME ~LongWaits, ~LoadFails, KeptInv, [Next]_vars
  PROVE  EvictionKeepsEverything' /\ MetricsGoOn' /\ NoRowNoMetrics'
  <1> USE DEF EvictionKeepsEverything, MetricsGoOn, NoRowNoMetrics
  <1>0. \A q \in Queries : query[q] = "running" =>
          active # None /\ cleaner = "idle" /\ tracker # None
    BY DEF KeptInv, BaseInv, RunningQueriesHold, StoreInv, TypeOK, CleanupOwns, Held,
       HeldSessionsStayActive, ActiveIsBound
  <1>1. ASSUME NEW q \in Queries, UseActive(q) \/ AddMessage(q)
        PROVE  EvictionKeepsEverything' /\ MetricsGoOn' /\ NoRowNoMetrics'
    BY <1>0, <1>1 DEF UseActive, AddMessage, Enter, KeptInv, disk
  <1>2. ASSUME NEW q \in Queries, Load(q)
        PROVE  EvictionKeepsEverything' /\ MetricsGoOn' /\ NoRowNoMetrics'
    BY <1>2 DEF Load, Bind, BindTracker, Enter, KeptInv, BaseInv, StoreInv, TypeOK, disk
  <1>3. ASSUME NEW q \in Queries, Create(q)
        PROVE  EvictionKeepsEverything' /\ MetricsGoOn' /\ NoRowNoMetrics'
    <2>1. TypeOK /\ SaveSession({}) /\ cleaner' = "idle"
      BY <1>3 DEF Create, NewSession, Enter, KeptInv, BaseInv, StoreInv
    <2>2. row'.calls = 0 /\ ~row.exists
      BY <1>3, <2>1, SaveFacts DEF Create, KeptInv
    <2>3. tracker' \in Nat
      BY <1>3, <2>2 DEF Create, NewSession, BindTracker, KeptInv, BaseInv, StoreInv, TypeOK
    <2> QED BY <2>1, <2>2, <2>3
  <1>4. ASSUME NEW q \in Queries, RecordCall(q)
        PROVE  EvictionKeepsEverything' /\ MetricsGoOn' /\ NoRowNoMetrics'
    BY <1>0, <1>4 DEF RecordCall, KeptInv, BaseInv, StoreInv, TypeOK, disk
  <1>5. ASSUME SaveStats \/ CleanupStats \/ \E q \in Queries : Finish(q)
        PROVE  EvictionKeepsEverything' /\ MetricsGoOn' /\ NoRowNoMetrics'
    <2>0. TypeOK
      BY DEF KeptInv, BaseInv, StoreInv
    <2>1. /\ row'.messages = row.messages /\ row'.exists = row.exists
          /\ ("messages" \in refused') <=> ("messages" \in refused)
          /\ \/ row' = row /\ (refused' = refused \/ "metrics" \in refused')
             \/ tracker # None /\ row'.calls = tracker
          /\ UNCHANGED <<active, content, saving, tracker>>
      BY <1>5, <2>0, MetricsWrites
    <2>2. MetricsGoOn'
      BY <2>0, <2>1 DEF KeptInv, TypeOK
    <2>3. NoRowNoMetrics'
      <3>1. CASE UNCHANGED disk
        BY <3>1 DEF disk, KeptInv
      <3>2. CASE SaveSessionStats /\ tracker # None
        BY <3>2, StatsFacts, <2>0, <2>1 DEF SaveSessionStats, Refuse, KeptInv
      <3> QED BY <1>5, <3>1, <3>2 DEF SaveStats, CleanupStats, Finish
    <2>4. CASE CleanupStats
      <3>1. active # None /\ worker[active] # "running" /\ active \in Objects /\ tracker # None
        BY <2>4 DEF CleanupStats, KeptInv, BaseInv, StoreInv, TypeOK, ActiveIsBound
      <3>2. saving[active] = None /\ content[active] \in SUBSET Messages
        BY <3>1 DEF KeptInv, BaseInv, StoreInv, TypeOK
      <3>3. "messages" \notin refused => row.messages = content[active]
        BY <2>4, <3>2 DEF CleanupStats, KeptInv, CleanupOwns
      <3>4. /\ ("messages" \in refused') <=> ("messages" \in refused)
            /\ "metrics" \notin refused' => row'.calls = tracker
        BY <2>0, <2>4, <3>1, StatsFacts DEF CleanupStats
      <3> QED BY <2>1, <2>2, <2>3, <3>3, <3>4
    <2>5. CASE SaveStats \/ \E q \in Queries : Finish(q)
      <3>1. cleaner' = cleaner
        BY <2>5 DEF SaveStats, Finish
      <3> QED BY <2>1, <2>2, <2>3, <3>1 DEF KeptInv
    <2> QED BY <1>5, <2>4, <2>5
  <1>6. ASSUME NEW o \in Objects, EndSave(o)
        PROVE  EvictionKeepsEverything' /\ MetricsGoOn' /\ NoRowNoMetrics'
    <2>0. TypeOK /\ saving[o] \in SUBSET Messages /\ SaveSession(saving[o])
      BY <1>6 DEF EndSave, KeptInv, BaseInv, StoreInv, TypeOK
    <2>1. active = o /\ worker[o] = "running"
      BY <1>6 DEF EndSave, KeptInv, BaseInv, StoreInv
    <2>2. cleaner # "evicting" /\ UNCHANGED <<cleaner, tracker>>
      BY <1>6, <2>1 DEF EndSave, KeptInv, BaseInv, ActiveIsBound
    <2>3. row' = row \/ (row'.calls = 0 /\ row'.exists)
      BY <2>0, SaveFacts
    <2> QED BY <2>0, <2>2, <2>3 DEF KeptInv, TypeOK
  <1>7. ASSUME \/ CleanupStart \/ CleanupFlush \/ CleanupGivesUp \/ CleanupUnflushed
               \/ CleanupStop
               \/ \E o \in Objects : BeginSave(o)
        PROVE  EvictionKeepsEverything' /\ MetricsGoOn' /\ NoRowNoMetrics'
    BY <1>7 DEF CleanupStart, CleanupFlush, CleanupGivesUp, CleanupUnflushed, CleanupStop,
       BeginSave, KeptInv, disk
  <1>8. ASSUME Evict \/ Crash PROVE EvictionKeepsEverything' /\ MetricsGoOn' /\ NoRowNoMetrics'
    BY <1>8 DEF Evict, Crash, KeptInv
  <1>9. ASSUME UNCHANGED vars PROVE EvictionKeepsEverything' /\ MetricsGoOn' /\ NoRowNoMetrics'
    BY <1>9 DEF vars, disk, KeptInv
  <1> HIDE DEF EvictionKeepsEverything, MetricsGoOn, NoRowNoMetrics
  <1> QED BY <1>1, <1>2, <1>3, <1>4, <1>5, <1>6, <1>7, <1>8, <1>9 DEF Next, CleanupIdle, KeptInv

\* An idle session leaves memory with its messages and its metrics on disk, each unless the
\* store refused the very last write of it, and the metrics it comes back with are never less
\* than what was persisted, however many writes the store refuses.  No query may leave its
\* session untouched past idle_timeout, and rows must be readable (manager.go: CleanupIdle,
\* bindStatsLocked).
THEOREM EvictionIsSafe == ~LongWaits /\ ~LoadFails /\ Spec => []SessionIsKept
  <1> SUFFICES ASSUME ~LongWaits, ~LoadFails PROVE Spec => []SessionIsKept
    OBVIOUS
  <1>1. Init => KeptInv
    BY InitBase DEF Init, NoRow, KeptInv, CleanupOwns, HeldSessionsStayActive,
       EvictionKeepsEverything, MetricsGoOn, NoRowNoMetrics
  <1>2. KeptInv /\ [Next]_vars => KeptInv'
    BY NextBase, NextCleanupOwns, NextEviction DEF KeptInv
  <1>3. KeptInv => SessionIsKept
    BY DEF KeptInv, BaseInv, SessionIsKept
  <1> QED BY <1>1, <1>2, <1>3, PTL DEF Spec

\* As long as no query leaves its session untouched past idle_timeout, a running query writes
\* to the session the manager knows.
THEOREM QueriesStayActive == ~LongWaits /\ Spec => []HeldSessionsStayActive
  <1> SUFFICES ASSUME ~LongWaits PROVE Spec => []HeldSessionsStayActive
    OBVIOUS
  <1>1. Init => CleanupOwns
    BY DEF Init, CleanupOwns, HeldSessionsStayActive
  <1>2. CleanupOwns => HeldSessionsStayActive
    BY DEF CleanupOwns
  <1> QED BY <1>1, <1>2, InitBase, NextBase, NextCleanupOwns, PTL DEF Spec

================================================================================
