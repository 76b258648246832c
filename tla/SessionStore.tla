---------------------------- MODULE SessionStore ----------------------------
(***************************************************************************)
(* The life of one session between memory and SQLite: session/manager.go   *)
(* with the row of persistence/sqlite/sqlite.go and the live metrics of    *)
(* metric/sessionstats.  Queries hold the Session object they were given,  *)
(* the persist workers write it behind their back, CleanupIdle evicts it,  *)
(* a crash throws the memory away, and the next message loads the row.     *)
(*                                                                         *)
(* The debounce, the flush queue and their timeouts are PersistWorker's    *)
(* subject: here a worker saves at some moment after a change.  Messages   *)
(* are opaque; the metrics are the number of model calls they counted.     *)
(***************************************************************************)
EXTENDS Naturals, FiniteSets

CONSTANTS
  Objects,    \* Session objects the process may allocate for this id
  Queries,    \* goroutines that run a query of the session
  Messages,   \* messages appended to the history
  LongWaits,  \* may a query leave its session untouched past idle_timeout?
  LoadFails,  \* may LoadSession or LoadSessionStats fail although the row is there?
  MaxCalls,   \* bound: model calls counted
  MaxCrashes, \* bound: crashes
  MaxRefusals, \* bound: writes the store refuses
  None

ASSUME StoreAssumption ==
  /\ LongWaits \in BOOLEAN
  /\ LoadFails \in BOOLEAN
  /\ MaxCalls \in Nat
  /\ MaxCrashes \in Nat
  /\ MaxRefusals \in Nat
  /\ None \notin Objects \cup Nat
  /\ \A S \in SUBSET Messages : S # None

VARIABLES
  active,   \* Manager.active[id]
  content,  \* the messages of each Session object
  used,     \* messages written so far
  worker,   \* the persist worker bound to each object
  pending,  \* objects with a change their worker has yet to save
  saving,   \* the copy each worker is writing, or None
  row,      \* the sessions row: messages and metrics_json
  refused,  \* of messages and metrics, those whose last write the store refused
  refusals, \* writes it has refused so far
  query,    \* where each query is
  holds,    \* the object each query works on
  tracker,  \* model calls counted by the live tracker, or None
  unsaved,  \* the stats worker has a change to save
  cleaner,  \* where CleanupIdle is; it holds the manager's lock throughout
  crashes

disk == <<row, refused, refusals>>

vars == <<active, content, used, worker, pending, saving, disk, query, holds,
          tracker, unsaved, cleaner, crashes>>

NoRow == [exists |-> FALSE, messages |-> {}, calls |-> 0]

TypeOK ==
  /\ active \in Objects \cup {None}
  /\ content \in [Objects -> SUBSET Messages]
  /\ used \subseteq Messages
  /\ worker \in [Objects -> {"none", "running", "stopped"}]
  /\ pending \subseteq Objects
  /\ saving \in [Objects -> {None} \cup SUBSET Messages]
  /\ row \in [exists : BOOLEAN, messages : SUBSET Messages, calls : Nat]
  /\ refused \subseteq {"messages", "metrics"}
  /\ refusals \in Nat
  /\ query \in [Queries -> {"new", "running", "done"}]
  /\ holds \in [Queries -> Objects \cup {None}]
  /\ tracker \in Nat \cup {None}
  /\ unsaved \in BOOLEAN
  /\ cleaner \in {"idle", "flushing", "saved", "stopping", "stopped", "evicting"}
  /\ crashes \in Nat

Init ==
  /\ active = None
  /\ content = [o \in Objects |-> {}]
  /\ used = {}
  /\ worker = [o \in Objects |-> "none"]
  /\ pending = {}
  /\ saving = [o \in Objects |-> None]
  /\ row = NoRow
  /\ refused = {}
  /\ refusals = 0
  /\ query = [q \in Queries |-> "new"]
  /\ holds = [q \in Queries |-> None]
  /\ tracker = None
  /\ unsaved = FALSE
  /\ cleaner = "idle"
  /\ crashes = 0

\* Objects nothing refers to any more.
Free == {o \in Objects : /\ active # o
                         /\ worker[o] # "running"
                         /\ \A q \in Queries : holds[q] # o}

-----------------------------------------------------------------------------
(* A write of the store succeeds or is refused.  Whoever asked for it is not *)
(* told: the workers and GetOrCreate log the error and go on.               *)

Refuse(part) ==
  /\ refusals < MaxRefusals
  /\ refusals' = refusals + 1
  /\ refused' = refused \cup {part}
  /\ UNCHANGED row

\* SaveSession is INSERT OR REPLACE: the new row has no metrics.
Replaced(messages) == [exists |-> TRUE, messages |-> messages, calls |-> 0]

SaveSession(messages) ==
  \/ /\ row' = Replaced(messages)
     /\ refused' = refused \ {"messages"}
     /\ UNCHANGED refusals
  \/ Refuse("messages")

\* SaveSessionStats is an UPDATE: of a missing row it is an error.
SaveSessionStats ==
  \/ /\ row.exists
     /\ row' = [row EXCEPT !.calls = tracker]
     /\ refused' = refused \ {"metrics"}
     /\ UNCHANGED refusals
  \/ Refuse("metrics")
  \/ /\ ~row.exists
     /\ refused' = refused \cup {"metrics"}
     /\ UNCHANGED <<row, refusals>>

-----------------------------------------------------------------------------
(* GetOrCreate, under the manager's lock.                                  *)

Enter(q, o) ==
  /\ query[q] = "new" /\ cleaner = "idle"
  /\ query' = [query EXCEPT ![q] = "running"]
  /\ holds' = [holds EXCEPT ![q] = o]

UseActive(q) ==
  /\ active # None
  /\ Enter(q, active)
  /\ UNCHANGED <<active, content, used, worker, pending, saving, disk, tracker,
                 unsaved, cleaner, crashes>>

\* bindStatsLocked: the live tracker, if any, is kept; an empty one is filled
\* from the row, unless that cannot be read.
BindTracker(calls) ==
  \/ tracker' = IF tracker = None \/ tracker = 0 THEN calls ELSE tracker
  \/ LoadFails /\ tracker' = IF tracker = None THEN 0 ELSE tracker

Bind(q, o, messages) ==
  /\ o \in Free
  /\ Enter(q, o)
  /\ active' = o
  /\ content' = [content EXCEPT ![o] = messages]
  /\ worker' = [worker EXCEPT ![o] = "running"]
  /\ pending' = pending \ {o}
  /\ saving' = [saving EXCEPT ![o] = None]
  /\ BindTracker(row.calls)
  /\ UNCHANGED <<used, unsaved, cleaner, crashes>>

Load(q) ==
  /\ active = None /\ row.exists
  /\ \E o \in Objects : Bind(q, o, row.messages)
  /\ UNCHANGED disk

NewSession(q) ==
  /\ \E o \in Objects :
       /\ o \in Free /\ Enter(q, o)
       /\ active' = o
       /\ content' = [content EXCEPT ![o] = {}]
       /\ worker' = [worker EXCEPT ![o] = "running"]
       /\ pending' = pending \ {o}
       /\ saving' = [saving EXCEPT ![o] = None]
  /\ SaveSession({})
  /\ BindTracker(row'.calls)
  /\ UNCHANGED <<used, unsaved, cleaner, crashes>>

\* Bug: a new session without looking for the row.
CreateBlindly(q) == active = None /\ NewSession(q)

\* Without a row, or with an error reading it, a new session is made and saved
\* at once; its tracker is bound to the row as it is then.
Create(q) ==
  /\ active = None
  /\ ~row.exists \/ LoadFails
  /\ NewSession(q)

-----------------------------------------------------------------------------
(* A running query works on the object it was given, without the lock.     *)

AddMessage(q) ==
  /\ query[q] = "running"
  /\ \E m \in Messages \ used :
       /\ content' = [content EXCEPT ![holds[q]] = @ \cup {m}]
       /\ used' = used \cup {m}
  /\ pending' = pending \cup {holds[q]}
  /\ UNCHANGED <<active, worker, saving, disk, query, holds, tracker, unsaved,
                 cleaner, crashes>>

\* The stats provider finds or makes the session's tracker.
RecordCall(q) ==
  /\ query[q] = "running"
  /\ tracker # None => tracker < MaxCalls
  /\ tracker' = IF tracker = None THEN 1 ELSE tracker + 1
  /\ unsaved' = TRUE
  /\ UNCHANGED <<active, content, used, worker, pending, saving, disk, query,
                 holds, cleaner, crashes>>

\* The stats worker, which exists while the session is active, saves once for a
\* change, and not again when the store refused.
SaveStats ==
  /\ unsaved /\ tracker # None /\ active # None
  /\ SaveSessionStats
  /\ unsaved' = FALSE
  /\ UNCHANGED <<active, content, used, worker, pending, saving, query, holds,
                 tracker, cleaner, crashes>>

\* The end of a query: FlushStats, if the session has a stats worker.
Finish(q) ==
  /\ query[q] = "running"
  /\ query' = [query EXCEPT ![q] = "done"]
  /\ holds' = [holds EXCEPT ![q] = None]
  /\ IF active # None /\ tracker # None
     THEN SaveSessionStats /\ unsaved' = FALSE
     ELSE UNCHANGED <<disk, unsaved>>
  /\ UNCHANGED <<active, content, used, worker, pending, saving, tracker,
                 cleaner, crashes>>

-----------------------------------------------------------------------------
(* The persist worker of an object.                                        *)

BeginSave(o) ==
  /\ worker[o] = "running" /\ o \in pending /\ saving[o] = None
  /\ saving' = [saving EXCEPT ![o] = content[o]]
  /\ pending' = pending \ {o}
  /\ UNCHANGED <<active, content, used, worker, disk, query, holds, tracker,
                 unsaved, cleaner, crashes>>

\* Bug: a change made during the save is taken for saved.
EndSaveDrains(o) ==
  /\ saving[o] # None
  /\ SaveSession(saving[o])
  /\ saving' = [saving EXCEPT ![o] = None]
  /\ pending' = pending \ {o}
  /\ UNCHANGED <<active, content, used, worker, query, holds, tracker,
                 unsaved, cleaner, crashes>>

\* A flush is acknowledged either way; a change that was refused waits for the
\* next change.
EndSave(o) ==
  /\ saving[o] # None
  /\ SaveSession(saving[o])
  /\ saving' = [saving EXCEPT ![o] = None]
  /\ UNCHANGED <<active, content, used, worker, pending, query, holds, tracker,
                 unsaved, cleaner, crashes>>

-----------------------------------------------------------------------------
(* CleanupIdle.  A session is idle when nothing touched it for minutes, far *)
(* longer than the workers need to catch up.                               *)

Held(o) == \E q \in Queries : holds[q] = o

CleanupStart ==
  /\ cleaner = "idle" /\ active # None
  /\ active \notin pending /\ saving[active] = None /\ ~unsaved
  /\ Held(active) => LongWaits
  /\ cleaner' = "flushing"
  /\ UNCHANGED <<active, content, used, worker, pending, saving, disk, query,
                 holds, tracker, unsaved, crashes>>

\* Flush, and again the flush that Stop does first.
CleanupFlush ==
  /\ \/ cleaner = "flushing" /\ cleaner' = "saved"
     \/ cleaner = "saved" /\ cleaner' = "stopping"
  /\ saving[active] = None
  /\ saving' = [saving EXCEPT ![active] = content[active]]
  /\ UNCHANGED <<active, content, used, worker, pending, disk, query, holds,
                 tracker, unsaved, crashes>>

\* The first flush timed out: the session stays.
CleanupGivesUp ==
  /\ cleaner \in {"flushing", "saved"}
  /\ cleaner' = "idle"
  /\ UNCHANGED <<active, content, used, worker, pending, saving, disk, query,
                 holds, tracker, unsaved, crashes>>

\* The flush in Stop timed out before the loop took it.
CleanupUnflushed ==
  /\ cleaner = "saved"
  /\ cleaner' = "stopping"
  /\ UNCHANGED <<active, content, used, worker, pending, saving, disk, query,
                 holds, tracker, unsaved, crashes>>

\* Stop closes the stop channel and joins the loop.
CleanupStop ==
  /\ cleaner = "stopping" /\ saving[active] = None
  /\ worker' = [worker EXCEPT ![active] = "stopped"]
  /\ cleaner' = "stopped"
  /\ UNCHANGED <<active, content, used, pending, saving, disk, query, holds,
                 tracker, unsaved, crashes>>

\* Bug: forgetting the final flush of the metrics.
CleanupSkipsStats ==
  /\ cleaner = "stopped"
  /\ cleaner' = "evicting"
  /\ UNCHANGED <<active, content, used, worker, pending, saving, disk, query,
                 holds, tracker, unsaved, crashes>>

\* The metrics go last, after the last REPLACE of the row: a flush, and one more in
\* Stop, which together fail when the second does.
CleanupStats ==
  /\ cleaner = "stopped"
  /\ IF tracker = None THEN UNCHANGED disk ELSE SaveSessionStats
  /\ unsaved' = FALSE
  /\ cleaner' = "evicting"
  /\ UNCHANGED <<active, content, used, worker, pending, saving, query, holds,
                 tracker, crashes>>

Evict ==
  /\ cleaner = "evicting"
  /\ active' = None
  /\ tracker' = None
  /\ unsaved' = FALSE
  /\ cleaner' = "idle"
  /\ refused' = {}
  /\ UNCHANGED <<content, used, worker, pending, saving, row, refusals, query,
                 holds, crashes>>

CleanupIdle ==
  CleanupStart \/ CleanupFlush \/ CleanupGivesUp \/ CleanupUnflushed
    \/ CleanupStop \/ CleanupStats \/ Evict

\* The process dies: queries and memory are gone, the row is not.
Crash ==
  /\ crashes < MaxCrashes
  /\ crashes' = crashes + 1
  /\ active' = None
  /\ content' = [o \in Objects |-> {}]
  /\ worker' = [o \in Objects |-> "none"]
  /\ pending' = {}
  /\ saving' = [o \in Objects |-> None]
  /\ query' = [q \in Queries |-> IF query[q] = "new" THEN "new" ELSE "done"]
  /\ holds' = [q \in Queries |-> None]
  /\ tracker' = None
  /\ unsaved' = FALSE
  /\ cleaner' = "idle"
  /\ refused' = {}
  /\ UNCHANGED <<used, row, refusals>>

Next ==
  \/ \E q \in Queries : \/ UseActive(q) \/ Load(q) \/ Create(q)
                        \/ AddMessage(q) \/ RecordCall(q) \/ Finish(q)
  \/ \E o \in Objects : BeginSave(o) \/ EndSave(o)
  \/ SaveStats
  \/ CleanupIdle
  \/ Crash

Spec == Init /\ [][Next]_vars

\* The workers' goroutines run; a started cleanup goes on.
Fairness ==
  /\ \A o \in Objects : WF_vars(BeginSave(o) \/ EndSave(o))
  /\ WF_vars(CleanupFlush \/ CleanupUnflushed \/ CleanupStop \/ CleanupStats \/ Evict)

FairSpec == Spec /\ Fairness

-----------------------------------------------------------------------------
(* Properties                                                              *)

\* Types, and who works for whom: the active session has the only running
\* worker, so two workers never write the same row.
StoreInv ==
  /\ TypeOK
  /\ \A o \in Objects : worker[o] = "running" => active = o
  /\ \A o \in Objects : saving[o] # None => worker[o] = "running"
  /\ active = None => cleaner = "idle"

\* What is on disk stays on disk: no save of an older copy, of another
\* incarnation of the session or of a new one overwrites newer messages.
SavesLoseNothing == [][row.messages \subseteq row'.messages]_row

\* An idle session leaves memory only when what it holds is on disk, messages and
\* metrics, each unless the store refused its very last write: a refused flush is
\* made good by the one in Stop.
EvictionKeepsEverything ==
  cleaner = "evicting" =>
    /\ "messages" \notin refused => content[active] \subseteq row.messages
    /\ tracker # None /\ "metrics" \notin refused => row.calls = tracker

\* The live metrics never show less than the persisted ones, whatever the store
\* refused: after a reload they go on counting instead of starting from zero.
MetricsGoOn == tracker # None => row.calls <= tracker

\* One worker writes the row, an idle session leaves memory with what the store took
\* last on disk, and its metrics go on counting after a reload.
SessionIsKept == StoreInv /\ EvictionKeepsEverything /\ MetricsGoOn

\* An idle session leaves memory only when its messages are on disk, also when the
\* store refuses writes.
EvictedIsOnDisk ==
  cleaner = "evicting" => content[active] \subseteq row.messages

\* Everything the active session holds is on disk, or the store refused the last
\* save and no change has asked for another.  Messages only grow and are bounded, so
\* a message of a session that stays in memory, and whose saves the store takes,
\* reaches the disk iff this holds again and again.
NothingUnsaved ==
  active # None => \/ content[active] \subseteq row.messages
                   \/ "messages" \in refused /\ active \notin pending

\* Metrics the stats worker has saved are on disk for a restart to find, as long
\* as no further call was counted.
MetricsSurvive ==
  tracker # None /\ ~unsaved => row.calls = tracker

\* The session a running query writes to is the one the manager knows.
HeldSessionsStayActive ==
  \A q \in Queries : holds[q] # None => holds[q] = active
=============================================================================
