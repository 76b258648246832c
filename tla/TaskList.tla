------------------------------ MODULE TaskList ------------------------------
(***************************************************************************)
(* The task list of the program (tasks/): the tools task_create, task_list  *)
(* and task_update of any number of agents share one store, a table of      *)
(* SQLite, or a map in memory when the table cannot be opened at a start.   *)
(* Creating and updating take the store's lock, deleting does not.          *)
(***************************************************************************)
EXTENDS Naturals, FiniteSets

CONSTANTS
  Agents,
  MaxId,    \* bound: tasks created in one life of the program
  MaxLives, \* bound: starts of the program
  Free      \* the lock is free

VARIABLES
  kind,    \* the store in use: "sqlite" or "memory"
  rows,    \* the tasks of the store
  away,    \* the tasks of the table while the store is in memory
  seq,     \* the last id given out
  lock,    \* Free or the agent that holds the lock
  read,    \* the task the holder read
  born,    \* ghost: tasks ever created
  acked,   \* ghost: updates that were answered: [task, by]
  owed,    \* ghost: tasks whose creation was answered and that nobody deleted
  lives

vars == <<kind, rows, away, seq, lock, read, born, acked, owed, lives>>

\* A task: its id, which of the tasks ever created it is, and what was added to it.
Task == [id : 1..MaxId, born : Nat, by : SUBSET Agents]
Find(id) == {t \in rows : t.id = id}

\* A change of a task, the agent's name standing for what it changes.
Apply(t, a) == [t EXCEPT !.by = @ \cup {a}]

TypeOK ==
  /\ kind \in {"sqlite", "memory"}
  /\ rows \subseteq Task /\ away \subseteq Task /\ read \subseteq Task
  /\ seq \in 0..MaxId /\ lock \in Agents \cup {Free}
  /\ born \in Nat /\ lives \in 1..MaxLives
  /\ acked \subseteq [task : Nat, by : Agents] /\ owed \subseteq 1..born

Init ==
  /\ kind \in {"sqlite", "memory"}
  /\ rows = {} /\ away = {}
  /\ seq = 0
  /\ lock = Free /\ read = {}
  /\ born = 0 /\ acked = {} /\ owed = {} /\ lives = 1

-----------------------------------------------------------------------------
(* The tools                                                               *)

\* Bug: inserting over a task that has the id already.
CreateReplacing ==
  /\ lock = Free
  /\ seq < MaxId
  /\ seq' = seq + 1
  /\ rows' = (rows \ Find(seq + 1)) \cup {[id |-> seq + 1, born |-> born + 1, by |-> {}]}
  /\ born' = born + 1
  /\ owed' = owed \cup {born + 1}
  /\ UNCHANGED <<kind, away, lock, read, acked, lives>>

\* Create: the id is used up even if the insertion fails, as it does when the id is
\* taken.
Create ==
  /\ lock = Free
  /\ seq < MaxId
  /\ seq' = seq + 1
  /\ \/ /\ Find(seq + 1) = {}
        /\ rows' = rows \cup {[id |-> seq + 1, born |-> born + 1, by |-> {}]}
        /\ born' = born + 1
        /\ owed' = owed \cup {born + 1}
     \/ kind = "sqlite" /\ UNCHANGED <<rows, born, owed>>
  /\ UNCHANGED <<kind, away, lock, read, acked, lives>>

\* Update reads the task under the lock ...
BeginUpdate(a, id) ==
  /\ lock = Free
  /\ Find(id) # {}
  /\ lock' = a
  /\ read' = Find(id)
  /\ UNCHANGED <<kind, rows, away, seq, born, acked, owed, lives>>

\* ... and writes what it read with the change.  A row that is gone is not missed, and
\* the update is answered all the same; a write that fails is an error.
EndUpdate(a) ==
  /\ lock = a
  /\ lock' = Free /\ read' = {}
  /\ \/ /\ rows' = {IF \E r \in read : r.id = t.id
                    THEN Apply(CHOOSE r \in read : r.id = t.id, a) ELSE t : t \in rows}
        /\ acked' = acked \cup {[task |-> r.born, by |-> a] : r \in read}
     \/ kind = "sqlite" /\ UNCHANGED <<rows, acked>>
  /\ UNCHANGED <<kind, away, seq, born, owed, lives>>

\* The status "deleted" removes the task.  The map's delete takes the lock, the table's
\* does not.
Delete(id) ==
  /\ Find(id) # {}
  /\ kind = "memory" => lock = Free
  /\ rows' = rows \ Find(id)
  /\ owed' = owed \ {t.born : t \in Find(id)}
  /\ UNCHANGED <<kind, away, seq, lock, read, born, acked, lives>>

-----------------------------------------------------------------------------
(* A start of the program                                                  *)

\* The last id is the highest of the tasks that are left, or 0 when reading them fails,
\* which goes unnoticed: ids already taken are then tried again.
LastIds(tasks) == {0} \cup {t.id : t \in {u \in tasks : \A v \in tasks : v.id <= u.id}}

\* The table is opened, or a map takes its place until the next start; what a map held
\* ends with the program.
Restart ==
  /\ lives < MaxLives
  /\ lives' = lives + 1
  /\ LET table == IF kind = "sqlite" THEN rows ELSE away IN
       \/ /\ kind' = "sqlite"
          /\ rows' = table /\ away' = {}
          /\ seq' \in LastIds(table)
       \/ /\ kind' = "memory"
          /\ rows' = {} /\ away' = table
          /\ seq' = 0
  /\ owed' = IF kind = "memory" THEN owed \ {t.born : t \in rows} ELSE owed
  /\ lock' = Free /\ read' = {}
  /\ UNCHANGED <<born, acked>>

Next ==
  \/ Create
  \/ \E a \in Agents : EndUpdate(a) \/ \E id \in 1..MaxId : BeginUpdate(a, id)
  \/ \E id \in 1..MaxId : Delete(id)
  \/ Restart

Spec == Init /\ [][Next]_vars

-----------------------------------------------------------------------------
(* Properties                                                              *)

\* A task whose creation was answered is there until somebody deletes it, or, of a store
\* in memory, until the program ends; an id names one task; an update that was answered
\* is in the task for as long as the task is there.  So it stays across restarts, also
\* when the ids begin anew because they could not be read (sqlite_store.go
\* NewSQLiteStore, Create, Update).
UpdatesStay ==
  /\ TypeOK
  /\ owed = {t.born : t \in rows \cup away}
  /\ \A S \in {rows, away} :
       /\ \A t, u \in S : t.id = u.id => t = u
       /\ \A t \in S : {u.by : u \in {w \in acked : w.task = t.born}} \subseteq t.by
=============================================================================
