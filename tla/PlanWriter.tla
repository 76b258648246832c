----------------------------- MODULE PlanWriter -----------------------------
(***************************************************************************)
(* The plan of a session: a file of tasks that the tool plan_update changes *)
(* through the session's plan writer.  A writer is a goroutine with a queue; *)
(* it reads the file, applies one change, checks it and replaces the file,  *)
(* and stops when it has been idle for a while.  The registry gives callers *)
(* the writer of the session and starts a new one after an idle stop.  The  *)
(* shutdown of the server empties the registry while queries may still run. *)
(***************************************************************************)
EXTENDS Naturals, Sequences, FiniteSets, Functions

CONSTANTS
  Tasks,       \* identifiers of tasks
  Callers,     \* goroutines running plan_update; calls may run at once
  Plans,       \* what the session's plan file may be at the start
  Operations,  \* the calls the model may make
  Queue,       \* capacity of a writer's queue
  MaxWriters,  \* bound: writers started
  MaxCalls,    \* bound: calls
  MaxFaults,   \* bound: failures of the file system
  None         \* nothing: no file, no task, no directory

Statuses == {"pending", "running", "done", "failed", "cancelled"}

Entries == [status : Statuses, attempt : Nat, deps : SUBSET Tasks,
            frozen : BOOLEAN, ref : BOOLEAN]

Ops == [kind : {"create"}, task : Tasks, deps : SUBSET Tasks]
         \cup [kind : {"status"}, task : Tasks, status : Statuses, ref : BOOLEAN]
         \cup [kind : {"wipe"}, task : Tasks]

Tables == [Tasks -> Entries \cup {None}]

ASSUME PlanWriterAssumption ==
  /\ None \notin Entries /\ None \notin Callers /\ None \notin Tables
  /\ Plans \subseteq Tables \cup {None}
  /\ Operations \subseteq Ops
  /\ Queue \in Nat \ {0}
  /\ MaxWriters \in Nat /\ MaxCalls \in Nat /\ MaxFaults \in Nat

Writers == 1..MaxWriters

VARIABLES
  plan,     \* the file: a table of tasks, or None when there is none
  dirs,     \* the directory of each task: None, "empty" or "full"
  current,  \* the writer in the registry, 0 when there is none
  started,  \* writers started so far
  loop,     \* writers: what the goroutine is doing
  stopped,  \* writers: done is closed
  queue,    \* writers: the callers whose changes are queued
  cur,      \* writers: the caller whose change is applied
  draft,    \* writers: the plan about to be saved, None when it was refused
  stopping, \* StopAll: "no", "stop", "wait" or "done"
  taken,    \* the writer StopAll found in the registry, 0 when there was none
  pc, op, mine, answer,  \* callers: step, call, writer, reply
  applied,  \* ghost: times the change of the current call reached the file
  raced,    \* ghost: since StopAll, two writers have applied changes at once
  asked, faults

files == <<plan, dirs>>
writers == <<current, started, loop, stopped, queue, cur, draft>>
shutdown == <<stopping, taken, raced>>
callers == <<pc, op, mine, answer, applied>>
vars == <<files, writers, callers, shutdown, asked, faults>>

-----------------------------------------------------------------------------
(* A change of the plan                                                    *)

Fresh(deps) == [status |-> "pending", attempt |-> 1, deps |-> deps, frozen |-> FALSE, ref |-> FALSE]

Create(p, o) ==
  IF p[o.task] # None THEN None ELSE [p EXCEPT ![o.task] = Fresh(o.deps)]

Told(e, o) == [e EXCEPT !.status = o.status, !.ref = @ \/ o.ref]

UpdateStatus(p, o) ==
  IF p[o.task] = None \/ p[o.task].frozen THEN None
  ELSE [p EXCEPT ![o.task] = Told(@, o)]

\* A retry: the next attempt, from the start.
Again(e) == [e EXCEPT !.attempt = @ + 1, !.status = "pending", !.ref = FALSE]

WipeForRetry(p, o) ==
  IF p[o.task] = None \/ p[o.task].frozen THEN None
  ELSE [p EXCEPT ![o.task] = Again(@)]

Change(p, o) == CASE o.kind = "create" -> Create(p, o)
                  [] o.kind = "status" -> UpdateStatus(p, o)
                  [] o.kind = "wipe" -> WipeForRetry(p, o)

\* What is finished has a summary, and dependencies are tasks of the plan.
Valid(p) ==
  \A t \in Tasks : p[t] # None =>
    /\ p[t].status = "done" => p[t].ref
    /\ \A d \in p[t].deps : p[d] # None

\* What is found at the start was written by a writer.
ASSUME PlansAssumption == \A p \in Plans \ {None} : Valid(p)

FrozenStays(old, new) ==
  \A t \in Tasks : old[t] # None /\ old[t].frozen => new[t] # None /\ new[t].frozen

\* The plan after a change, None when there is no file or the change is refused.
Handled(p, o) ==
  IF p = None THEN None
  ELSE LET new == Change(p, o) IN
         IF new # None /\ Valid(new) /\ FrozenStays(p, new) THEN new ELSE None

-----------------------------------------------------------------------------
Init ==
  /\ plan \in Plans
  /\ dirs = [t \in Tasks |-> IF plan # None /\ plan[t] # None THEN "full" ELSE None]
  /\ current = 0 /\ started = 0
  /\ loop = [i \in Writers |-> "none"] /\ stopped = [i \in Writers |-> FALSE]
  /\ queue = [i \in Writers |-> <<>>]
  /\ cur = [i \in Writers |-> None] /\ draft = [i \in Writers |-> None]
  /\ pc = [c \in Callers |-> "idle"] /\ op = [c \in Callers |-> None]
  /\ mine = [c \in Callers |-> 0] /\ answer = [c \in Callers |-> None]
  /\ applied = [c \in Callers |-> 0]
  /\ stopping = "no" /\ taken = 0 /\ raced = FALSE
  /\ asked = 0 /\ faults = 0

-----------------------------------------------------------------------------
(* The callers                                                             *)

StartWriter ==
  /\ started < MaxWriters
  /\ started' = started + 1 /\ current' = started + 1
  /\ loop' = [loop EXCEPT ![started + 1] = "select"]

\* Bug: each caller gets a writer of its own.
GetAnother(c) ==
  StartWriter /\ mine' = [mine EXCEPT ![c] = started + 1]

\* The writer in the registry, or a new one.
Get(c) ==
  \/ /\ current # 0
     /\ mine' = [mine EXCEPT ![c] = current]
     /\ UNCHANGED <<started, current, loop>>
  \/ /\ current = 0
     /\ StartWriter
     /\ mine' = [mine EXCEPT ![c] = started + 1]

Call(c, o) ==
  /\ pc[c] = "idle" /\ asked < MaxCalls
  /\ Get(c)
  /\ pc' = [pc EXCEPT ![c] = IF o.kind = "status" THEN "check" ELSE "dir"]
  /\ op' = [op EXCEPT ![c] = o]
  /\ asked' = asked + 1
  /\ UNCHANGED <<files, stopped, queue, cur, draft, answer, applied, shutdown, faults>>

\* The call is over, and what it was is forgotten.
Over(c) ==
  /\ pc' = [pc EXCEPT ![c] = "idle"] /\ op' = [op EXCEPT ![c] = None]
  /\ mine' = [mine EXCEPT ![c] = 0] /\ answer' = [answer EXCEPT ![c] = None]
  /\ applied' = [applied EXCEPT ![c] = 0]

\* A new task gets its directory before it is in the plan, and a retry empties
\* the directory before the plan is asked; a call that cannot do so ends.
Directory(c) ==
  LET t == op[c].task IN
    /\ pc[c] = "dir"
    /\ \/ /\ dirs' = [dirs EXCEPT ![t] = IF op[c].kind = "create" /\ @ # None THEN @ ELSE "empty"]
          /\ pc' = [pc EXCEPT ![c] = "check"]
          /\ UNCHANGED <<op, mine, answer, applied, faults>>
       \/ /\ faults < MaxFaults /\ faults' = faults + 1
          /\ Over(c)
          /\ UNCHANGED dirs
    /\ UNCHANGED <<plan, writers, shutdown, asked>>

Refuse(c) == pc' = [pc EXCEPT ![c] = "answered"] /\ answer' = [answer EXCEPT ![c] = "error"]

\* Apply looks at the flag once, under the lock.
CheckStopped(c) ==
  /\ pc[c] = "check"
  /\ \/ stopped[mine[c]] /\ Refuse(c)
     \/ ~stopped[mine[c]] /\ pc' = [pc EXCEPT ![c] = "send"] /\ UNCHANGED answer
  /\ UNCHANGED <<files, writers, op, mine, applied, shutdown, asked, faults>>

Enqueue(c) ==
  /\ pc[c] = "send" /\ Len(queue[mine[c]]) < Queue
  /\ queue' = [queue EXCEPT ![mine[c]] = Append(@, c)]
  /\ pc' = [pc EXCEPT ![c] = "wait"]
  /\ UNCHANGED <<files, current, started, loop, stopped, cur, draft, op, mine, answer, applied,
                 shutdown, asked, faults>>

\* Bug: a caller that is cancelled no longer waits for its change.
CancelledWaiting(c) ==
  /\ pc[c] \in {"send", "wait"}
  /\ Refuse(c)
  /\ UNCHANGED <<files, writers, op, mine, applied, shutdown, asked, faults>>

\* The writer has stopped, or the query was cancelled, before the change is queued.
GiveUp(c) ==
  /\ pc[c] = "send"
  /\ Refuse(c)
  /\ UNCHANGED <<files, writers, op, mine, applied, shutdown, asked, faults>>

\* The result of the tool.  A task that was not created loses its directory, unless
\* there is something in it.
Finish(c) ==
  LET t == op[c].task IN
    /\ pc[c] = "answered"
    /\ dirs' = IF op[c].kind = "create" /\ answer[c] = "error" /\ dirs[t] = "empty"
               THEN [dirs EXCEPT ![t] = None] ELSE dirs
    /\ Over(c)
    /\ UNCHANGED <<plan, writers, shutdown, asked, faults>>

-----------------------------------------------------------------------------
(* The writers                                                             *)

\* Since the registry was emptied another writer is between reading the file and
\* replacing it.  What either makes of the file from here on is not modelled further:
\* they also share the temporary file that replaces it.
Beside(i) == stopping # "no" /\ \E j \in Writers \ {i} : loop[j] = "save"

\* The next change is taken from the queue and applied to what the file has now, also
\* when the writer was told to stop: select takes either.
Take(i) ==
  /\ loop[i] = "select" /\ queue[i] # <<>>
  /\ LET c == Head(queue[i]) IN
       /\ cur' = [cur EXCEPT ![i] = c]
       /\ draft' = [draft EXCEPT ![i] = Handled(plan, op[c])]
  /\ queue' = [queue EXCEPT ![i] = Tail(@)]
  /\ loop' = [loop EXCEPT ![i] = "save"]
  /\ raced' = (raced \/ Beside(i))
  /\ UNCHANGED <<files, current, started, stopped, stopping, taken, callers, asked, faults>>

\* The reply waits in a channel of one place; a caller that gave up never reads it.
Reply(c, r) ==
  /\ answer' = [answer EXCEPT ![c] = r]
  /\ pc' = [pc EXCEPT ![c] = IF @ = "wait" THEN "answered" ELSE @]

\* The file is replaced at once, or not at all when the change was refused or the
\* file cannot be written.
Save(i) ==
  LET c == cur[i] IN
    /\ loop[i] = "save"
    /\ \/ /\ draft[i] # None
          /\ plan' = draft[i]
          /\ applied' = [applied EXCEPT ![c] = @ + 1]
          /\ Reply(c, "ok")
          /\ UNCHANGED faults
       \/ /\ \/ draft[i] = None /\ UNCHANGED faults
             \/ draft[i] # None /\ faults < MaxFaults /\ faults' = faults + 1
          /\ Reply(c, "error")
          /\ UNCHANGED <<plan, applied>>
    /\ loop' = [loop EXCEPT ![i] = "select"]
    /\ cur' = [cur EXCEPT ![i] = None] /\ draft' = [draft EXCEPT ![i] = None]
    /\ UNCHANGED <<dirs, current, started, stopped, queue, op, mine, shutdown, asked>>

\* The idle timer fires and nothing is queued.
IdleStop(i) ==
  /\ loop[i] = "select" /\ queue[i] = <<>> /\ ~stopped[i]
  /\ stopped' = [stopped EXCEPT ![i] = TRUE]
  /\ loop' = [loop EXCEPT ![i] = "idle"]
  /\ UNCHANGED <<files, current, started, queue, cur, draft, callers, shutdown, asked, faults>>

\* The registry forgets the writer, unless it holds another by now.
OnIdle(i) ==
  /\ loop[i] = "idle"
  /\ current' = IF current = i THEN 0 ELSE current
  /\ loop' = [loop EXCEPT ![i] = "drain"]
  /\ UNCHANGED <<files, started, stopped, queue, cur, draft, callers, shutdown, asked, faults>>

\* The writer sees that it was told to stop.
SeeStopped(i) ==
  /\ loop[i] = "select" /\ stopped[i]
  /\ loop' = [loop EXCEPT ![i] = "drain"]
  /\ UNCHANGED <<files, current, started, stopped, queue, cur, draft, callers, shutdown, asked,
                 faults>>

\* The next change in the queue is refused.
FailNext(i) ==
  /\ queue[i] # <<>>
  /\ Reply(Head(queue[i]), "error")
  /\ queue' = [queue EXCEPT ![i] = Tail(@)]

\* What is queued by now is refused, and the goroutine ends.
DrainAndFail(i) ==
  /\ loop[i] = "drain"
  /\ \/ FailNext(i) /\ UNCHANGED loop
     \/ /\ queue[i] = <<>>
        /\ loop' = [loop EXCEPT ![i] = "end"]
        /\ UNCHANGED <<queue, pc, answer>>
  /\ UNCHANGED <<files, current, started, stopped, cur, draft, op, mine, applied, shutdown, asked,
                 faults>>

-----------------------------------------------------------------------------
(* The shutdown: StopAll, called once.  Queries still run.                 *)

\* The registry is emptied.
StopAll ==
  /\ stopping = "no"
  /\ taken' = current /\ current' = 0
  /\ stopping' = IF current = 0 THEN "done" ELSE "stop"
  /\ UNCHANGED <<files, started, loop, stopped, queue, cur, draft, callers, raced, asked, faults>>

\* The writer that was in it is told to stop.
StopWriter ==
  /\ stopping = "stop"
  /\ stopped' = [stopped EXCEPT ![taken] = TRUE]
  /\ stopping' = "wait"
  /\ UNCHANGED <<files, current, started, loop, queue, cur, draft, callers, taken, raced, asked,
                 faults>>

\* Its goroutine has ended; what has come into its queue since is refused.
FailLeft ==
  /\ stopping = "wait" /\ loop[taken] = "end"
  /\ \/ FailNext(taken) /\ UNCHANGED stopping
     \/ queue[taken] = <<>> /\ stopping' = "done" /\ UNCHANGED <<queue, pc, answer>>
  /\ UNCHANGED <<files, current, started, loop, stopped, cur, draft, op, mine, applied, taken,
                 raced, asked, faults>>

-----------------------------------------------------------------------------
\* A sub-agent writes a file in the directory of its task (one that makes the directory by
\* writing is left out).
WriteFile(t) ==
  /\ dirs[t] = "empty"
  /\ dirs' = [dirs EXCEPT ![t] = "full"]
  /\ UNCHANGED <<plan, writers, callers, shutdown, asked, faults>>

Next ==
  \/ \E c \in Callers :
       \/ \E o \in Operations : Call(c, o)
       \/ Directory(c) \/ CheckStopped(c) \/ Enqueue(c) \/ GiveUp(c) \/ Finish(c)
  \/ \E i \in Writers :
       Take(i) \/ Save(i) \/ IdleStop(i) \/ OnIdle(i) \/ SeeStopped(i) \/ DrainAndFail(i)
  \/ StopAll \/ StopWriter \/ FailLeft
  \/ \E t \in Tasks : WriteFile(t)

Spec == Init /\ [][Next]_vars

-----------------------------------------------------------------------------
(* Properties                                                              *)

TypeOK ==
  /\ plan \in Tables \cup {None}
  /\ dirs \in [Tasks -> {None, "empty", "full"}]
  /\ current \in 0..started /\ started \in 0..MaxWriters
  /\ loop \in [Writers -> {"none", "select", "save", "idle", "drain", "end"}]
  /\ stopped \in [Writers -> BOOLEAN]
  /\ queue \in [Writers -> Seq(Callers)] /\ \A i \in Writers : Len(queue[i]) <= Queue
  /\ cur \in [Writers -> Callers \cup {None}] /\ draft \in [Writers -> Tables \cup {None}]
  /\ pc \in [Callers -> {"idle", "dir", "check", "send", "wait", "answered"}]
  /\ op \in [Callers -> Operations \cup {None}] /\ mine \in [Callers -> 0..started]
  /\ answer \in [Callers -> {None, "ok", "error"}] /\ applied \in [Callers -> Nat]
  /\ stopping \in {"no", "stop", "wait", "done"} /\ taken \in 0..started /\ raced \in BOOLEAN
  /\ asked \in 0..MaxCalls /\ faults \in 0..MaxFaults

\* The changes in the hands of the writers.
Pending(i) == Range(queue[i]) \cup ({cur[i]} \ {None})

\* Types; a caller that waits has its change in the hands of its writer, once, and no
\* caller that does not wait has one; the file is a valid plan, as long as no two writers
\* have been at it at once.
PlanInv ==
  /\ TypeOK
  /\ \A c \in Callers : pc[c] = "wait" <=> \E i \in Writers : c \in Pending(i)
  /\ \A i \in Writers : \A c \in Pending(i) : mine[c] = i
  /\ ~raced /\ plan # None => Valid(plan)

\* The plan is consistent (PlanInv), and what a caller is told is what happened: its
\* change is in the file once when it is told so, and never when it is told it failed.
\* Until StopAll has emptied the registry this holds of every call; from then on as long
\* as no second writer has begun while the first still applied a change.
AnsweredAsApplied ==
  /\ PlanInv
  /\ ~raced => \A c \in Callers :
       /\ pc[c] = "answered" => applied[c] = IF answer[c] = "ok" THEN 1 ELSE 0
       /\ pc[c] # "answered" => applied[c] = 0

\* The file changes by one whole operation of a waiting caller at a time: no change
\* is lost under another, until StopAll has let two writers at the file at once.
ChangesAreOperations ==
  [][plan' # plan /\ ~raced =>
       \E c \in Callers : pc[c] = "wait" /\ plan' = Handled(plan, op[c])]_vars

\* Two writers are not at the file at once: every change of a session's plan goes through
\* one goroutine.
NeverRaced ==
  \A i, j \in Writers : loop[i] = "save" /\ loop[j] = "save" => i = j

\* A change that is queued will be executed: its writer has not ended.
EnqueuedWillExecute == \A c \in Callers : pc[c] = "wait" => loop[mine[c]] # "end"

\* A task of the plan has a directory.
TasksHaveDirectories ==
  plan # None => \A t \in Tasks : plan[t] # None => dirs[t] # None

\* A frozen task keeps its files.
FrozenKeepsFiles ==
  plan # None => \A t \in Tasks : plan[t] # None /\ plan[t].frozen => dirs[t] = "full"
=============================================================================
