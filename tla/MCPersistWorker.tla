--------------------------- MODULE MCPersistWorker ---------------------------
(***************************************************************************)
(* A session's worker (PersistWorker), and the process that stops it       *)
(* (Server).  A behaviour is of one of the two.                            *)
(***************************************************************************)
EXTENDS PersistWorker, TLC

CONSTANTS all, stopper, q1, q2

VARIABLES
  part,  \* what this behaviour is of
  broken, off, stage, code, opened, registered, signals, clock, grace, query, msg, stat,
  toPersist, request, plan, before, settled

\* two queries; one thing is amiss at the start at most
P == INSTANCE Server WITH
       Queries <- {q1, q2},
       Faults <- {"unreadable", "invalid", "log", "storage", "home", "manifest", "agents",
                  "waits", "wsPort"},
       Switches <- {"websocket"},
       MaxAmiss <- 1, Window <- 1, Grace <- 2, Deadline <- 3

process == <<broken, off, stage, code, opened, registered, signals, clock, grace, query, msg, stat,
             toPersist, request, plan, before, settled>>

MCInit ==
  /\ part \in {"worker", "process"} /\ Init /\ P!Init
  /\ part = "worker" => broken = {} /\ off = {}
MCNext ==
  \/ part = "worker" /\ Next /\ UNCHANGED <<part, process>>
  \/ part = "process" /\ P!Next /\ UNCHANGED <<part, vars>>

\* A worker that stays as it starts has nothing due; a process has.
MCSpec ==
  /\ MCInit /\ [][MCNext]_<<part, vars, process>>
  /\ Fairness /\ (part = "process" => P!Fairness)

-----------------------------------------------------------------------------
\* A session that is quiet for a window is on disk (PersistWorker); every tool of an agent's
\* palette is registered before a query runs, and an orderly stop leaves nothing behind (Server).
LeavesNothingBehind ==
  QuietIsSaved /\ P!TypeOK /\ P!PalettesAreRegistered /\ P!LeavesNothingBehind

\* Stop of a worker, once called, ends (PersistWorker); a signal ends the process (Server).
\* Both ends are final, so that again and again none is awaited.
StopsEnd ==
  []<>(/\ caller[Stopper] # "idle" => caller[Stopper] = "joined"
       /\ signals > 0 => stage = "exited")
=============================================================================
