-------------------------------- MODULE Shell --------------------------------
(***************************************************************************)
(* The bash tool.  One instance serves all conversations and agents of the  *)
(* server, and keeps one working directory for them.  A command runs in     *)
(* the directory the tool had when it began, may leave another, and may     *)
(* leave processes behind that hold its output open; the tool returns when  *)
(* the shell is gone and its output is closed.                              *)
(***************************************************************************)
EXTENDS Naturals, FiniteSets

CONSTANTS
  Callers,   \* conversations and agents that use the tool
  Dirs,      \* directories
  Origin,    \* one of them, the server was started in
  MaxCalls,  \* bound: commands of a caller
  MaxMoves,  \* bound: directories removed
  None       \* no directory, no result

VARIABLES
  cwd,     \* the directory of the tool
  exists,  \* directories that are there
  removed, \* directories removed so far
  calls,   \* callers: commands begun
  phase,   \* callers: "idle", "begun", "ready", "shell", "exited"
  dir,     \* callers: where the command runs
  dest,    \* callers: where it will leave the shell, None when that is not written
  child,   \* callers: a process left behind: "none", "group" or "own" (out of the group)
  over,    \* callers: None, or why its context ended
  result,  \* callers: None or how the last command was reported
  left,    \* ghost, callers: where its last command left the shell
  free     \* ghost, callers: the tool moved since, for another caller or for want of the directory

proc == <<phase, dir, dest, child, over, result>>
vars == <<cwd, exists, removed, calls, proc, left, free>>

Init ==
  /\ cwd = Origin /\ exists = Dirs /\ removed = 0
  /\ calls = [c \in Callers |-> 0] /\ phase = [c \in Callers |-> "idle"]
  /\ dir = [c \in Callers |-> Origin] /\ dest = [c \in Callers |-> None]
  /\ child = [c \in Callers |-> "none"] /\ over = [c \in Callers |-> None]
  /\ result = [c \in Callers |-> None]
  /\ left = [c \in Callers |-> Origin] /\ free = [c \in Callers |-> FALSE]

FreeOthers(c) == [d \in Callers |-> d # c \/ free[d]]

\* A snapshot of the directory, under the lock.
Begin(c) ==
  /\ phase[c] = "idle" /\ calls[c] < MaxCalls
  /\ calls' = [calls EXCEPT ![c] = @ + 1]
  /\ phase' = [phase EXCEPT ![c] = "begun"] /\ dir' = [dir EXCEPT ![c] = cwd]
  /\ over' = [over EXCEPT ![c] = None] /\ result' = [result EXCEPT ![c] = None]
  /\ UNCHANGED <<cwd, exists, removed, dest, child, left, free>>

\* A directory that is gone is given up for the original one.
CheckDirectory(c) ==
  /\ phase[c] = "begun"
  /\ phase' = [phase EXCEPT ![c] = "ready"]
  /\ IF dir[c] \in exists THEN UNCHANGED <<cwd, dir, free>>
     ELSE /\ dir' = [dir EXCEPT ![c] = Origin] /\ cwd' = Origin
          /\ free' = [d \in Callers |-> TRUE]
  /\ UNCHANGED <<exists, removed, calls, dest, child, over, result, left>>

Report(c, r) == phase' = [phase EXCEPT ![c] = "idle"] /\ result' = [result EXCEPT ![c] = r]

\* A command that cannot be started ends at once: with the error of its context, or with
\* the exit code of a command that went well.
Launch(c) ==
  /\ phase[c] = "ready"
  /\ IF over[c] = None /\ dir[c] \in exists
     THEN /\ phase' = [phase EXCEPT ![c] = "shell"]
          /\ \E d \in Dirs \cup {None} : dest' = [dest EXCEPT ![c] = d]
          /\ \E k \in {"none", "group", "own"} : child' = [child EXCEPT ![c] = k]
          /\ UNCHANGED result
     ELSE /\ Report(c, IF over[c] # None THEN over[c] ELSE "exit 0, not run")
          /\ UNCHANGED <<dest, child>>
  /\ UNCHANGED <<cwd, exists, removed, calls, dir, over, left, free>>

\* The command ends and the wrapper writes where.
ShellExits(c) ==
  /\ phase[c] = "shell" /\ phase' = [phase EXCEPT ![c] = "exited"]
  /\ UNCHANGED <<cwd, exists, removed, calls, dir, dest, child, over, result, left, free>>

\* The time limit or the cancelled query; while the shell runs its process group is
\* killed, and nothing is once it is gone.
ContextEnds(c) ==
  /\ phase[c] # "idle" /\ over[c] = None
  /\ \E why \in {"tool_timeout", "user_aborted"} : over' = [over EXCEPT ![c] = why]
  /\ IF phase[c] = "shell"
     THEN /\ phase' = [phase EXCEPT ![c] = "exited"] /\ dest' = [dest EXCEPT ![c] = None]
          /\ child' = [child EXCEPT ![c] = IF @ = "group" THEN "none" ELSE @]
     ELSE UNCHANGED <<phase, dest, child>>
  /\ UNCHANGED <<cwd, exists, removed, calls, dir, result, left, free>>

ChildEnds(c) ==
  /\ child[c] # "none" /\ child' = [child EXCEPT ![c] = "none"]
  /\ UNCHANGED <<cwd, exists, removed, calls, phase, dir, dest, over, result, left, free>>

Moves(c, code) == dest[c] \in exists

\* With the output closed the tool goes where the command left the shell.
Finish(c) ==
  /\ phase[c] = "exited" /\ child[c] = "none"
  /\ \E code \in {"exit 0", "exit 1"} :
       /\ Report(c, IF over[c] # None THEN over[c] ELSE code)
       /\ IF Moves(c, code)
          THEN cwd' = dest[c] /\ free' = [FreeOthers(c) EXCEPT ![c] = FALSE]
          ELSE UNCHANGED <<cwd, free>>
  /\ left' = [left EXCEPT ![c] = IF dest[c] \in exists THEN dest[c] ELSE dir[c]]
  /\ dest' = [dest EXCEPT ![c] = None]
  /\ UNCHANGED <<exists, removed, calls, dir, child, over>>

RemoveDirectory(d) ==
  /\ d \in exists \ {Origin} /\ removed < MaxMoves
  /\ exists' = exists \ {d} /\ removed' = removed + 1
  /\ UNCHANGED <<cwd, calls, proc, left, free>>

MakeDirectory(d) ==
  /\ d \notin exists /\ exists' = exists \cup {d}
  /\ UNCHANGED <<cwd, removed, calls, proc, left, free>>

Next ==
  \/ \E c \in Callers : Begin(c) \/ CheckDirectory(c) \/ Launch(c) \/ ShellExits(c) \/ ContextEnds(c)
                          \/ ChildEnds(c) \/ Finish(c)
  \/ \E d \in Dirs : RemoveDirectory(d) \/ MakeDirectory(d)

\* The tool goes on and the clock does: every context ends.
Fairness ==
  \A c \in Callers : WF_vars(CheckDirectory(c) \/ Launch(c) \/ Finish(c)) /\ WF_vars(ContextEnds(c))

Spec == Init /\ [][Next]_vars /\ Fairness

-----------------------------------------------------------------------------
(* Properties                                                              *)

\* The directory is kept between the commands of a conversation: a command starts where
\* the one before left the shell, unless another conversation moved the tool meanwhile
\* or the directory was gone.
CwdPersists ==
  /\ cwd \in Dirs
  /\ \A c \in Callers : phase[c] \in {"ready", "shell"} => dir[c] = left[c] \/ free[c]

\* What the description of the tool says, without the exception: refuted.
CwdIsKept == \A c \in Callers : phase[c] \in {"ready", "shell"} => dir[c] = left[c]

\* A command that did not run is not reported to have gone well: refuted.
NotRunIsTold == \A c \in Callers : result[c] # "exit 0, not run"

\* The time limit caps a call: refuted.
TimeoutCaps == \A c \in Callers : (phase[c] = "shell") ~> (phase[c] = "idle")
=============================================================================
