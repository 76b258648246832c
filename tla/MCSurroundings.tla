--------------------------- MODULE MCSurroundings ---------------------------
(***************************************************************************)
(* What surrounds a conversation: the configuration of its models           *)
(* (ModelConfig); the task list, the skills of a run, the definitions of    *)
(* agents and the files of media jobs, kept for it; and the browser, the    *)
(* shell, the web and the user's files, which its tools reach.  They share  *)
(* nothing that any of them changes, so a behaviour is of one.              *)
(***************************************************************************)
EXTENDS ModelConfig, TLC

\* Two who act at once: requests, agents, callers or sessions, whatever part it is.
CONSTANTS
  p1, p2, x1, x2, c1, Free, k1, s1, s2, d1, d2, d3, j1, j2, o1, o2, w1

\* Endpoints 1 and 2 belong to p1, 3 to p2.
MCOwner == [e \in {1, 2, 3} |-> IF e = 3 THEN p2 ELSE p1]

Dotted(e) == [ep |-> e, dot |-> TRUE]

Symmetry == Permutations({x1, x2})

On == [key |-> 0, off |-> FALSE]
Max2 == [max |-> 2, off |-> FALSE]

\* One provider with one endpoint; and two endpoints, one referred to in the old form.
MCStarts ==
  {[creds |-> [p \in {p1, p2} |-> IF p = p1 THEN On ELSE None],
    eps |-> [e \in 1..3 |-> IF e = 1 \/ (two /\ e = 2) THEN Max2 ELSE None],
    primary |-> Canonical(1), fallback |-> IF two THEN <<Dotted(2)>> ELSE <<>>,
    tokens |-> 0, media |-> [m \in Media |-> 0], tools |-> 0] : two \in BOOLEAN}

MCPrimaries == {None, Canonical(1), Canonical(3), Dotted(2)}
MCChains == {<<>>, <<Canonical(2)>>, <<Dotted(2), Canonical(3)>>}
-----------------------------------------------------------------------------
VARIABLES
  part,  \* what this behaviour is of
  store, rows, away, seq, holder, read, born, acked, owed, lives,
  skills, cards, fresh, stage, todo, job, tracker, prompt, notes,
  table, registry, version, req, raced,
  video, media, made, told, cancelled,
  step, turn, batch, at, st, res, binding, target, browser, known, aborted, terminal, latest, gone,
  cwd, exists, removed, begun, phase, dir, dest, child, over, result, left, free,
  kind, reply, report, stats,
  tree, lines, next, pages, call, outcome

T == INSTANCE TaskList WITH
       Agents <- {x1, x2}, MaxId <- 2, MaxLives <- 3, kind <- store, lock <- holder
S == INSTANCE Skills WITH
       Runs <- {k1}, Names <- {s1, s2}, Budget <- 1, MaxVersion <- 2, Oversize <- {2},
       MaxNotes <- 3, disk <- skills, phase <- stage
D == INSTANCE AgentDefs WITH
       Requests <- {x1, x2}, Names <- {d1, d2, d3}, Builtins <- {d2, d3}, Reserved <- {d2},
       Browser <- {}, MaxVersion <- 4
M == INSTANCE MediaJobs WITH
       Calls <- {x1, x2}, Jobs <- {j1, j2}, MaxImages <- 2, MaxAttempts <- 2, MaxPolls <- 1,
       job <- video, call <- media, files <- made
B == INSTANCE Browser WITH
       Sessions <- {x1, x2}, MaxTurns <- 3, MaxCalls <- 2, MaxTab <- 1,
       phase <- step, cancelled <- aborted, shut <- gone
H == INSTANCE Shell WITH
       Callers <- {x1, x2}, Dirs <- {o1, o2}, Origin <- o1, MaxCalls <- 2, MaxMoves <- 1,
       calls <- begun
L == INSTANCE LookupTools WITH
       Calls <- {w1}, MaxPage <- 5, MaxBody <- 4, MaxText <- 3, Letters <- {"x"},
       Names <- {"a", "b"}, MaxDepth <- 3, MaxPaths <- 4, MaxPattern <- 3, MaxResults <- 2,
       MaxLines <- 5, MaxLimit <- 2

taskVars == <<store, rows, away, seq, holder, read, born, acked, owed, lives>>
skillVars == <<skills, cards, fresh, stage, todo, job, tracker, prompt, notes>>
defVars == <<table, registry, version, req, raced>>
mediaVars == <<video, media, made, told, cancelled>>
keptVars == <<taskVars, skillVars, defVars, mediaVars>>
browserVars == <<step, turn, batch, at, st, res, binding, target, browser, known, aborted,
                 terminal, latest, gone>>
shellVars == <<cwd, exists, removed, begun, phase, dir, dest, child, over, result, left, free>>
webVars == <<kind, reply, report, stats>>
fileVars == <<tree, lines, next, pages, call, outcome>>
reachVars == <<browserVars, shellVars, webVars, fileVars>>

MCInit ==
  /\ part \in {"models", "tasks", "skills", "definitions", "media", "browser", "shell", "web", "files"}
  /\ Init /\ (part # "models" => EffectiveChain(mem) = <<Canonical(1)>>)
  /\ T!Init /\ (part # "tasks" => store = "sqlite")
  /\ S!Init /\ (part # "skills" => skills = [n \in {s1, s2} |-> 0])
  /\ D!Init /\ M!Init /\ B!Init /\ H!Init
  /\ L!Init /\ (part # "web" => kind = [c \in {w1} |-> "web_fetch"])
  /\ (part # "files" => tree = <<L!Root>> /\ lines = 0)

Kept ==
  \/ part = "tasks" /\ T!Next /\ UNCHANGED <<part, vars, reachVars, skillVars, defVars, mediaVars>>
  \/ part = "skills" /\ S!Next /\ UNCHANGED <<part, vars, reachVars, taskVars, defVars, mediaVars>>
  \/ part = "definitions" /\ D!Next
       /\ UNCHANGED <<part, vars, reachVars, taskVars, skillVars, mediaVars>>
  \/ part = "media" /\ M!Next /\ UNCHANGED <<part, vars, reachVars, taskVars, skillVars, defVars>>

Reach ==
  \/ part = "browser" /\ B!Next /\ UNCHANGED <<part, vars, keptVars, shellVars, webVars, fileVars>>
  \/ part = "shell" /\ H!Next /\ UNCHANGED <<part, vars, keptVars, browserVars, webVars, fileVars>>
  \/ part = "web" /\ L!WebNext
       /\ UNCHANGED <<part, vars, keptVars, browserVars, shellVars, fileVars>>
  \/ part = "files" /\ L!FilesNext
       /\ UNCHANGED <<part, vars, keptVars, browserVars, shellVars, webVars>>

MCNext == (part = "models" /\ Next /\ UNCHANGED <<part, keptVars, reachVars>>) \/ Kept \/ Reach
MCSpec == MCInit /\ [][MCNext]_<<part, vars, keptVars, reachVars>>

-----------------------------------------------------------------------------
\* In a behaviour of another part a component stays as it starts.

\* What is dispatched is made from the configuration the manager answers with, and the
\* file gives the same one to the next start (ModelConfig).
ConfigIsKept == part = "models" => ServedAsConfigured /\ FileKeepsUp

\* What was answered is still there: tasks of the list and their updates (TaskList), and files
\* the model and the client were told of (MediaJobs).
ToldIsKept == part \in {"tasks", "media"} => T!UpdatesStay /\ M!ToldIsWritten

\* What runs use is what is stored and shown: the registry of agents is the table's
\* (AgentDefs), and a run's tracker and its conversation agree on its skills (Skills).
UsedIsShown == part \in {"definitions", "skills"} => D!RegistryIsTable /\ S!TrackedAsShown

\* Tools act on what the results before said: the commands of a browser agent go to the
\* session and tab it was told of (Browser), those of the shell to the directory the
\* conversation left (Shell), a fetched page is shown as its text, and glob and read
\* return what is meant (LookupTools).
ActsAsTold ==
  part \in {"browser", "shell", "web", "files"} =>
    B!CommandsFollowResults /\ H!CwdPersists /\ L!PageIsText /\ L!FindsWhatIsMeant
=============================================================================
