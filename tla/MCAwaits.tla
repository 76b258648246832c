------------------------------ MODULE MCAwaits ------------------------------
(***************************************************************************)
(* Who waits for whom: the awaits of a session (Awaits), and the runs of   *)
(* sub-agents with the calls that wait for them (Scheduler).  A behaviour  *)
(* is of one of the two.                                                   *)
(***************************************************************************)
EXTENDS Awaits, TLC

CONSTANTS Parts

CONSTANTS tool1, perm1, r1, r2, none, worker, helper, root

\* A client tool and a permission request, each under its own id.
MCAwaiters == {tool1, perm1}
MCPerms == {perm1}
MCIds == {"call_1", "perm_1"}
MCId == (tool1 :> "call_1") @@ (perm1 :> "perm_1")

VARIABLES
  part,  \* what this behaviour is of
  phase, buf, strat, fwd, carried, task, sent, got, term, seen, asked, shown, allowed, reply,
  plan, cancelled, crashed

\* A query starts a worker, which may start a helper in the foreground or in the
\* background; streams of one event.
S == INSTANCE Scheduler WITH
       Root <- root, Runs <- {worker, helper},
       Parent <- (worker :> root) @@ (helper :> worker),
       ToolOf <- (worker :> "dispatch") @@ (helper :> "freelance"),
       Planner <- {worker}, Cap <- 1, MaxTexts <- 1,
       held <- carried

runs == <<phase, buf, strat, fwd, carried, task, sent, got, term, seen, asked, shown, allowed,
          reply, plan, cancelled, crashed>>

MCInit == part \in Parts /\ Init /\ S!Init
MCNext ==
  \/ part = "awaits" /\ Next /\ UNCHANGED <<part, runs>>
  \/ part = "runs" /\ S!Next /\ UNCHANGED <<part, vars>>

\* What is not part of the behaviour stays as it starts: with no await, nothing is due;
\* with a query that could start runs, something is.
MCSpec ==
  /\ MCInit /\ [][MCNext]_<<part, vars, runs>>
  /\ Fairness /\ (part = "runs" => S!Fairness)

-----------------------------------------------------------------------------
\* The task table tells what became of the runs, a request for permission is never lost on
\* its way up, and a caller gets the whole of what a run sent (Scheduler).
RunsAreWhole == S!SchedulerInv /\ S!PermissionOnItsWay /\ S!ResultIsWhole

\* Every wait that is released ends (Awaits), and after the user's stop every foreground
\* call returns (Scheduler).
WaitsReturn == []<>(NoWaitIsHeld /\ S!NoCallIsHeld)

\* A background run goes on when the query that started it has ended (Scheduler).
BackgroundOutlivesQuery == S!BackgroundOutlivesQuery
=============================================================================
