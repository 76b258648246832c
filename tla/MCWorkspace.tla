---------------------------- MODULE MCWorkspace ----------------------------
(***************************************************************************)
(* The workspace of a session: its plan and the files of its tasks.  The two *)
(* share nothing that either changes, so one run checks one or the other.   *)
(***************************************************************************)
EXTENDS PlanWriter, TLC

CONSTANTS t1, t2, c1, c2, f1, f2, x1, x2, p1, p2, Blank, MaxWrites, MaxFailures

VARIABLES
  part,  \* "plan" or "files": what this behaviour is of
  texts, meta, delivered, step, written, result, copying, task, order, at, reviewed, writes,
  broken

Give(f, g) == [from |-> f, as |-> g]

F == INSTANCE TaskFiles WITH
       Tasks <- {t1}, Names <- {f1, f2}, Texts <- {x1, x2}, Promotes <- {p1, p2},
       Orders <- {<<Give(f1, f1)>>, <<Give(f1, f1), Give(f2, f2)>>,
                  <<Give(f1, f2), Give(f2, f1)>>},
       files <- texts, draft <- written, pc <- copying, faults <- broken,
       MaxFaults <- MaxFailures

fileVars == <<texts, meta, delivered, step, written, result, copying, task, order, at,
              reviewed, writes, broken>>

MCInit ==
  /\ part \in {"plan", "files"}
  /\ Init /\ (part = "files" => plan = None)
  /\ F!Init

MCNext ==
  \/ part = "plan" /\ Next /\ UNCHANGED <<part, fileVars>>
  \/ part = "files" /\ F!Next /\ UNCHANGED <<part, vars>>

MCSpec == MCInit /\ [][MCNext]_<<part, vars, fileVars>>

-----------------------------------------------------------------------------
\* Promotion is all or nothing but for a file at most for each failure of the file system,
\* what is promoted after a run is what was there to be judged, and no promotion replaces or
\* removes what another one delivered (TaskFiles).
PromotedWhole == [](F!AllOrNothing /\ F!PromotedAsReviewed) /\ F!PromotedStays
-----------------------------------------------------------------------------
Empty == [t \in {t1, t2} |-> None]
Started == [Empty EXCEPT ![t1] = Fresh({})]
Frozen == [Empty EXCEPT ![t1] = [Fresh({}) EXCEPT !.status = "done", !.ref = TRUE, !.frozen = TRUE]]

MCPlans == {None, Started, Frozen}
MCOperations ==
  {[kind |-> "create", task |-> t2, deps |-> {t1}],
   [kind |-> "status", task |-> t1, status |-> "done", ref |-> TRUE],
   [kind |-> "wipe", task |-> t1]}

Symmetry == Permutations({c1, c2}) \cup Permutations({x1, x2}) \cup Permutations({p1, p2})
=============================================================================
