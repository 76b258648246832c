------------------------------ MODULE TaskFiles ------------------------------
(***************************************************************************)
(* The files of tasks.  A sub-agent writes them into the directory of its   *)
(* task with write and edit, closes the task with meta_write and submits    *)
(* it; emma promotes files of a task to the deliverables, at any moment and *)
(* in several calls at once.  Each system call that another tool can see    *)
(* the middle of is a step: a file is emptied before it is written, and a   *)
(* promotion creates, fills and closes one file after the other.            *)
(***************************************************************************)
EXTENDS Naturals, Sequences, FiniteSets, SequencesExt

CONSTANTS
  Tasks, Names, Texts,
  Promotes,   \* calls of promote
  Orders,     \* what a call may ask for: sequences of [from, as]
  Blank,      \* an empty file
  None,       \* no file, nothing
  MaxWrites,  \* bound: files written by a sub-agent
  MaxFaults   \* bound: failures of the file system

VARIABLES
  files,      \* the files of each task
  meta,       \* meta.json of each task: None, "part", "done" or "failed"
  delivered,  \* the deliverables: None or [by, text]
  step, draft, result,           \* sub-agents: step, text to be written, submission
  pc, task, order, at,           \* promotions: step, request, item
  reviewed,   \* ghost: the files of the task when the promotion was asked for, if its run was over
  writes, faults

agents == <<step, draft, result>>
promotions == <<pc, task, order, at, reviewed>>
vars == <<files, meta, delivered, agents, promotions, writes, faults>>

File == Texts \cup {Blank, None}

TypeOK ==
  /\ files \in [Tasks -> [Names -> File]]
  /\ meta \in [Tasks -> {None, "part", "done", "failed"}]
  /\ delivered \in [Names -> [by : Promotes, text : File] \cup {None}]
  /\ step \in [Tasks -> {"run", "write", "meta", "raw", "over"}]
  /\ result \in [Tasks -> {None, "accepted", "rejected"}]
  /\ pc \in [Promotes -> {"new", "open", "copy", "undo", "done", "refused", "failed"}]
  /\ task \in [Promotes -> Tasks \cup {None}]

Init ==
  /\ files = [t \in Tasks |-> [f \in Names |-> None]]
  /\ meta = [t \in Tasks |-> None] /\ delivered = [f \in Names |-> None]
  /\ step = [t \in Tasks |-> "run"] /\ draft = [t \in Tasks |-> None]
  /\ result = [t \in Tasks |-> None]
  /\ pc = [p \in Promotes |-> "new"] /\ task = [p \in Promotes |-> None]
  /\ order = [p \in Promotes |-> <<>>] /\ at = [p \in Promotes |-> 1]
  /\ reviewed = [p \in Promotes |-> None]
  /\ writes = [t \in Tasks |-> 0] /\ faults = 0

Failures(n) == faults + n <= MaxFaults /\ faults' = faults + n
Fault == Failures(1)

-----------------------------------------------------------------------------
(* The sub-agent of a task: its tools run one after the other.             *)

\* The system empties a file that is there before the text is written.
Writes(t, f, x) ==
  /\ step[t] = "run" /\ writes[t] < MaxWrites
  /\ writes' = [writes EXCEPT ![t] = @ + 1]
  /\ files' = [files EXCEPT ![t][f] = Blank]
  /\ draft' = [draft EXCEPT ![t] = [file |-> f, text |-> x]]
  /\ step' = [step EXCEPT ![t] = "write"]
  /\ UNCHANGED <<meta, delivered, result, promotions, faults>>

\* The same of meta.json, which write and edit do not tell from other files.
WritesMeta(t) ==
  /\ step[t] = "run" /\ writes[t] < MaxWrites
  /\ writes' = [writes EXCEPT ![t] = @ + 1]
  /\ meta' = [meta EXCEPT ![t] = "part"]
  /\ step' = [step EXCEPT ![t] = "raw"]
  /\ UNCHANGED <<files, delivered, draft, result, promotions, faults>>

\* Within its own directory a sub-agent writes any file, there or not.
FileWrite(t) == WritesMeta(t) \/ \E f \in Names, x \in Texts : Writes(t, f, x)

\* An edit writes the whole file again; one that changes nothing is refused.
FileEdit(t) ==
  \/ meta[t] # None /\ WritesMeta(t)
  \/ \E f \in Names, x \in Texts : files[t][f] \notin {None, x} /\ Writes(t, f, x)

Written(t) ==
  /\ step[t] = "write"
  /\ \/ files' = [files EXCEPT ![t][draft[t].file] = draft[t].text] /\ UNCHANGED faults
     \/ Fault /\ UNCHANGED files
  /\ draft' = [draft EXCEPT ![t] = None]
  /\ step' = [step EXCEPT ![t] = "run"]
  /\ UNCHANGED <<meta, delivered, result, promotions, writes>>

\* meta_write creates the file, which must not be there ...
MetaOpen(t) ==
  /\ step[t] = "run" /\ meta[t] = None
  /\ meta' = [meta EXCEPT ![t] = "part"]
  /\ step' = [step EXCEPT ![t] = "meta"]
  /\ UNCHANGED <<files, delivered, draft, result, promotions, writes, faults>>

\* ... and then writes it; after a failure it is there and cannot be written again.
MetaFill(t) ==
  /\ step[t] = "meta"
  /\ \/ \E status \in {"done", "failed"} : meta' = [meta EXCEPT ![t] = status] /\ UNCHANGED faults
     \/ Fault /\ UNCHANGED meta
  /\ step' = [step EXCEPT ![t] = "run"]
  /\ UNCHANGED <<files, delivered, draft, result, promotions, writes>>

\* What write and edit make of meta.json is whole or not.
MetaWritten(t) ==
  /\ step[t] = "raw"
  /\ \E m \in {"part", "done", "failed"} : meta' = [meta EXCEPT ![t] = m]
  /\ step' = [step EXCEPT ![t] = "run"]
  /\ UNCHANGED <<files, delivered, draft, result, promotions, writes, faults>>

MetaValid(m) == m \in {"done", "failed"}

\* submit_task_result reads meta.json, and not the files it names; or it is given a result,
\* which the schema of the task accepts or not, and reads no file.
Submit(t) ==
  /\ step[t] = "run"
  /\ \/ result' = [result EXCEPT ![t] = IF MetaValid(meta[t]) THEN "accepted" ELSE "rejected"]
     \/ \E r \in {"accepted", "rejected"} : result' = [result EXCEPT ![t] = r]
  /\ UNCHANGED <<files, meta, delivered, step, draft, promotions, writes, faults>>

\* The run ends, whatever was submitted.
RunEnds(t) ==
  /\ step[t] = "run"
  /\ step' = [step EXCEPT ![t] = "over"]
  /\ UNCHANGED <<files, meta, delivered, draft, result, promotions, writes, faults>>

-----------------------------------------------------------------------------
(* A call of promote                                                       *)

Goto(p, where) == pc' = [pc EXCEPT ![p] = where]

Sources(o) == {o[i].from : i \in DOMAIN o}
Targets(o) == {o[i].as : i \in DOMAIN o}

\* No name twice, every source there, no target there.
PreCheck(t, o) ==
  /\ IsInjective([i \in DOMAIN o |-> o[i].from]) /\ IsInjective([i \in DOMAIN o |-> o[i].as])
  /\ \A f \in Sources(o) : files[t][f] # None
  /\ \A g \in Targets(o) : delivered[g] = None

Promote(p, t, o) ==
  /\ pc[p] = "new"
  /\ task' = [task EXCEPT ![p] = t] /\ order' = [order EXCEPT ![p] = o]
  /\ reviewed' = [reviewed EXCEPT ![p] = IF step[t] = "over" THEN files[t] ELSE None]
  /\ Goto(p, IF PreCheck(t, o) THEN "open" ELSE "refused")
  /\ UNCHANGED <<files, meta, delivered, agents, at, writes, faults>>

Item(p) == order[p][at[p]]
SourceText(p) == files[task[p]][Item(p).from]

\* The target is created, which fails when it is there by now.
OpenNew(p, g) ==
  delivered[g] = None /\ delivered' = [delivered EXCEPT ![g] = [by |-> p, text |-> Blank]]

CopyOpen(p) ==
  /\ pc[p] = "open"
  /\ \/ OpenNew(p, Item(p).as) /\ Goto(p, "copy") /\ UNCHANGED faults
     \/ delivered[Item(p).as] # None /\ Goto(p, "undo") /\ UNCHANGED <<delivered, faults>>
     \/ Fault /\ Goto(p, "undo") /\ UNCHANGED delivered
  /\ UNCHANGED <<files, meta, agents, task, order, at, reviewed, writes>>

\* What the source holds by now is copied.
Copied(p) == delivered' = [delivered EXCEPT ![Item(p).as].text = SourceText(p)]

Copy(p) ==
  /\ pc[p] = "copy"
  /\ \/ /\ Copied(p)
        /\ at' = [at EXCEPT ![p] = @ + 1]
        /\ Goto(p, IF at[p] = Len(order[p]) THEN "done" ELSE "open")
        /\ UNCHANGED faults
     \/ \* the copy fails: this file is removed at once
        /\ Fault /\ delivered' = [delivered EXCEPT ![Item(p).as] = None]
        /\ Goto(p, "undo") /\ UNCHANGED at
     \/ \* the copy fails, and so does the removal
        /\ Failures(2) /\ UNCHANGED delivered
        /\ Goto(p, "undo") /\ UNCHANGED at
     \/ \* the close fails: the file stays, and is not among those that were copied
        /\ Fault /\ Copied(p)
        /\ Goto(p, "undo") /\ UNCHANGED at
  /\ UNCHANGED <<files, meta, agents, task, order, reviewed, writes>>

\* Bug: the one that failed is removed too.
RollbackFailedToo(p) == {order[p][i].as : i \in 1..at[p]}

\* The files copied before the one that failed.
RollbackAll(p) == {order[p][i].as : i \in 1..(at[p] - 1)}

\* Each is removed, or the system cannot remove it, which nobody is told.
Rollback(p) ==
  /\ pc[p] = "undo"
  /\ \E kept \in SUBSET RollbackAll(p) :
       /\ Failures(Cardinality(kept))
       /\ delivered' = [f \in Names |-> IF f \in RollbackAll(p) \ kept THEN None ELSE delivered[f]]
  /\ Goto(p, "failed")
  /\ UNCHANGED <<files, meta, agents, task, order, at, reviewed, writes>>

Next ==
  \/ \E t \in Tasks : \/ FileWrite(t) \/ FileEdit(t) \/ Written(t)
                      \/ MetaOpen(t) \/ MetaFill(t) \/ MetaWritten(t)
                      \/ Submit(t) \/ RunEnds(t)
  \/ \E p \in Promotes : \/ \E t \in Tasks, o \in Orders : Promote(p, t, o)
                         \/ CopyOpen(p) \/ Copy(p) \/ Rollback(p)

Spec == Init /\ [][Next]_vars

-----------------------------------------------------------------------------
(* Properties                                                              *)

By(p) == {g \in Names : delivered[g] # None /\ delivered[g].by = p}

\* What failed promotions have left behind.
LeftBehind == UNION {By(p) : p \in {q \in Promotes : pc[q] = "failed"}}

\* A promotion delivers all it was asked for or nothing, but for one file at most for each
\* time the file system failed: a close or a removal that failed leaves its file, and a
\* promotion that failed for another reason, as another one's file of that name, leaves none.
AllOrNothing ==
  /\ TypeOK
  /\ \A p \in Promotes :
       /\ pc[p] = "done" => By(p) = Targets(order[p])
       /\ pc[p] \in {"new", "refused"} => By(p) = {}
  /\ Cardinality(LeftBehind) <= faults

\* The program's own wording (promote.go): all of it, or the file system as it was.  Refuted
\* by a close or a removal that fails.
FailedLeavesNothing == LeftBehind = {}

\* What is promoted after a run is what was there to be judged.
PromotedAsReviewed ==
  \A p \in Promotes : pc[p] = "done" /\ reviewed[p] # None =>
    \A i \in DOMAIN order[p] : delivered[order[p][i].as].text = reviewed[p][order[p][i].from]

\* No promotion replaces or removes what another one delivered.
PromotedStays ==
  [][\A g \in Names, p \in Promotes :
       delivered[g] # None /\ delivered[g].by # p /\ pc'[p] # pc[p] =>
         delivered'[g] = delivered[g]]_vars

\* A submission that was accepted has a whole meta.json, from then on.  Refuted: a submission
\* with a result has none, and write and edit may overwrite it.
AcceptedIsWhole == \A t \in Tasks : result[t] = "accepted" => MetaValid(meta[t])

\* The program's own wording of meta_write, "single-shot", leaves a task that can be
\* finished: refuted by a failed write.
MetaCanBeFinished == \A t \in Tasks : step[t] = "run" => meta[t] # "part"
=============================================================================
