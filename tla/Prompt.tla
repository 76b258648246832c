-------------------------------- MODULE Prompt --------------------------------
(***************************************************************************)
(* What a run of the loop is given before its first model call: the tools   *)
(* it may call and its system prompt.  emma's prompt is made once for each  *)
(* message of the user, from a conversation that has filled part of the     *)
(* model's window; the prompt of a sub-agent is made from its definition    *)
(* with nothing of the window used.  A prompt is made of sections, between  *)
(* which the rest of the window is divided.                                 *)
(***************************************************************************)
EXTENDS Naturals, Sequences, FiniteSets, FiniteSetsExt, Functions

CONSTANTS
  Windows,      \* context windows of models, in tokens
  Conversation, \* bound: tokens a conversation may have
  ToolOrder,    \* the names of the registered tools, sorted
  LineTokens,   \* tokens of the line that names a tool
  FullTokens,   \* tokens of emma's principles in full
  MainTools,    \* the tools emma is configured with; {} for all
  Definitions,  \* agents: [profile, display, allowed, blocked]
  RootKnown,    \* whether the session of the user and the workspace are known
  None          \* no run

MaxOutputTokens == 16384
MinSystemPromptTokens == 1000

\* Sections: the order of importance, whether the text is stable, and the
\* tokens without which a section is not worth its place.
Section ==
  [role        |-> [priority |-> 1,  cacheable |-> TRUE,  min |-> 50],
   team        |-> [priority |-> 2,  cacheable |-> FALSE, min |-> 30],
   principles  |-> [priority |-> 10, cacheable |-> TRUE,  min |-> 100],
   tools       |-> [priority |-> 20, cacheable |-> FALSE, min |-> 200],
   env         |-> [priority |-> 30, cacheable |-> FALSE, min |-> 20],
   memory      |-> [priority |-> 31, cacheable |-> FALSE, min |-> 30],
   skills      |-> [priority |-> 35, cacheable |-> TRUE,  min |-> 30],
   task        |-> [priority |-> 40, cacheable |-> FALSE, min |-> 20],
   currentdate |-> [priority |-> 90, cacheable |-> TRUE,  min |-> 5]]
Names == DOMAIN Section

\* Profiles: the sections, those left out, those with a text of their own, and
\* the share of the budget the tools are given, in hundredths.
WorkerSections == {"currentdate", "role", "principles", "tools", "env", "task"}
Worker == [sections |-> WorkerSections, excluded |-> {}, texts |-> {"principles"}, toolShare |-> 45]
Profile ==
  [emma            |-> [Worker EXCEPT !.sections = {"currentdate", "role", "team", "principles", "memory"},
                                      !.texts = {}],
   worker          |-> Worker,
   explore         |-> [Worker EXCEPT !.sections = @ \ {"task"}, !.toolShare = 60],
   plan            |-> [Worker EXCEPT !.excluded = {"memory"}],
   freelancer      |-> Worker,
   content_creator |-> Worker]

VARIABLES
  window,  \* tokens of the model's window
  conv,    \* tokens of emma's conversation
  enabled, \* the tools of the registry that are enabled
  team,    \* whether some agent is a member of the team
  run      \* None or the latest run that was set up

vars == <<window, conv, enabled, team, run>>

-----------------------------------------------------------------------------
(* The budget and its division                                             *)

Monus(a, b) == IF a > b THEN a - b ELSE 0

ComputeSystemPromptBudget(used) == Monus(window, used + MaxOutputTokens + (window * 5) \div 100)

\* The tiers of importance: identity and rules are guaranteed their place.
Guaranteed(s) == Section[s].priority < 20
Share(s, profile) ==
  LET p == Section[s].priority
  IN CASE p < 10 -> 10 [] p \in 10..19 -> 15 [] p \in 20..29 -> profile.toolShare
       [] p \in 30..49 -> 25 [] OTHER -> 5

LeastOf(s) == Section[s].min
LeastOfAll(sections) == MapThenSumSet(LeastOf, sections)

\* Too little for all: equal parts for what is guaranteed, if a part is enough.
AllocateEmergency(sections, budget) ==
  LET kept == {s \in sections : Guaranteed(s)}
      part == IF kept = {} THEN 0 ELSE budget \div Cardinality(kept)
  IN [s \in sections |-> IF s \in kept /\ part >= Section[s].min THEN part ELSE 0]

Ideal(s, budget, profile) == Max({(budget * Share(s, profile)) \div 100, Section[s].min})

More(s, sections) == {t \in sections : Section[t].priority < Section[s].priority}

\* Bug: the most important sections have all they want before the least is granted.
TrimByImportance(sections, budget, profile) ==
  LET Want(s) == Ideal(s, budget, profile)
  IN [s \in sections |-> Min({Want(s), Monus(budget, MapThenSumSet(Want, More(s, sections)))})]

\* What is left after every section has its least goes to the most important first.
Trim(sections, budget, profile) ==
  LET Want(s) == Ideal(s, budget, profile) - Section[s].min
      left == budget - LeastOfAll(sections)
  IN [s \in sections |->
        Section[s].min + Min({Want(s), Monus(left, MapThenSumSet(Want, More(s, sections)))})]

AllocateDynamic(sections, budget, profile) ==
  LET Wanted(s) == Ideal(s, budget, profile)
      demand == MapThenSumSet(Wanted, sections)
  IN IF budget < MinSystemPromptTokens \/ (demand > budget /\ LeastOfAll(sections) >= budget)
     THEN AllocateEmergency(sections, budget)
     ELSE IF demand > budget THEN Trim(sections, budget, profile)
     ELSE [s \in sections |-> Wanted(s) + ((budget - demand) * Wanted(s)) \div demand]

-----------------------------------------------------------------------------
(* The sections of a prompt                                                *)

\* Stable text comes first, then what is more important.
Before(s, t) ==
  IF Section[s].cacheable # Section[t].cacheable THEN Section[s].cacheable
  ELSE Section[s].priority < Section[t].priority

GetFiltered(profile) ==
  LET chosen == profile.sections \ profile.excluded
  IN [i \in 1..Cardinality(chosen) |->
        CHOOSE s \in chosen : Cardinality({t \in chosen : Before(t, s)}) = i - 1]

\* The tools that are described: those of the pool, or the registry's when the
\* caller gives no pool, as many as there is room for.
Described(pool, tokens) ==
  LET given == IF pool # {} THEN pool ELSE enabled
      listed == SelectSeq(ToolOrder, LAMBDA t : t \in given)
      room == Min({Len(listed), Monus(tokens, 3) \div LineTokens})
  IN {listed[i] : i \in 1..room}

\* What a section has to say to a run; "" for nothing.
RoleText(ctx) == ctx.identity
TeamText(ctx) == IF ctx.team THEN "members" ELSE ""
PrinciplesText(tokens) == IF FullTokens <= tokens THEN "full" ELSE "compact"
EnvText == "platform, shell, directory"
CurrentDateText == "today"

Text(s, ctx, tokens) ==
  CASE s = "role" -> RoleText(ctx)
    [] s = "team" -> TeamText(ctx)
    [] s = "principles" -> PrinciplesText(tokens)
    [] s = "tools" -> IF ctx.pool = {} /\ enabled = {} THEN "" ELSE "list"
    [] s = "env" -> EnvText
    [] s = "currentdate" -> CurrentDateText
    [] OTHER -> ""  \* nothing fills the memory, the task or the listing of skills

Build(ctx, profile) ==
  LET order == GetFiltered(profile)
      budget == ComputeSystemPromptBudget(ctx.used)
      alloc == AllocateDynamic(Range(order), budget, profile)
      Block(s) == [section |-> s, text |-> IF s \in profile.texts THEN "own" ELSE Text(s, ctx, alloc[s]),
                   tools |-> IF s = "tools" THEN Described(ctx.pool, alloc[s]) ELSE {}]
      Kept(s) == s \in profile.texts \/ (alloc[s] >= Section[s].min /\ Text(s, ctx, alloc[s]) # "")
      kept == SelectSeq(order, Kept)
  IN [budget |-> budget, alloc |-> alloc, blocks |-> [i \in DOMAIN kept |-> Block(kept[i])]]

-----------------------------------------------------------------------------
(* Runs                                                                    *)

Init ==
  /\ window \in Windows /\ conv \in Conversation /\ enabled = Range(ToolOrder)
  /\ team = FALSE /\ run = None

\* The conversation grows, or is compacted.
Converse ==
  /\ conv' \in Conversation \ {conv} /\ run' = None
  /\ UNCHANGED <<window, enabled, team>>

\* A tool is switched on or off by the management API; runs keep the pool they have.
Switch(t) ==
  /\ enabled' = (enabled \ {t}) \cup ({t} \ enabled)
  /\ UNCHANGED <<window, conv, team, run>>

\* The definitions change.
Recruit == team' = ~team /\ UNCHANGED <<window, conv, enabled, run>>

\* emma answers a message.
Query ==
  /\ LET pool == IF MainTools = {} THEN enabled ELSE enabled \cap MainTools
         ctx == [used |-> conv, pool |-> {}, team |-> team, identity |-> "emma"]
     IN run' = [agent |-> None, profile |-> "emma", pool |-> pool,
                prompt |-> Build(ctx, Profile.emma), cwd |-> "session", scope |-> "workspace"]
  /\ UNCHANGED <<window, conv, enabled, team>>

\* A profile nobody knows is a worker's.
ResolveProfile(name) == IF name \in DOMAIN Profile THEN name ELSE "worker"

\* An agent without a display name is introduced as emma.
BuildFunctionalIdentity(d) == IF d.display THEN "own" ELSE "emma"

\* The directory the agent may write is that of the task in the session of the
\* user; the one its prompt names is that of its own session.
BuildAgentScope == IF RootKnown THEN "task of session" ELSE ""

Spawn(d) ==
  /\ LET name == ResolveProfile(d.profile)
         pool == IF d.allowed # {} THEN enabled \cap d.allowed ELSE enabled \ d.blocked
         ctx == [used |-> 0, pool |-> pool, team |-> FALSE, identity |-> BuildFunctionalIdentity(d)]
     IN run' = [agent |-> d, profile |-> name, pool |-> pool,
                prompt |-> Build(ctx, Profile[name]), cwd |-> "own session", scope |-> BuildAgentScope]
  /\ UNCHANGED <<window, conv, enabled, team>>

Next ==
  \/ Converse \/ Recruit \/ Query
  \/ \E t \in Range(ToolOrder) : Switch(t)
  \/ \E d \in Definitions : Spawn(d)

Spec == Init /\ [][Next]_vars

-----------------------------------------------------------------------------
Blocks == Range(run.prompt.blocks)
Present == {b.section : b \in Blocks}

(* The sections never share out more than the window has room for, and from
   the least budget on, no section that has something to say loses its place
   to another. *)
RoomForAll ==
  run # None =>
    /\ MapThenSumSet(LAMBDA s : run.prompt.alloc[s], DOMAIN run.prompt.alloc) <= run.prompt.budget
    /\ run.prompt.budget >= MinSystemPromptTokens =>
         DOMAIN run.prompt.alloc \cap ({"role", "principles", "env", "currentdate"} \cup
             (IF run.pool = {} THEN {} ELSE {"tools"}))
           \subseteq Present

(* A prompt describes only tools that the run it belongs to can call, whatever
   was switched on or off since, if it can call any. *)
DescribedIsCallable ==
  run # None /\ run.pool # {} => \A b \in Blocks : b.tools \subseteq run.pool

-----------------------------------------------------------------------------
(* What comments say and the code does not do                              *)

(* loop/runtime/llm.go:165: the pool is given "so that" no prompt describes a
   tool its run cannot call. *)
DescribedIsAlwaysCallable ==
  run # None => \A b \in Blocks : b.tools \subseteq run.pool

(* loop/runtime/llm.go:139: the identity of its own keeps emma's from every
   sub-agent. *)
NoOtherIsEmma ==
  run # None /\ run.agent # None => \A b \in Blocks : b.section = "role" => b.text # "emma"

(* loop/runtime/llm.go:143: the working directory in the prompt is the task's. *)
NamedDirectoryIsTheTasks ==
  run # None /\ run.agent # None => run.cwd = run.scope

(* prompt/sections/currentdate.go:12: the date is the tail of the prompt. *)
DateLast ==
  run # None => LET b == run.prompt.blocks IN
    \A i \in DOMAIN b : b[i].section = "currentdate" => i = Len(b)
=============================================================================
