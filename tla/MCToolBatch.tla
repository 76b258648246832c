---------------------------- MODULE MCToolBatch ----------------------------
(***************************************************************************)
(* A run of the loop and its tools: the calls of a turn (ToolBatch), and    *)
(* what a run is given when it is set up (Prompt).  A behaviour is of one.  *)
(***************************************************************************)
EXTENDS ToolBatch, TLC

Plain == [enabled |-> TRUE, readOnly |-> FALSE, concurrent |-> FALSE, client |-> FALSE,
          long |-> FALSE, edits |-> FALSE, risky |-> FALSE, dispatch |-> FALSE,
          blocked |-> FALSE, pre |-> "none"]

MCTools == {"bash", "read", "edit", "plan_update", "freelance", "browser", "gone"}
MCKind == [t \in MCTools |->
  CASE t = "bash" -> [Plain EXCEPT !.risky = TRUE]
    [] t = "read" -> [Plain EXCEPT !.readOnly = TRUE]
    [] t = "edit" -> [Plain EXCEPT !.edits = TRUE]
    [] t = "plan_update" -> [Plain EXCEPT !.concurrent = TRUE]
    [] t = "freelance" -> [Plain EXCEPT !.pre = "allow", !.dispatch = TRUE, !.long = TRUE,
                           !.concurrent = TRUE, !.blocked = TRUE]
    [] t = "browser" -> [Plain EXCEPT !.client = TRUE]
    [] OTHER -> [Plain EXCEPT !.enabled = FALSE]]

Is(t) == [tool |-> t, key |-> IF t = "bash" THEN "bash:git" ELSE IF t = "edit" THEN "edit:f" ELSE t]
MCBatches ==
  {<<Is("bash"), Is("read"), Is("bash")>>, <<Is("edit"), Is("plan_update"), Is("gone")>>,
   <<Is("browser"), Is("browser"), Is("freelance")>>, <<Is("freelance"), Is("edit")>>}

Agent == [main |-> TRUE, mode |-> "default", allowed |-> {}, denied |-> {}, list |-> {},
          strip |-> FALSE, inherited |-> {}, asks |-> TRUE]
MCSettings ==
  {[Agent EXCEPT !.mode = m, !.denied = d] : m \in Modes, d \in {{}, {"bash", "freelance"}}}
  \cup {[Agent EXCEPT !.denied = {"edit"}, !.allowed = {"edit", "bash"}, !.list = MCTools \ {"read"}],
        [Agent EXCEPT !.main = FALSE, !.asks = FALSE],
        [Agent EXCEPT !.main = FALSE, !.inherited = {"edit"}, !.list = {"bash", "freelance"}, !.strip = TRUE],
        [Agent EXCEPT !.main = FALSE, !.inherited = {"bash:git"}]}

-----------------------------------------------------------------------------
VARIABLES part, window, conv, enabled, team, run

promptVars == <<window, conv, enabled, team, run>>

Definition == [profile |-> "worker", display |-> TRUE, allowed |-> {}, blocked |-> {"freelance"}]

P == INSTANCE Prompt WITH
       Windows <- {16000, 18600, 20000, 40000},
       Conversation <- {0, 1000, 2500, 20000},
       ToolOrder <- <<"bash", "freelance", "read">>, LineTokens <- 300, FullTokens <- 500,
       MainTools <- {"bash", "freelance"},
       Definitions <-
         {Definition, [Definition EXCEPT !.profile = "explore", !.allowed = {"read", "bash"}],
          [Definition EXCEPT !.profile = "plan", !.allowed = {"freelance"}],
          [Definition EXCEPT !.profile = "full", !.display = FALSE]},
       RootKnown <- TRUE

MCInit ==
  /\ part \in {"batch", "prompt"}
  /\ Init /\ (part # "batch" => agent = Agent /\ Len(batch) = 2)
  /\ P!Init /\ (part # "prompt" => window = 16000 /\ conv = 0)

MCNext ==
  \/ part = "batch" /\ Next /\ UNCHANGED <<part, promptVars>>
  \/ part = "prompt" /\ P!Next /\ UNCHANGED <<part, vars>>

MCSpec ==
  /\ MCInit /\ [][MCNext]_<<part, vars, promptVars>>
  /\ (part = "batch" => Fairness)

\* The sections of a prompt have the room they need, and describe tools its run can call
\* (Prompt).
PromptIsFit == P!RoomForAll /\ P!DescribedIsCallable

\* A batch ends after its query was cancelled, whatever the user and the client do, with each
\* call answered and none left registered, as long as the reader of its events goes on
\* (ToolBatch).
BatchIsAnswered == cancelled ~> (Finished /\ EveryCallAnswered)
=============================================================================
