------------------------------ MODULE MediaJobs ------------------------------
(***************************************************************************)
(* The tools that make images and videos.  image_generate asks the provider *)
(* once, fetches the images it named and writes each to a file;             *)
(* video_create submits a job, and video_query watches one until it ends or *)
(* the time of the call is over, then downloads and writes the video.  Both *)
(* retry the provider, and tell the client of the files they made.          *)
(***************************************************************************)
EXTENDS Naturals, FiniteSets

CONSTANTS
  Calls,        \* tool calls
  Jobs,         \* videos at the provider
  MaxImages,    \* bound: images of a call
  MaxAttempts,  \* attempts at one request: one and three retries
  MaxPolls,     \* bound: polls within the time of a call
  None          \* no call

VARIABLES
  job,       \* jobs: "none", "running" or how it ended
  call,      \* calls: what each does
  files,     \* files: "absent", "partial" or "whole"
  told,      \* files the client was told of
  cancelled  \* calls whose query was cancelled

vars == <<job, call, files, told, cancelled>>

Ends == {"succeeded", "failed", "expired", "cancelled", "not_found"}

\* An image's file has a name of its own, a video's is named by its job.
ImageFile(c, i) == [of |-> c, image |-> i]
VideoFile(j) == [of |-> j, image |-> 0]
Files == {ImageFile(c, i) : c \in Calls, i \in 1..MaxImages} \cup {VideoFile(j) : j \in Jobs}

At(c, p) == call[c].at = p
Move(c, p) == call' = [call EXCEPT ![c].at = p, ![c].attempt = 1]
File(c) == IF call[c].tool = "image" THEN ImageFile(c, call[c].done + 1) ELSE VideoFile(call[c].job)

New == [tool |-> "none", at |-> "idle", attempt |-> 1, images |-> 0, done |-> 0, polls |-> 0,
        job |-> None, result |-> "none"]

Init ==
  /\ job = [j \in Jobs |-> "none"]
  /\ call = [c \in Calls |-> New]
  /\ files = [f \in Files |-> "absent"]
  /\ told = {}
  /\ cancelled = {}

End(c, r) == call' = [call EXCEPT ![c].at = "over", ![c].result = r]

-----------------------------------------------------------------------------
(* The provider                                                            *)

JobEnds(j) ==
  /\ job[j] = "running"
  /\ \E e \in Ends : job' = [job EXCEPT ![j] = e]
  /\ UNCHANGED <<call, files, told, cancelled>>

\* Another attempt, after a pause, unless the query is cancelled or all are used up.
Retry(c) ==
  /\ call[c].attempt < MaxAttempts /\ c \notin cancelled
  /\ call' = [call EXCEPT ![c].attempt = @ + 1]

\* A request of a call fails: errors of permission and of validation are final.
Fail(c, p) ==
  /\ At(c, p)
  /\ \/ End(c, "error")
     \/ Retry(c)
  /\ UNCHANGED <<job, files, told, cancelled>>

Cancel(c) ==
  /\ call[c].at \notin {"idle", "over"}
  /\ cancelled' = cancelled \cup {c}
  /\ UNCHANGED <<job, call, files, told>>

-----------------------------------------------------------------------------
(* image_generate                                                          *)

StartImage(c) ==
  /\ At(c, "idle")
  /\ call' = [call EXCEPT ![c].tool = "image", ![c].at = "generate"]
  /\ UNCHANGED <<job, files, told, cancelled>>

\* The answer names some images; without any the call fails.
Generate(c, n) ==
  /\ At(c, "generate")
  /\ IF n = 0 THEN End(c, "error")
     ELSE call' = [call EXCEPT ![c].at = "fetch", ![c].images = n]
  /\ UNCHANGED <<job, files, told, cancelled>>

\* resolveImageBytes: no second attempt.
Fetch(c) ==
  /\ At(c, "fetch")
  /\ \/ Move(c, "write")
     \/ End(c, "error")
  /\ UNCHANGED <<job, files, told, cancelled>>

-----------------------------------------------------------------------------
(* video_create and video_query                                            *)

\* The job may run although the answer of the provider is lost.
Submit(c, j) ==
  /\ At(c, "idle") /\ job[j] = "none"
  /\ \/ job' = [job EXCEPT ![j] = "running"]
     \/ UNCHANGED job
  /\ \E r \in IF job'[j] = "running" THEN {"ok", "error"} ELSE {"error"} :
       call' = [call EXCEPT ![c] = [New EXCEPT !.tool = "create", !.at = "over", !.job = j, !.result = r]]
  /\ UNCHANGED <<files, told, cancelled>>

\* The model may ask for any job it heard of.
StartQuery(c, j) ==
  /\ At(c, "idle")
  /\ call' = [call EXCEPT ![c].tool = "query", ![c].at = "poll", ![c].job = j]
  /\ UNCHANGED <<job, files, told, cancelled>>

\* queryOnce while the time of the call is not over, and once more when it is.
Poll(c) ==
  /\ At(c, "poll")
  /\ LET s == IF job[call[c].job] = "none" THEN "not_found" ELSE job[call[c].job] IN
     CASE s = "succeeded" -> Move(c, "download")
       [] s = "running" ->
            IF call[c].polls < MaxPolls
            THEN call' = [call EXCEPT ![c].polls = @ + 1, ![c].attempt = 1]
            ELSE End(c, "running")
       [] OTHER -> End(c, s)
  /\ UNCHANGED <<job, files, told, cancelled>>

\* finishSuccess: a video that cannot be downloaded is reported by its address.
Download(c) ==
  /\ At(c, "download")
  /\ \/ Move(c, "write")
     \/ Retry(c)
     \/ End(c, "address")
  /\ UNCHANGED <<job, files, told, cancelled>>

-----------------------------------------------------------------------------
(* Files: os.WriteFile empties the file and then fills it.                 *)

BeginWrite(c) ==
  /\ At(c, "write")
  /\ \/ /\ files' = [files EXCEPT ![File(c)] = "partial"]
        /\ Move(c, "filling")
     \/ UNCHANGED files /\ End(c, "error")
  /\ UNCHANGED <<job, told, cancelled>>

\* The next image, or the files are there and the client is told of them.
EndWrite(c) ==
  /\ At(c, "filling")
  /\ \/ /\ files' = [files EXCEPT ![File(c)] = "whole"]
        /\ call' = [call EXCEPT ![c].done = @ + 1,
                      ![c].at = IF call[c].tool = "image" /\ call[c].done + 1 < call[c].images
                                THEN "fetch" ELSE "tell"]
     \/ UNCHANGED files /\ End(c, "error")
  /\ UNCHANGED <<job, told, cancelled>>

\* Bug: the client is told of every image the provider named.
Named(c) == IF call[c].tool = "image" THEN {ImageFile(c, i) : i \in 1..MaxImages}
            ELSE {VideoFile(call[c].job)}

Made(c) == IF call[c].tool = "image" THEN {ImageFile(c, i) : i \in 1..call[c].done}
           ELSE {VideoFile(call[c].job)}

\* emitDeliverables: an event is dropped if the channel is full.
Tell(c, S) ==
  /\ At(c, "tell")
  /\ S \subseteq Made(c)
  /\ told' = told \cup S
  /\ End(c, "ok")
  /\ UNCHANGED <<job, files, cancelled>>

Next ==
  \/ \E j \in Jobs : JobEnds(j)
  \/ \E c \in Calls :
       \/ StartImage(c) \/ Fetch(c) \/ Poll(c) \/ Download(c) \/ BeginWrite(c) \/ EndWrite(c) \/ Cancel(c)
       \/ \E p \in {"generate", "poll"} : Fail(c, p)
       \/ \E n \in 0..MaxImages : Generate(c, n)
       \/ \E j \in Jobs : Submit(c, j) \/ StartQuery(c, j)
       \/ \E S \in SUBSET Made(c) : Tell(c, S)

-----------------------------------------------------------------------------
TypeOK ==
  /\ job \in [Jobs -> {"none", "running"} \cup Ends]
  /\ files \in [Files -> {"absent", "partial", "whole"}]
  /\ told \subseteq Files
  /\ \A c \in Calls :
       /\ call[c].attempt \in 1..MaxAttempts
       /\ call[c].polls \in 0..MaxPolls
       /\ call[c].done \in 0..MaxImages

\* A call that succeeds, and every file the client is told of, stands for a file that
\* was written to its end, and a video is there only if its job succeeded; only a
\* second query for the same job can empty the file again, while it writes or when its
\* writing fails (imagegen.go Execute, query.go finishSuccess).
ToldIsWritten ==
  /\ TypeOK
  /\ \A c \in Calls : call[c].result = "ok" /\ call[c].tool # "create" =>
       \A f \in Made(c) :
         \/ files[f] = "whole"
         \/ \E d \in Calls \ {c} : call[d].tool = "query" /\ call[d].job = call[c].job
  /\ \A f \in told :
       \E c \in Calls : call[c].result = "ok" /\ f \in Made(c)
  /\ \A j \in Jobs : files[VideoFile(j)] # "absent" => job[j] = "succeeded"
  /\ \A c \in Calls : call[c].tool = "create" /\ call[c].result = "ok" => job[call[c].job] # "none"
=============================================================================
