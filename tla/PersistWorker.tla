---------------------------- MODULE PersistWorker ----------------------------
(***************************************************************************)
(* The debounced background writer of a session (session/persist.go, and   *)
(* stats_persist.go, which is the same loop over the stats snapshot):      *)
(* mutators signal a one-slot channel, the loop arms a timer and saves     *)
(* when it fires, Flush asks for a save and waits for it, Stop flushes,    *)
(* ends the loop and joins it.                                             *)
(*                                                                         *)
(* The session's content is a version number.  Time is counted in ticks    *)
(* and passes only while the worker has nothing it could do at once, so a  *)
(* deadline that is missed here is missed by the algorithm and not by a    *)
(* slow scheduler.                                                         *)
(***************************************************************************)
EXTENDS Naturals, Sequences, FiniteSets

CONSTANTS
  Callers,     \* goroutines that call Flush (PersistAll, CleanupIdle, Stop)
  Stopper,     \* the caller that runs Stop: a Flush, then close and join
  Debounce,    \* the window, in ticks
  QueueCap,    \* capacity of flushNow
  StoreFails,  \* may SaveSession return an error?
  MaxVersion,  \* bound: mutations
  MaxAge,      \* bound: ticks counted by age and quiet
  Off          \* no timer, no caller

ASSUME WorkerAssumption ==
  /\ Stopper \in Callers
  /\ Debounce \in Nat \ {0}
  /\ QueueCap \in Nat \ {0}
  /\ StoreFails \in BOOLEAN
  /\ MaxVersion \in Nat
  /\ MaxAge \in Nat
  /\ Off \notin Nat \cup Callers

VARIABLES
  mem,      \* version of the session in memory
  stored,   \* version of the row in the store
  dirty,    \* the dirty channel holds a signal
  timer,    \* ticks until the debounce timer fires, or Off
  loop,     \* where the worker's goroutine is
  snap,     \* version SaveSession is writing
  serving,  \* the caller this save will acknowledge, or Off
  flushNow, \* queued flush requests
  caller,   \* where each caller is
  need,     \* version in memory when it asked
  stop,     \* the stop channel is closed
  age,      \* ticks the oldest unsaved mutation has waited
  quiet     \* ticks since the last mutation

workerVars == <<timer, loop, snap, serving>>
callerVars == <<caller, need, stop>>
clocks     == <<age, quiet>>
vars == <<mem, stored, dirty, workerVars, flushNow, callerVars, clocks>>

Asking == {"sending", "waiting"}
Returned == {"acked", "refused", "timeout"}

TypeOK ==
  /\ mem \in Nat /\ stored \in Nat /\ snap \in Nat
  /\ dirty \in BOOLEAN
  /\ timer \in 0 .. Debounce \cup {Off}
  /\ loop \in {"select", "saving", "exited"}
  /\ serving \in Callers \cup {Off}
  /\ flushNow \in Seq(Callers)
  /\ caller \in [Callers -> {"idle", "joining", "joined"} \cup Asking \cup Returned]
  /\ need \in [Callers -> Nat]
  /\ stop \in BOOLEAN
  /\ age \in Nat /\ quiet \in Nat

Init ==
  /\ mem = 0 /\ stored = 0 /\ snap = 0
  /\ dirty = FALSE
  /\ timer = Off
  /\ loop = "select"
  /\ serving = Off
  /\ flushNow = <<>>
  /\ caller = [c \in Callers |-> "idle"]
  /\ need = [c \in Callers |-> 0]
  /\ stop = FALSE
  /\ age = 0 /\ quiet = 0

-----------------------------------------------------------------------------
\* AddMessage, SetMessages: change under the session's lock, then a send that
\* is dropped when the channel is full.
Mutate ==
  /\ mem < MaxVersion
  /\ mem' = mem + 1
  /\ dirty' = TRUE
  /\ quiet' = 0
  /\ UNCHANGED <<stored, workerVars, flushNow, callerVars, age>>

(* The loop's select: any ready case.                                      *)

\* A dirty signal (re)starts the window.
TakeDirty ==
  /\ loop = "select" /\ dirty
  /\ dirty' = FALSE
  /\ timer' = Debounce
  /\ UNCHANGED <<mem, stored, loop, snap, serving, flushNow, callerVars, clocks>>

\* disarmTimer, then SaveSession copies the session under its lock.
BeginSave(c) ==
  /\ timer' = Off
  /\ loop' = "saving"
  /\ snap' = mem
  /\ serving' = c
  /\ UNCHANGED dirty

TimerFires ==
  /\ loop = "select" /\ timer = 0
  /\ BeginSave(Off)
  /\ UNCHANGED <<mem, stored, flushNow, callerVars, clocks>>

\* Bug: acknowledging a flush that coincides with a pending window, trusting
\* the window to save.
TakeFlushLazily ==
  /\ loop = "select" /\ flushNow # <<>>
  /\ flushNow' = Tail(flushNow)
  /\ IF timer # Off
     THEN /\ caller' = [caller EXCEPT ![Head(flushNow)] =
                          IF @ = "waiting" THEN "acked" ELSE @]
          /\ UNCHANGED <<workerVars, dirty>>
     ELSE BeginSave(Head(flushNow)) /\ UNCHANGED caller
  /\ UNCHANGED <<mem, stored, need, stop, clocks>>

\* Bug: saving the version the caller saw, not the current one.
TakeFlushAsAsked ==
  /\ loop = "select" /\ flushNow # <<>>
  /\ flushNow' = Tail(flushNow)
  /\ timer' = Off
  /\ loop' = "saving"
  /\ snap' = need[Head(flushNow)]
  /\ serving' = Head(flushNow)
  /\ UNCHANGED <<mem, stored, dirty, callerVars, clocks>>

TakeFlush ==
  /\ loop = "select" /\ flushNow # <<>>
  /\ flushNow' = Tail(flushNow)
  /\ BeginSave(Head(flushNow))
  /\ UNCHANGED <<mem, stored, callerVars, clocks>>

TakeStop ==
  /\ loop = "select" /\ stop
  /\ loop' = "exited"
  /\ UNCHANGED <<mem, stored, dirty, timer, snap, serving, flushNow, callerVars,
                 clocks>>

\* Bug: throwing away the signals that arrived while the save was running.
EndSaveDrains ==
  /\ loop = "saving"
  /\ loop' = "select"
  /\ stored' = snap /\ age' = 0
  /\ dirty' = FALSE
  /\ serving' = Off
  /\ caller' = [c \in Callers |->
       IF c = serving /\ caller[c] = "waiting" THEN "acked" ELSE caller[c]]
  /\ UNCHANGED <<mem, timer, snap, flushNow, need, stop, quiet>>

\* The save ends; an error is only logged, and the flush that asked for it is
\* acknowledged all the same.
EndSave ==
  /\ loop = "saving"
  /\ loop' = "select"
  /\ \/ /\ stored' = snap
        /\ age' = 0
     \/ /\ StoreFails
        /\ UNCHANGED <<stored, age>>
  /\ serving' = Off
  /\ caller' = [c \in Callers |->
       IF c = serving /\ caller[c] = "waiting" THEN "acked" ELSE caller[c]]
  /\ UNCHANGED <<mem, dirty, timer, snap, flushNow, need, stop, quiet>>

Worker == TakeDirty \/ TimerFires \/ TakeFlush \/ TakeStop \/ EndSave

-----------------------------------------------------------------------------
(* Flush and Stop.                                                         *)

CallFlush(c) ==
  /\ caller[c] = "idle"
  /\ caller' = [caller EXCEPT ![c] = "sending"]
  /\ need' = [need EXCEPT ![c] = mem]
  /\ UNCHANGED <<mem, stored, dirty, workerVars, flushNow, stop, clocks>>

SendFlush(c) ==
  /\ caller[c] = "sending" /\ Len(flushNow) < QueueCap
  /\ flushNow' = Append(flushNow, c)
  /\ caller' = [caller EXCEPT ![c] = "waiting"]
  /\ UNCHANGED <<mem, stored, dirty, workerVars, need, stop, clocks>>

\* The worker has been stopped: nil, without a save.
RefuseFlush(c) ==
  /\ caller[c] = "sending" /\ stop
  /\ caller' = [caller EXCEPT ![c] = "refused"]
  /\ UNCHANGED <<mem, stored, dirty, workerVars, flushNow, need, stop, clocks>>

\* The caller's context or the flush timeout ends the wait.
FlushTimeout(c) ==
  /\ caller[c] = "waiting"
  /\ caller' = [caller EXCEPT ![c] = "timeout"]
  /\ UNCHANGED <<mem, stored, dirty, workerVars, flushNow, need, stop, clocks>>

\* Bug: Stop that returns without joining the loop.
CloseUnjoined ==
  /\ caller[Stopper] \in Returned
  /\ stop' = TRUE
  /\ caller' = [caller EXCEPT ![Stopper] = "joined"]
  /\ UNCHANGED <<mem, stored, dirty, workerVars, flushNow, need, clocks>>

\* Whatever became of its flush, Stop closes the channel and waits for done.
CloseStop ==
  /\ caller[Stopper] \in Returned
  /\ stop' = TRUE
  /\ caller' = [caller EXCEPT ![Stopper] = "joining"]
  /\ UNCHANGED <<mem, stored, dirty, workerVars, flushNow, need, clocks>>

Join ==
  /\ caller[Stopper] = "joining" /\ loop = "exited"
  /\ caller' = [caller EXCEPT ![Stopper] = "joined"]
  /\ UNCHANGED <<mem, stored, dirty, workerVars, flushNow, need, stop, clocks>>

FlushCall(c) == CallFlush(c) \/ SendFlush(c) \/ RefuseFlush(c) \/ FlushTimeout(c)

-----------------------------------------------------------------------------
Blocked == loop # "exited" => /\ loop = "select"
                              /\ ~dirty /\ timer # 0 /\ flushNow = <<>> /\ ~stop

Tick ==
  /\ Blocked
  /\ age < MaxAge /\ quiet < MaxAge
  /\ timer' = IF timer \in Nat /\ timer > 0 THEN timer - 1 ELSE timer
  /\ age' = IF mem > stored THEN age + 1 ELSE 0
  /\ quiet' = quiet + 1
  /\ UNCHANGED <<mem, stored, dirty, loop, snap, serving, flushNow, callerVars>>

Next ==
  \/ Mutate
  \/ Worker
  \/ \E c \in Callers : FlushCall(c)
  \/ CloseStop \/ Join
  \/ Tick

Spec == Init /\ [][Next]_vars

\* The worker's goroutine and the callers' are scheduled, and Flush's timeout
\* bounds a wait.  Nobody has to mutate, call Flush or call Stop.
Fairness ==
  /\ WF_vars(Worker)
  /\ \A c \in Callers : WF_vars(SendFlush(c) \/ RefuseFlush(c) \/ FlushTimeout(c))
  /\ WF_vars(CloseStop \/ Join)

FairSpec == Spec /\ Fairness

-----------------------------------------------------------------------------
(* Properties                                                              *)

\* A save in progress that will acknowledge c covers what c asked for.
ServesItsCaller ==
  \A c \in Callers : loop = "saving" /\ serving = c => snap >= need[c]

\* Types, and what the worker relies on: a save writes a version that memory had, not
\* older than the row or than what the flush it serves has asked for.
WorkerInv ==
  /\ TypeOK /\ ServesItsCaller
  /\ stored <= mem /\ snap <= mem
  /\ loop = "saving" => stored <= snap
  /\ \A c \in Callers : need[c] <= mem

\* A change not covered by the save that has just ended is still signalled, by the
\* channel or the timer: the one-slot channel (MarkDirty) never loses the last change.
NoLostWakeup ==
  loop = "select" /\ ~StoreFails /\ mem > stored => dirty \/ timer # Off

\* When the session goes quiet, the window is all it takes to be on disk.
QuietIsSaved ==
  ~StoreFails /\ loop # "exited" /\ quiet > Debounce /\ Blocked => stored = mem

\* A flush that returns nil because it was acknowledged has saved everything
\* that was in memory when it was called ("guarantee on-disk state is current").
AckMeansSaved ==
  \A c \in Callers : caller[c] = "acked" => stored >= need[c]

\* Once Stop has returned nothing writes the row any more: the next worker of
\* the session cannot be overwritten by this one.
NoSaveAfterStop == [][caller[Stopper] = "joined" => stored' = stored]_vars

\* A change waits for the disk at most one window ("the maximum time we
\* accumulate session changes before flushing to the store").
AccumulatesAtMostDebounce ==
  ~StoreFails /\ loop # "exited" => age <= Debounce

Abstract == INSTANCE WriteBehind

\* The row is always a version the session once had, and never goes back.
ImplementsWriteBehind == Abstract!WBSpec
=============================================================================
