------------------------ MODULE PersistWorker_proofs ------------------------
(***************************************************************************)
(* Proofs about PersistWorker for any number of flushing callers, any      *)
(* debounce window and any queue capacity.                                 *)
(***************************************************************************)
EXTENDS PersistWorker, SequenceTheorems, TLAPS

USE WorkerAssumption DEF WorkerAssumption

\* Nobody is queued or served before it has sent its request.
Unsent == {"idle", "sending"}
ServedHaveAsked ==
  /\ serving # Off => caller[serving] \notin Unsent
  /\ \A i \in 1 .. Len(flushNow) : caller[flushNow[i]] \notin Unsent

\* A change that the save in progress does not cover is still signalled.
SaveKeepsSignal == loop = "saving" /\ mem > snap => dirty

\* A stopped worker has left, and a worker that left was stopped.
StoppedMeansExited == caller[Stopper] = "joined" => loop = "exited"

IInv == WorkerInv /\ ServedHaveAsked /\ StoppedMeansExited

-----------------------------------------------------------------------------
LEMMA InitIInv == Init => IInv
  <1> SUFFICES ASSUME Init PROVE IInv
    OBVIOUS
  <1> USE DEF Init
  <1>1. caller \in [Callers -> {"idle", "joining", "joined"} \cup Asking \cup Returned]
    OBVIOUS
  <1>2. flushNow \in Seq(Callers)
    OBVIOUS
  <1>3. TypeOK
    BY <1>1, <1>2 DEF TypeOK
  <1> QED BY <1>3 DEF IInv, WorkerInv, ServesItsCaller, ServedHaveAsked, Unsent,
      StoppedMeansExited

\* The worker's own steps.
LEMMA WorkerIInv == IInv /\ Worker => IInv'
  <1> SUFFICES ASSUME IInv, Worker PROVE IInv'
    OBVIOUS
  <1> USE DEF IInv, WorkerInv, ServesItsCaller, ServedHaveAsked, Unsent,
      StoppedMeansExited, callerVars,
      clocks
  <1>1. CASE TakeDirty
    <2>1. TypeOK'
      <3>1. timer' \in 0 .. Debounce
        BY <1>1 DEF TakeDirty
      <3> QED BY <1>1, <3>1 DEF TakeDirty, TypeOK
    <2> QED BY <1>1, <2>1 DEF TakeDirty
  <1>2. CASE TimerFires
    BY <1>2 DEF TimerFires, BeginSave, TypeOK
  <1>3. CASE TakeFlush
    <2>1. /\ Head(flushNow) = flushNow[1] /\ 1 \in 1 .. Len(flushNow)
          /\ flushNow[1] \in Callers /\ Tail(flushNow) \in Seq(Callers)
      BY <1>3 DEF TakeFlush, TypeOK
    <2>2. \A i \in 1 .. Len(Tail(flushNow)) :
             i + 1 \in 1 .. Len(flushNow) /\ Tail(flushNow)[i] = flushNow[i + 1]
      BY <1>3 DEF TakeFlush, TypeOK
    <2>3. TypeOK'
      BY <1>3, <2>1 DEF TakeFlush, BeginSave, TypeOK
    <2>4. ServedHaveAsked'
      BY <1>3, <2>1, <2>2 DEF TakeFlush, BeginSave
    <2> QED BY <1>3, <2>1, <2>3, <2>4 DEF TakeFlush, BeginSave, TypeOK
  <1>4. CASE TakeStop
    BY <1>4 DEF TakeStop, TypeOK
  <1>5. CASE EndSave
    <2>1. TypeOK'
      BY <1>5 DEF EndSave, TypeOK, Returned
    <2>2. stored' <= mem' /\ snap' <= mem'
      BY <1>5 DEF EndSave, TypeOK
    <2>3. ServedHaveAsked'
      BY <1>5 DEF EndSave, TypeOK
    <2> QED BY <1>5, <2>1, <2>2, <2>3 DEF EndSave, TypeOK
  <1> QED BY <1>1, <1>2, <1>3, <1>4, <1>5 DEF Worker

\* The callers' steps.
LEMMA CallerIInv ==
  ASSUME IInv, NEW c \in Callers, FlushCall(c) \/ CloseStop \/ Join
  PROVE  IInv'
  <1> USE DEF IInv, WorkerInv, ServesItsCaller, ServedHaveAsked, Unsent,
      StoppedMeansExited, workerVars, clocks, TypeOK, Asking, Returned
  <1>1. CASE CallFlush(c)
    <2>1. serving # c
      BY <1>1 DEF CallFlush
    <2>2. TypeOK'
      BY <1>1 DEF CallFlush
    <2>3. WorkerInv'
      BY <1>1, <2>2 DEF CallFlush
    <2> QED BY <1>1, <2>1, <2>3 DEF CallFlush
  <1>2. CASE SendFlush(c)
    <2>1. flushNow' \in Seq(Callers)
      BY <1>2 DEF SendFlush
    <2>2. \A i \in 1 .. Len(flushNow') :
             \/ flushNow'[i] = c
             \/ i \in 1 .. Len(flushNow) /\ flushNow'[i] = flushNow[i]
      <3>1. flushNow \in Seq(Callers) /\ flushNow' = Append(flushNow, c)
        BY <1>2 DEF SendFlush
      <3>2. /\ Len(flushNow') = Len(flushNow) + 1
            /\ \A i \in 1 .. Len(flushNow) : flushNow'[i] = flushNow[i]
            /\ flushNow'[Len(flushNow) + 1] = c
        BY <3>1, AppendProperties
      <3>3. Len(flushNow) \in Nat
        BY <3>1, LenProperties
      <3> HIDE DEF IInv, WorkerInv, TypeOK, ServesItsCaller, ServedHaveAsked
      <3> QED BY <3>2, <3>3
    <2>3. ServedHaveAsked'
      BY <1>2, <2>2 DEF SendFlush
    <2> QED BY <1>2, <2>1, <2>3 DEF SendFlush
  <1>3. CASE RefuseFlush(c)
    BY <1>3 DEF RefuseFlush
  <1>4. CASE FlushTimeout(c)
    BY <1>4 DEF FlushTimeout
  <1>5. CASE CloseStop
    BY <1>5 DEF CloseStop
  <1>6. CASE Join
    BY <1>6 DEF Join
  <1> QED BY <1>1, <1>2, <1>3, <1>4, <1>5, <1>6 DEF FlushCall

\* Mutations, time, and nothing.
LEMMA EnvironmentIInv == IInv /\ (Mutate \/ Tick \/ UNCHANGED vars) => IInv'
  <1> SUFFICES ASSUME IInv, Mutate \/ Tick \/ UNCHANGED vars PROVE IInv'
    OBVIOUS
  <1> USE DEF IInv, WorkerInv, ServesItsCaller, ServedHaveAsked, Unsent,
      StoppedMeansExited, workerVars, callerVars, clocks
  <1>1. CASE Mutate
    BY <1>1 DEF Mutate, TypeOK
  <1>2. CASE Tick
    <2>1. timer' \in 0 .. Debounce \cup {Off}
      BY <1>2 DEF Tick, TypeOK
    <2>2. age' \in Nat /\ quiet' \in Nat
      BY <1>2 DEF Tick, TypeOK
    <2> QED BY <1>2, <2>1, <2>2 DEF Tick, TypeOK
  <1>3. CASE UNCHANGED vars
    BY <1>3 DEF vars, TypeOK
  <1> QED BY <1>1, <1>2, <1>3

LEMMA NextIInv == IInv /\ [Next]_vars => IInv'
  BY WorkerIInv, CallerIInv, EnvironmentIInv DEF Next

LEMMA SpecIInv == Spec => []IInv
  BY InitIInv, NextIInv, PTL DEF Spec

\* Types, and the versions in order: what is stored or being saved is a version
\* the session had.
THEOREM WorkerInvariant == Spec => []WorkerInv
  BY SpecIInv, PTL DEF IInv

-----------------------------------------------------------------------------
\* An acknowledged flush found everything it asked for on disk, provided the
\* store reports no errors: the ack comes after the save that served it, and
\* the row never goes back.
THEOREM AcksAreSaved ==
  ASSUME ~StoreFails PROVE Spec => []AckMeansSaved
  <1>1. Init => AckMeansSaved
    BY DEF Init, AckMeansSaved
  <1>2. IInv /\ AckMeansSaved /\ [Next]_vars => AckMeansSaved'
    <2> SUFFICES ASSUME IInv, AckMeansSaved, [Next]_vars,
                        NEW c \in Callers, caller'[c] = "acked"
                 PROVE  stored' >= need'[c]
      BY DEF AckMeansSaved
    <2> USE DEF AckMeansSaved, IInv, WorkerInv
    <2>1. CASE EndSave
      BY <2>1 DEF EndSave, TypeOK, ServesItsCaller
    <2>2. CASE Worker /\ ~EndSave
      BY <2>2 DEF Worker, TakeDirty, TimerFires, TakeFlush, TakeStop, callerVars
    <2>3. ASSUME NEW d \in Callers, FlushCall(d) PROVE stored' >= need'[c]
      BY <2>3 DEF FlushCall, CallFlush, SendFlush, RefuseFlush, FlushTimeout,
         TypeOK
    <2>4. CASE CloseStop \/ Join \/ Mutate \/ Tick \/ UNCHANGED vars
      BY <2>4 DEF CloseStop, Join, Mutate, Tick, vars, callerVars, TypeOK
    <2> QED BY <2>1, <2>2, <2>3, <2>4 DEF Next
  <1> QED BY <1>1, <1>2, SpecIInv, PTL DEF Spec

\* With a store that reports no errors, an unsaved change is signalled, armed
\* or covered by the save in progress: one slot is enough.
THEOREM NoWakeupIsLost ==
  ASSUME ~StoreFails PROVE Spec => []NoLostWakeup
  <1> DEFINE J == NoLostWakeup /\ SaveKeepsSignal
  <1>1. Init => J
    BY DEF Init, NoLostWakeup, SaveKeepsSignal
  <1>2. IInv /\ J /\ [Next]_vars => J'
    <2> SUFFICES ASSUME IInv, J, [Next]_vars PROVE J'
      OBVIOUS
    <2> USE DEF IInv, WorkerInv, NoLostWakeup, SaveKeepsSignal
    <2>1. CASE Worker
      BY <2>1 DEF Worker, TakeDirty, TimerFires, TakeFlush, TakeStop, EndSave,
         BeginSave, TypeOK
    <2>2. CASE Tick
      BY <2>2 DEF Tick, TypeOK
    <2>3. CASE Mutate
      BY <2>3 DEF Mutate, TypeOK, workerVars
    <2>4. ASSUME NEW d \in Callers, FlushCall(d) PROVE J'
      BY <2>4 DEF FlushCall, CallFlush, SendFlush, RefuseFlush, FlushTimeout,
         workerVars
    <2>5. CASE CloseStop \/ Join \/ UNCHANGED vars
      BY <2>5 DEF CloseStop, Join, vars, workerVars
    <2> QED BY <2>1, <2>2, <2>3, <2>4, <2>5 DEF Next
  <1>3. Spec => []J
    BY <1>1, <1>2, SpecIInv, PTL DEF Spec
  <1> QED BY <1>3, PTL

\* Stop joins the loop, and a loop that has left writes nothing.
THEOREM StopIsFinal == Spec => NoSaveAfterStop
  <1>1. IInv /\ [Next]_vars
          => [caller[Stopper] = "joined" => stored' = stored]_vars
    <2> SUFFICES ASSUME IInv, [Next]_vars, caller[Stopper] = "joined"
                 PROVE  stored' = stored
      OBVIOUS
    <2>1. loop = "exited"
      BY DEF IInv, StoppedMeansExited
    <2> QED BY <2>1 DEF Next, Mutate, Worker, TakeDirty, TimerFires, TakeFlush,
            TakeStop, EndSave, FlushCall, CallFlush, SendFlush, RefuseFlush,
            FlushTimeout, CloseStop, Join, Tick, vars
  <1> QED BY <1>1, SpecIInv, PTL DEF Spec, NoSaveAfterStop

\* The row the worker writes is a write-behind copy of the session.
THEOREM Refinement == Spec => ImplementsWriteBehind
  <1> USE DEF ImplementsWriteBehind
  <1>1. Init => Abstract!WBInit
    BY DEF Init, Abstract!WBInit
  <1>2. IInv /\ [Next]_vars
          => [Abstract!Change \/ Abstract!CatchUp]_<<mem, stored>>
    <2> SUFFICES ASSUME IInv, [Next]_vars
                 PROVE  [Abstract!Change \/ Abstract!CatchUp]_<<mem, stored>>
      OBVIOUS
    <2>1. CASE Mutate
      BY <2>1 DEF Mutate, Abstract!Change
    <2>2. CASE EndSave
      <3>1. stored' = stored \/ stored' = snap
        BY <2>2 DEF EndSave
      <3>2. stored <= snap /\ snap <= mem /\ stored \in Nat /\ snap \in Nat
            /\ mem \in Nat
        BY <2>2 DEF EndSave, IInv, WorkerInv, TypeOK
      <3>3. stored' = snap /\ snap # stored => Abstract!CatchUp
        <4>1. snap # stored => snap \in (stored + 1) .. mem
          BY <3>2
        <4> QED BY <2>2, <4>1 DEF EndSave, Abstract!CatchUp
      <3> QED BY <2>2, <3>1, <3>3 DEF EndSave
    <2>3. CASE ~Mutate /\ ~EndSave
      BY <2>3 DEF Next, Worker, TakeDirty, TimerFires, TakeFlush, TakeStop,
         FlushCall, CallFlush, SendFlush, RefuseFlush, FlushTimeout, CloseStop,
         Join, Tick, vars
    <2> QED BY <2>1, <2>2, <2>3
  <1> QED BY <1>1, <1>2, SpecIInv, PTL DEF Spec, Abstract!WBSpec
=============================================================================
