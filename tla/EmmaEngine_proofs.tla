------------------------- MODULE EmmaEngine_proofs -------------------------
(***************************************************************************)
(* Proofs about the registry of pending waits (Awaits), for any number of  *)
(* awaiters and resolvers and any assignment of ids, repeated ones         *)
(* included; and about the engine (EmmaEngine), for any number of queries  *)
(* and calls: the engine's steps are steps of Awaits, so what is proved of *)
(* it holds here, and with it the invariants that relate queries to their  *)
(* calls.                                                                  *)
(***************************************************************************)
EXTENDS EmmaEngine, TLAPS

(* The registry.                                                           *)

\* Init establishes the ownership discipline.
LEMMA InitOwnership == Init => Ownership
  <1> SUFFICES ASSUME Init PROVE Ownership
    OBVIOUS
  <1> USE DEF Init
  <1>1. TypeOK
    BY DEF TypeOK, WaiterStates, Outcomes
  <1>2. RegistryOwns /\ ResolverOwns
    BY DEF RegistryOwns, ResolverOwns
  <1>3. WaiterProgress /\ NoChannelPanic /\ NoLeakedAwait
    BY DEF WaiterProgress, NoChannelPanic, NoLeakedAwait
  <1> QED BY <1>1, <1>2, <1>3 DEF Ownership

\* Registering a fresh channel: nobody else can own a channel just made.
LEMMA BeginAwaitOwnership ==
  ASSUME NEW w \in Awaiters, Ownership, BeginAwait(w)
  PROVE  Ownership'
  <1> USE AwaitsAssumption DEF AwaitsAssumption
  <1> USE DEF BeginAwait, Push, Ownership, waiterVars, resolverVars
  <1>1. TypeOK'
    BY DEF TypeOK, WaiterStates
  <1>2. RegistryOwns'
    BY DEF TypeOK, RegistryOwns, WaiterProgress
  <1>3. ResolverOwns'
    BY DEF TypeOK, ResolverOwns, WaiterProgress, Registered
  <1>4. WaiterProgress'
    BY DEF TypeOK, WaiterProgress
  <1>5. NoChannelPanic' /\ NoLeakedAwait'
    BY DEF TypeOK, NoChannelPanic, NoLeakedAwait, Registered
  <1> QED BY <1>1, <1>2, <1>3, <1>4, <1>5

\* Leaving the select without touching the registry.
LEMMA WaiterOwnership ==
  ASSUME NEW w \in Awaiters, Ownership,
         \/ Emit(w) \/ EmitCancelled(w) \/ GiveUp(w)
         \/ ReceiveAnswer(w) \/ ReceiveClosed(w)
  PROVE  Ownership'
  <1> USE AwaitsAssumption DEF AwaitsAssumption
  <1> USE DEF Ownership, waiterVars, resolverVars, registryVars
  <1>a. /\ registry' = registry /\ made' = made /\ closed' = closed
        /\ full' \subseteq full /\ panicked' = panicked
        /\ resolver' = resolver /\ held' = held /\ ctxDone' = ctxDone
    BY DEF Emit, EmitCancelled, GiveUp, ReceiveAnswer, ReceiveClosed
  <1>b. /\ waiter[w] \in {"emitting", "waiting"}
        /\ \E s \in WaiterStates \ {"idle"} :
             /\ waiter' = [waiter EXCEPT ![w] = s]
             /\ s = "done" => w \in full \cup closed
             /\ \/ s = "waiting" /\ outcome' = outcome
                \/ /\ s \in {"forgetting", "done"}
                   /\ \E o \in Outcomes \ {"none"} :
                        outcome' = [outcome EXCEPT ![w] = o]
    BY DEF Emit, EmitCancelled, GiveUp, ReceiveAnswer, ReceiveClosed,
           AfterReceive, WaiterStates, Outcomes
  <1>1. TypeOK'
    BY <1>a, <1>b DEF TypeOK
  <1>2. RegistryOwns'
    BY <1>a DEF RegistryOwns
  <1>3. ResolverOwns'
    BY <1>a DEF ResolverOwns, Registered
  <1>4. WaiterProgress'
    <2>1. (full \cup closed \subseteq made)'
      BY <1>a DEF WaiterProgress
    <2>2. ASSUME NEW v \in Awaiters
          PROVE (/\ waiter[v] = "idle" <=> v \notin made
                 /\ waiter[v] \in {"idle", "emitting", "waiting"}
                      <=> outcome[v] = "none")'
      BY <1>a, <1>b DEF TypeOK, WaiterProgress, WaiterStates, Outcomes
    <2> QED BY <2>1, <2>2 DEF WaiterProgress
  <1>5. NoChannelPanic' /\ NoLeakedAwait'
    BY <1>a, <1>b DEF TypeOK, RegistryOwns, NoChannelPanic, NoLeakedAwait, Registered
  <1> QED BY <1>1, <1>2, <1>3, <1>4, <1>5

\* ForgetTool / ForgetPerm by a goroutine that is leaving.
LEMMA FinishOwnership ==
  ASSUME NEW w \in Awaiters, Ownership, FinishAwait(w)
  PROVE  Ownership'
  <1> USE AwaitsAssumption DEF AwaitsAssumption
  <1> USE DEF FinishAwait, Forget, Ownership, resolverVars
  <1>1. TypeOK'
    BY DEF TypeOK, WaiterStates
  <1>2. RegistryOwns'
    BY DEF TypeOK, RegistryOwns
  <1>3. Registered' \subseteq Registered \ {w}
    BY DEF TypeOK, Registered
  <1>4. ResolverOwns'
    BY <1>3 DEF TypeOK, ResolverOwns
  <1>5. WaiterProgress'
    BY DEF TypeOK, WaiterProgress
  <1>6. NoChannelPanic' /\ NoLeakedAwait'
    BY <1>3 DEF TypeOK, NoChannelPanic, NoLeakedAwait
  <1> QED BY <1>1, <1>2, <1>4, <1>5, <1>6

\* A resolver takes an await out of the registry: ownership moves to it.
LEMMA LookupOwnership ==
  ASSUME NEW r \in Resolvers, NEW i \in Ids, Ownership, ResolveLookup(r, i)
  PROVE  Ownership'
  <1> USE AwaitsAssumption DEF AwaitsAssumption
  <1> USE DEF ResolveLookup, Ownership, waiterVars
  <1>1. TypeOK'
    BY DEF TypeOK
  <1>2. RegistryOwns'
    BY DEF TypeOK, RegistryOwns
  <1>3. ResolverOwns'
    <2>1. Registered' = Registered \ {registry[i]}
      BY DEF TypeOK, RegistryOwns, Registered
    <2>2. registry[i] \in Registered
      BY DEF TypeOK, RegistryOwns, Registered
    <2> QED BY <2>1, <2>2 DEF TypeOK, ResolverOwns, RegistryOwns
  <1>4. WaiterProgress' /\ NoChannelPanic' /\ NoLeakedAwait'
    BY DEF TypeOK, WaiterProgress, NoChannelPanic, NoLeakedAwait, Registered
  <1> QED BY <1>1, <1>2, <1>3, <1>4

\* The owner sends, then closes: nobody else did.
LEMMA SendCloseOwnership ==
  ASSUME NEW r \in Resolvers, Ownership, ResolveSend(r) \/ ResolveClose(r)
  PROVE  Ownership'
  <1> USE AwaitsAssumption DEF AwaitsAssumption
  <1> USE DEF Ownership, waiterVars
  <1>0. held[r] # NoAwait /\ held[r] \in Awaiters
    BY DEF ResolveSend, ResolveClose, TypeOK, ResolverOwns
  <1>1. CASE ResolveSend(r)
    BY <1>0, <1>1 DEF ResolveSend, TypeOK, RegistryOwns, ResolverOwns,
       WaiterProgress, NoChannelPanic, NoLeakedAwait, Registered
  <1>2. CASE ResolveClose(r)
    BY <1>0, <1>2 DEF ResolveClose, TypeOK, RegistryOwns, ResolverOwns,
       WaiterProgress, NoChannelPanic, NoLeakedAwait, Registered
  <1> QED BY <1>1, <1>2

\* AbortAll closes only what the registry owns.
LEMMA AbortOwnership ==
  ASSUME Ownership, Abort
  PROVE  Ownership'
  <1> USE AwaitsAssumption DEF AwaitsAssumption
  <1>1. Registered \cap closed = {} /\ Registered \subseteq made
    BY DEF Ownership, TypeOK, RegistryOwns, Registered
  <1>2. Registered' = {}
    BY DEF Abort, AbortAll, Registered, Ownership, TypeOK
  <1> QED
    BY <1>1, <1>2 DEF Abort, AbortAll, Ownership, TypeOK, RegistryOwns,
       ResolverOwns, WaiterProgress, NoChannelPanic, NoLeakedAwait,
       waiterVars, resolverVars

\* Every step keeps the ownership discipline.
LEMMA NextOwnership == Ownership /\ [Next]_vars => Ownership'
  <1> SUFFICES ASSUME Ownership, [Next]_vars PROVE Ownership'
    OBVIOUS
  <1>1. ASSUME NEW w \in Awaiters, Await(w) PROVE Ownership'
    BY <1>1, BeginAwaitOwnership, WaiterOwnership, FinishOwnership DEF Await
  <1>2. ASSUME NEW ws \in SUBSET Awaiters, CancelCtx(ws) PROVE Ownership'
    BY <1>2 DEF CancelCtx, Ownership, TypeOK, RegistryOwns, ResolverOwns,
       WaiterProgress, NoChannelPanic, NoLeakedAwait, Registered,
       registryVars, waiterVars, resolverVars
  <1>3. ASSUME NEW r \in Resolvers, Resolve(r) PROVE Ownership'
    BY <1>3, LookupOwnership, SendCloseOwnership DEF Resolve
  <1>4. CASE UNCHANGED vars
    BY <1>4 DEF vars, Ownership, TypeOK, RegistryOwns, ResolverOwns,
       WaiterProgress, NoChannelPanic, NoLeakedAwait, Registered,
       registryVars, waiterVars, resolverVars
  <1> QED BY <1>1, <1>2, <1>3, <1>4, AbortOwnership DEF Next

THEOREM OwnershipInvariant == Spec => []Ownership
  BY InitOwnership, NextOwnership, PTL DEF Spec

\* Every state of every instance is well typed.
THEOREM TypeCorrect == Spec => []TypeOK
  BY OwnershipInvariant, PTL DEF Ownership

\* No interleaving of answers, repeated answers, cancellations and AbortAll
\* sends on a closed channel or closes one twice.
THEOREM ChannelsNeverPanic == Spec => []NoChannelPanic
  BY OwnershipInvariant, PTL DEF Ownership

\* A wait that has returned is no longer registered.
THEOREM FinishedWaitsAreForgotten == Spec => []NoLeakedAwait
  BY OwnershipInvariant, PTL DEF Ownership

\* An answer that was taken from the registry is not overtaken by an abort.
THEOREM ClaimedAwaitsStayOpen == Spec => []ClaimedAwaitStaysOpen
  <1>1. Ownership => ClaimedAwaitStaysOpen
    BY DEF Ownership, ResolverOwns, ClaimedAwaitStaysOpen, Holders, TypeOK
  <1> QED BY <1>1, OwnershipInvariant, PTL
-----------------------------------------------------------------------------
(* The registry implements AwaitPromise.                                   *)

USE AwaitsAssumption DEF AwaitsAssumption

\* An answer reported as delivered is in the channel or has been read.
LEMMA InitAnswerIsKept == Init => AnswerIsKept
  BY DEF Init, AnswerIsKept

LEMMA NextAnswerIsKept ==
  Ownership /\ AnswerIsKept /\ [Next]_vars => AnswerIsKept'
  <1> SUFFICES ASSUME Ownership, AnswerIsKept, [Next]_vars PROVE AnswerIsKept'
    OBVIOUS
  <1> USE DEF Ownership, TypeOK, AnswerIsKept, Registered
  <1>1. ASSUME NEW w \in Awaiters, Await(w) PROVE AnswerIsKept'
    <2>1. CASE BeginAwait(w)
      BY <2>1 DEF BeginAwait, Push, WaiterProgress, resolverVars
    <2>2. CASE Emit(w) \/ EmitCancelled(w) \/ ReceiveClosed(w) \/ GiveUp(w)
      <3>1. /\ waiter[w] \in {"emitting", "waiting"}
            /\ \/ outcome' = outcome
               \/ \E o \in {"aborted", "cancelled"} :
                    outcome' = [outcome EXCEPT ![w] = o]
            /\ UNCHANGED <<registryVars, resolverVars>>
        BY <2>2 DEF Emit, EmitCancelled, ReceiveClosed, GiveUp
      <3> QED BY <3>1 DEF WaiterProgress, ResolverOwns, registryVars, resolverVars
    <2>3. CASE ReceiveAnswer(w)
      BY <2>3 DEF ReceiveAnswer, RegistryOwns, WaiterProgress, resolverVars
    <2>4. CASE FinishAwait(w)
      BY <2>4 DEF FinishAwait, Forget, resolverVars
    <2> QED BY <1>1, <2>1, <2>2, <2>3, <2>4 DEF Await
  <1>2. ASSUME NEW ws \in SUBSET Awaiters, CancelCtx(ws) PROVE AnswerIsKept'
    BY <1>2 DEF CancelCtx, registryVars, waiterVars, resolverVars
  <1>3. ASSUME NEW r \in Resolvers, Resolve(r) PROVE AnswerIsKept'
    <2>1. ASSUME NEW i \in Ids, ResolveLookup(r, i) PROVE AnswerIsKept'
      BY <2>1 DEF ResolveLookup, waiterVars
    <2>2. CASE ResolveSend(r)
      BY <2>2 DEF ResolveSend, ResolverOwns, waiterVars
    <2>3. CASE ResolveClose(r)
      BY <2>3 DEF ResolveClose, waiterVars
    <2> QED BY <1>3, <2>1, <2>2, <2>3 DEF Resolve
  <1>4. CASE Abort
    BY <1>4 DEF Abort, AbortAll, waiterVars, resolverVars
  <1>5. CASE UNCHANGED vars
    BY <1>5 DEF vars, registryVars, waiterVars, resolverVars
  <1> QED BY <1>1, <1>2, <1>3, <1>4, <1>5 DEF Next

THEOREM AnswersAreKept == Spec => []AnswerIsKept
  BY OwnershipInvariant, InitAnswerIsKept, NextAnswerIsKept, PTL DEF Spec

\* Every step of the registry is a step of the promise or leaves it unchanged.
LEMMA StepRefines ==
  ASSUME UniqueIds, Ownership, AnswerIsKept, [Next]_vars
  PROVE  [Promise!PromiseNext]_Settled
  <1> USE DEF Ownership, TypeOK
  <1>p. ASSUME NEW w \in Awaiters
        PROVE /\ Settled[w] = "unasked" <=> w \notin made
              /\ w \in Registered => Settled[w] = "pending"
    BY DEF Settled, RegistryOwns, Registered
  <1>1. ASSUME NEW w \in Awaiters, BeginAwait(w)
        PROVE Promise!Ask(w)
    <2>1. Settled[w] = "unasked"
      BY <1>1, <1>p DEF BeginAwait, WaiterProgress
    <2>2. Registered' = Registered \cup {w}
      BY <1>1 DEF BeginAwait, Push, Registered, UniqueIds
    <2>3. Settled' = [Settled EXCEPT ![w] = "pending"]
      BY <1>1, <2>2 DEF BeginAwait, Push, Settled, Holders, resolverVars
    <2> QED BY <2>1, <2>3 DEF Promise!Ask
  <1>2. ASSUME NEW w \in Awaiters,
               Emit(w) \/ EmitCancelled(w) \/ ReceiveClosed(w) \/ GiveUp(w)
        PROVE Settled' = Settled
    <2>1. /\ waiter[w] \in {"emitting", "waiting"}
          /\ \/ outcome' = outcome
             \/ \E o \in {"aborted", "cancelled"} :
                  outcome' = [outcome EXCEPT ![w] = o]
          /\ UNCHANGED <<registryVars, resolverVars>>
      BY <1>2 DEF Emit, EmitCancelled, ReceiveClosed, GiveUp
    <2> QED BY <2>1 DEF Settled, Registered, Holders, WaiterProgress,
                        registryVars, resolverVars
  <1>3. ASSUME NEW w \in Awaiters, ReceiveAnswer(w)
        PROVE Settled' = Settled
    BY <1>3 DEF ReceiveAnswer, Settled, Registered, Holders, resolverVars
  <1>4. ASSUME NEW w \in Awaiters, FinishAwait(w)
        PROVE Promise!Abandon(w) \/ Settled' = Settled
    <2>1. Registered' = Registered \ {w}
      BY <1>4 DEF FinishAwait, Forget, Registered, UniqueIds
    <2>2. CASE w \in Registered
      <3>1. w \in made \ (full \cup closed) /\ outcome[w] # "answered"
        BY <2>2 DEF RegistryOwns, Registered, AnswerIsKept
      <3>2. Holders(w) = {}
        BY <2>2 DEF Holders, ResolverOwns
      <3>3. Settled' = [Settled EXCEPT ![w] = "abandoned"]
        BY <1>4, <2>1, <2>2, <3>1, <3>2
           DEF FinishAwait, Forget, Settled, Holders, resolverVars
      <3> QED BY <1>p, <2>2, <3>3 DEF Promise!Abandon
    <2>3. CASE w \notin Registered
      BY <1>4, <2>1, <2>3 DEF FinishAwait, Forget, Settled, Holders, resolverVars
    <2> QED BY <2>2, <2>3
  <1>5. ASSUME NEW r \in Resolvers, NEW i \in Ids, ResolveLookup(r, i)
        PROVE Promise!Answer(registry[i])
    <2>1. registry[i] \in Registered
      BY <1>5 DEF ResolveLookup, RegistryOwns, Registered
    <2>2. Registered' = Registered \ {registry[i]}
      BY <1>5 DEF ResolveLookup, RegistryOwns, Registered
    <2>3. /\ held' = [held EXCEPT ![r] = registry[i]]
          /\ held[r] = NoAwait /\ \A s \in Resolvers : held[s] # registry[i]
      BY <1>5, <2>1 DEF ResolveLookup, ResolverOwns, Registered
    <2>4. Settled' = [Settled EXCEPT ![registry[i]] = "answered"]
      <3>1. registry[i] \in made' /\ registry[i] \notin Registered'
        BY <1>5, <2>1, <2>2 DEF RegistryOwns, ResolveLookup
      <3>2. Settled'[registry[i]] = "answered"
        BY <2>1, <2>3, <3>1 DEF Settled, Holders, Registered
      <3>3. ASSUME NEW w \in Awaiters, w # registry[i]
            PROVE Settled'[w] = Settled[w]
        <4>1. Holders(w)' = Holders(w)
          BY <2>3, <3>3 DEF Holders
        <4>2. w \in Registered' <=> w \in Registered
          BY <2>2, <3>3
        <4> QED BY <1>5, <4>1, <4>2 DEF ResolveLookup, Settled, waiterVars
      <3>4. /\ DOMAIN Settled = Awaiters /\ DOMAIN Settled' = Awaiters
            /\ registry[i] \in Awaiters
        BY <2>1 DEF Settled, Registered
      <3>5. /\ Settled = [w \in Awaiters |-> Settled[w]]
            /\ Settled' = [w \in Awaiters |-> Settled'[w]]
        BY DEF Settled
      <3> QED BY ONLY <3>2, <3>3, <3>4, <3>5
    <2> QED BY <1>p, <2>1, <2>4 DEF Promise!Answer, Registered
  <1>6. ASSUME NEW r \in Resolvers, ResolveSend(r)
        PROVE Settled' = Settled
    BY <1>6 DEF ResolveSend, ResolverOwns, Settled, Registered, Holders, waiterVars
  <1>7. ASSUME NEW r \in Resolvers, ResolveClose(r)
        PROVE Settled' = Settled
    BY <1>7 DEF ResolveClose, ResolverOwns, AnswerIsKept, Settled, Registered,
                Holders, waiterVars
  <1>8. CASE Abort
    <2>1. Registered' = {}
      BY <1>8 DEF Abort, AbortAll, Registered
    <2>2. ASSUME NEW w \in Awaiters
          PROVE Settled'[w] = IF Settled[w] = "pending" THEN "aborted"
                                                        ELSE Settled[w]
      BY <1>8, <1>p, <2>1 DEF Abort, AbortAll, Settled, Holders, Registered,
         AnswerIsKept, RegistryOwns, ResolverOwns, waiterVars, resolverVars
    <2> QED BY <2>2 DEF Promise!AbortPending, Promise!Pending, Promise!PromiseNext,
                        Settled
  <1>9. ASSUME (\E ws \in SUBSET Awaiters : CancelCtx(ws)) \/ UNCHANGED vars
        PROVE Settled' = Settled
    BY <1>9 DEF CancelCtx, vars, registryVars, waiterVars, resolverVars, Settled,
                Registered, Holders
  <1> QED
    BY <1>1, <1>2, <1>3, <1>4, <1>5, <1>6, <1>7, <1>8, <1>9
       DEF Next, Await, Resolve, Promise!PromiseNext, RegistryOwns, ResolveLookup

\* With distinct ids the registry implements AwaitPromise: each request is
\* settled once, and AbortAll settles every pending one atomically.
THEOREM Refinement ==
  ASSUME UniqueIds
  PROVE  Spec => ImplementsPromise
  <1>1. Init => Promise!PromiseInit
    BY DEF Init, Promise!PromiseInit, Settled
  <1>2. Ownership /\ AnswerIsKept /\ [Next]_vars => [Promise!PromiseNext]_Settled
    BY StepRefines
  <1> QED
    BY <1>1, <1>2, OwnershipInvariant, AnswersAreKept, PTL
       DEF Spec, ImplementsPromise, Promise!PromiseSpec

-----------------------------------------------------------------------------
(* The engine.                                                             *)

USE AwaitsAssumption, EngineAssumption DEF AwaitsAssumption, EngineAssumption

\* Every step of the engine is a step of the registry or leaves it alone.
LEMMA EngineStepIsAwaitsStep == [EngineNext]_allVars => [Next]_vars
  <1> SUFFICES ASSUME [EngineNext]_allVars PROVE [Next]_vars
    OBVIOUS
  <1>1. ASSUME NEW q, NEW why, CancelQuery(q, why)
        PROVE  [Next]_vars
    <2>1. CallsOf(q) \in SUBSET Awaiters
      BY DEF CallsOf
    <2>2. CASE CallsOf(q) \subseteq ctxDone
      BY <1>1, <2>2 DEF CancelQuery, vars
    <2>3. CASE ~ CallsOf(q) \subseteq ctxDone
      BY <1>1, <2>1, <2>3 DEF CancelQuery, CancelCtx, Next
    <2> QED BY <2>2, <2>3
  <1>2. ASSUME NEW q \in Queries, ProcessMessage(q) \/ Loop(q)
        PROVE  [Next]_vars
    <2>1. CASE Finish(q)
      BY <1>1, <2>1 DEF Finish
    <2>2. CASE ~Finish(q)
      BY <1>2, <2>2 DEF ProcessMessage, Loop, TurnTop, LLMFails, LLMFinishes,
         LLMCallsTools, ToolsDone, EmitDone, Deregister
    <2> QED BY <2>1, <2>2
  <1>3. ASSUME NEW w \in Awaiters, Call(w) PROVE [Next]_vars
    <2>1. CASE BeginCall(w) \/ WaitForAnswer(w)
      BY <2>1 DEF BeginCall, WaitForAnswer, Next, Await
    <2>2. CASE SkipCall(w) \/ AutoApprove(w) \/ ToolReturns(w)
               \/ PermissionReturns(w)
      BY <2>2 DEF SkipCall, AutoApprove, ToolReturns, PermissionReturns
    <2> QED BY <1>3, <2>1, <2>2 DEF Call
  <1>4. ASSUME NEW r \in Resolvers, Submit(r) PROVE [Next]_vars
    BY <1>4 DEF Submit, Next
  <1>5. CASE AbortLookup
    BY <1>5 DEF AbortLookup
  <1>6. CASE AbortAwaits
    BY <1>6 DEF AbortAwaits, Next
  <1>7. CASE AbortCancel
    BY <1>1, <1>7 DEF AbortCancel
  <1>8. CASE UNCHANGED allVars
    BY <1>8 DEF allVars
  <1> QED BY <1>2, <1>3, <1>4, <1>5, <1>6, <1>7, <1>8
          DEF EngineNext, AbortSession

\* The engine touches the registry only through its operations.
THEOREM EngineIsAwaits == EngineSpec => EngineUsesAwaits
  BY EngineStepIsAwaitsStep, PTL DEF EngineSpec, EngineInit, EngineUsesAwaits, Spec

\* Whatever queries, answers and stops do, no channel is closed twice or sent
\* to after it was closed.
THEOREM EngineChannelsNeverPanic == EngineSpec => []NoChannelPanic
  BY EngineIsAwaits, ChannelsNeverPanic, PTL DEF EngineUsesAwaits

-----------------------------------------------------------------------------
(* The engine's own variables.                                             *)

LEMMA InitEngineInv == EngineInit => EngineInv /\ EntryIsLive
  BY DEF EngineInit, Init, EngineInv, EngineTypeOK, QueryState, AbortState,
     AskingIsAwaited, EntryIsLive, InLoop, CallsOf

\* Steps of the message handler, the loop and the deferred function.
LEMMA QueryStepEngineInv ==
  ASSUME NEW q \in Queries, Ownership, EngineInv, EntryIsLive,
         ProcessMessage(q) \/ Loop(q)
  PROVE  EngineInv' /\ EntryIsLive'
  <1> USE DEF InLoop
  <1>1. CASE LLMCallsTools(q)
    <2>1. PICK ws \in SUBSET CallsOf(q) :
            ws # {} /\ batch' = [batch EXCEPT ![q] = ws]
      BY <1>1 DEF LLMCallsTools
    <2>2. EngineTypeOK'
      BY <1>1, <2>1 DEF LLMCallsTools, EngineInv, EngineTypeOK, CallsOf
    <2>3. QueryState' /\ AbortState'
      BY <1>1, <2>1 DEF LLMCallsTools, EngineInv, EngineTypeOK, QueryState,
         AbortState, CallsOf
    <2>4. AskingIsAwaited'
      BY <1>1, <2>1 DEF LLMCallsTools, EngineInv, EngineTypeOK, QueryState,
         AskingIsAwaited, CallsOf, vars, waiterVars
    <2> QED BY <1>1, <2>2, <2>3, <2>4 DEF LLMCallsTools, EngineInv, EngineTypeOK,
            EntryIsLive
  <1>2. CASE ToolsDone(q)
    <2>1. AskingIsAwaited'
      BY <1>2 DEF ToolsDone, EngineInv, EngineTypeOK, QueryState,
         AskingIsAwaited, CallsOf, vars, waiterVars
    <2> QED BY <1>2, <2>1 DEF ToolsDone, EngineInv, EngineTypeOK, QueryState,
            AbortState, EntryIsLive, CallsOf
  <1>3. CASE Finish(q)
    <2>1. EngineTypeOK'
      BY <1>3 DEF Finish, CancelQuery, EngineInv, EngineTypeOK
    <2>2. QueryState' /\ AbortState' /\ EntryIsLive'
      BY <1>3 DEF Finish, CancelQuery, EngineInv, EngineTypeOK, QueryState,
         AbortState, CallsOf, EntryIsLive
    <2>3. AskingIsAwaited'
      BY <1>3 DEF Finish, CancelQuery, EngineInv, AskingIsAwaited, waiterVars
    <2> QED BY <2>1, <2>2, <2>3 DEF EngineInv
  <1>4. CASE ~LLMCallsTools(q) /\ ~ToolsDone(q) /\ ~Finish(q)
    <2>1. EngineTypeOK'
      BY <1>4 DEF ProcessMessage, Loop, TurnTop, LLMFails, LLMFinishes,
         EmitDone, Deregister, EngineInv, EngineTypeOK
    <2>2. QueryState'
      BY <1>4 DEF ProcessMessage, Loop, TurnTop, LLMFails, LLMFinishes,
         EmitDone, Deregister, EngineInv, EngineTypeOK, QueryState, CallsOf
    <2>3. AbortState' /\ AskingIsAwaited'
      BY <1>4 DEF ProcessMessage, Loop, TurnTop, LLMFails, LLMFinishes,
         EmitDone, Deregister, EngineInv, EngineTypeOK, AbortState,
         AskingIsAwaited, vars, waiterVars
    <2>4. EntryIsLive'
      BY <1>4 DEF ProcessMessage, Loop, TurnTop, LLMFails, LLMFinishes,
         EmitDone, Deregister, EngineInv, EngineTypeOK, EntryIsLive
    <2> QED BY <2>1, <2>2, <2>3, <2>4 DEF EngineInv
  <1> QED BY <1>1, <1>2, <1>3, <1>4

\* Steps of a call.
LEMMA CallEngineInv ==
  ASSUME NEW w \in Awaiters, Ownership, EngineInv, EntryIsLive, Call(w)
  PROVE  EngineInv' /\ EntryIsLive'
  <1> USE DEF InLoop
  <1>1. CASE BeginCall(w)
    <2>1. waiter' = [waiter EXCEPT ![w] = "emitting"]
      BY <1>1 DEF BeginCall, BeginAwait
    <2>2. AskingIsAwaited'
      BY <1>1, <2>1 DEF BeginCall, InBatch, engineVars, EngineInv,
         AskingIsAwaited, Ownership, TypeOK
    <2> QED BY <1>1, <2>2 DEF BeginCall, engineVars, EngineInv, EngineTypeOK,
            QueryState, AbortState, EntryIsLive, CallsOf
  <1>2. CASE WaitForAnswer(w)
    <2>1. /\ waiter[w] \notin {"idle", "done"}
          /\ \A v \in Awaiters \ {w} : waiter'[v] = waiter[v]
      BY <1>2 DEF WaitForAnswer, Emit, EmitCancelled, ReceiveAnswer,
         ReceiveClosed, GiveUp, FinishAwait, Ownership, TypeOK
    <2>2. AskingIsAwaited'
      BY <1>2, <2>1 DEF WaitForAnswer, engineVars, EngineInv, AskingIsAwaited
    <2> QED BY <1>2, <2>2 DEF WaitForAnswer, engineVars, EngineInv,
            EngineTypeOK, QueryState, AbortState, EntryIsLive, CallsOf
  <1>3. CASE SkipCall(w) \/ AutoApprove(w) \/ ToolReturns(w)
             \/ PermissionReturns(w)
    <2>1. /\ waiter[w] \in {"idle", "done"} /\ UNCHANGED waiter
          /\ \E o \in {"run", "denied", "cancelled", "panicked"} :
               result' = [result EXCEPT ![w] = o]
          /\ allowed' \subseteq Keys
      BY <1>3 DEF SkipCall, AutoApprove, ToolReturns, PermissionReturns, vars,
         waiterVars, EngineInv, EngineTypeOK, Keys
    <2>2. UNCHANGED <<query, batch, terminal, cause, cancels, aborter, target>>
      BY <1>3 DEF SkipCall, AutoApprove, ToolReturns, PermissionReturns
    <2> QED BY <2>1, <2>2 DEF EngineInv, EngineTypeOK, QueryState, AbortState,
            AskingIsAwaited, EntryIsLive, CallsOf
  <1> QED BY <1>1, <1>2, <1>3 DEF Call

\* Steps of AbortSession.
LEMMA AbortEngineInv ==
  ASSUME Ownership, EngineInv, EntryIsLive, AbortSession
  PROVE  EngineInv' /\ EntryIsLive'
  <1> USE DEF InLoop, EngineInv, EngineTypeOK, QueryState, AbortState,
      AskingIsAwaited, EntryIsLive, CallsOf
  <1>1. CASE AbortLookup
    BY <1>1 DEF AbortLookup, vars, waiterVars
  <1>2. CASE AbortCancel
    BY <1>2 DEF AbortCancel, CancelQuery, waiterVars
  <1>3. CASE AbortAwaits
    BY <1>3 DEF AbortAwaits, Abort, waiterVars
  <1> QED BY <1>1, <1>2, <1>3 DEF AbortSession

LEMMA NextEngineInv ==
  Ownership /\ EngineInv /\ EntryIsLive /\ [EngineNext]_allVars
    => EngineInv' /\ EntryIsLive'
  <1> SUFFICES ASSUME Ownership, EngineInv, EntryIsLive, [EngineNext]_allVars
               PROVE  EngineInv' /\ EntryIsLive'
    OBVIOUS
  <1>1. ASSUME NEW r \in Resolvers, Submit(r) PROVE EngineInv' /\ EntryIsLive'
    <2>1. UNCHANGED waiter
      BY <1>1 DEF Submit, Resolve, ResolveLookup, ResolveSend, ResolveClose,
         waiterVars
    <2> QED BY <1>1, <2>1 DEF Submit, engineVars, EngineInv, EngineTypeOK,
            QueryState, AbortState, AskingIsAwaited, EntryIsLive, CallsOf
  <1>2. CASE UNCHANGED allVars
    BY <1>2 DEF allVars, vars, waiterVars, engineVars, EngineInv, EngineTypeOK,
       QueryState, AbortState, AskingIsAwaited, EntryIsLive, CallsOf
  <1> QED BY <1>1, <1>2, QueryStepEngineInv, CallEngineInv, AbortEngineInv
          DEF EngineNext

\* The engine's variables stay consistent, and the cancel entry always leads
\* to a query that still runs.
THEOREM EngineInvariant == EngineSpec => [](EngineInv /\ EntryIsLive)
  <1>1. EngineSpec => []Ownership
    BY EngineIsAwaits, OwnershipInvariant, PTL DEF EngineUsesAwaits
  <1> QED BY <1>1, InitEngineInv, NextEngineInv, PTL DEF EngineSpec

\* A query that left its loop left no call behind: none is waiting, none is
\* registered.
THEOREM NoCallIsLeftBehind == EngineSpec => []NoCallOutlivesQuery
  <1>1. EngineSpec => []Ownership
    BY EngineIsAwaits, OwnershipInvariant, PTL DEF EngineUsesAwaits
  <1>2. ASSUME Ownership, EngineInv PROVE NoCallOutlivesQuery
    <2> SUFFICES ASSUME NEW w \in Awaiters,
                        query[Owner[w]] \notin {"new"} \cup InLoop
                 PROVE  waiter[w] \in {"idle", "done"} /\ w \notin Registered
      BY DEF NoCallOutlivesQuery
    <2>1. waiter[w] \in {"idle", "done"}
      BY <1>2 DEF EngineInv, QueryState, AskingIsAwaited, InLoop
    <2>2. w \notin Registered
      BY <1>2, <2>1 DEF Ownership, RegistryOwns, WaiterProgress, NoLeakedAwait,
         Registered
    <2> QED BY <2>1, <2>2
  <1> QED BY <1>1, <1>2, EngineInvariant, PTL

-----------------------------------------------------------------------------
\* Consent is never invented: only a step that saw the user's answer, or the
\* session-wide approval of the same key, makes a permission-gated call run.
LEMMA NextConsent ==
  Ownership /\ EngineInv /\ RunsOnlyWithConsent /\ [EngineNext]_allVars
    => RunsOnlyWithConsent'
  <1> SUFFICES ASSUME Ownership, EngineInv, RunsOnlyWithConsent,
                      [EngineNext]_allVars,
                      NEW w \in PermAwaiters, result'[w] = "run"
               PROVE  \/ outcome'[w] = "answered"
                      \/ waiter'[w] = "idle" /\ Key[w] \in allowed'
    BY DEF RunsOnlyWithConsent
  <1>1. allowed \subseteq allowed'
    BY DEF EngineNext, ProcessMessage, Loop, TurnTop, LLMFails, LLMFinishes,
       LLMCallsTools, ToolsDone, EmitDone, Deregister, Finish, Call, SkipCall,
       AutoApprove, BeginCall, WaitForAnswer, ToolReturns, PermissionReturns,
       Submit, AbortSession, AbortLookup, AbortCancel, AbortAwaits, engineVars,
       allVars
  <1>2. CASE result[w] = "run"
    <2>1. waiter[w] \in {"idle", "done"}
      BY <1>2 DEF EngineInv, AskingIsAwaited
    <2>2. waiter'[w] = waiter[w] /\ outcome'[w] = outcome[w]
      <3>1. ASSUME NEW v \in Awaiters, Call(v)
            PROVE  waiter'[w] = waiter[w] /\ outcome'[w] = outcome[w]
        BY <1>2, <2>1, <3>1 DEF Call, SkipCall, AutoApprove, BeginCall,
           BeginAwait, WaitForAnswer, Emit, EmitCancelled, ReceiveAnswer,
           ReceiveClosed, GiveUp, FinishAwait, ToolReturns, PermissionReturns,
           vars, waiterVars, Ownership, TypeOK
      <3>2. CASE ~ \E v \in Awaiters : Call(v)
        BY <3>2 DEF EngineNext, ProcessMessage, Loop, TurnTop, LLMFails,
           LLMFinishes, LLMCallsTools, ToolsDone, EmitDone, Deregister, Finish,
           CancelQuery, Submit, Resolve, ResolveLookup, ResolveSend,
           ResolveClose, AbortSession, AbortLookup, AbortCancel, AbortAwaits,
           Abort, allVars, vars, waiterVars
      <3> QED BY <3>1, <3>2
    <2> QED BY <1>1, <1>2, <2>2 DEF RunsOnlyWithConsent
  <1>3. CASE result[w] # "run"
    <2>1. PICK v \in Awaiters : AutoApprove(v) \/ ToolReturns(v)
                                \/ PermissionReturns(v)
      BY <1>3 DEF EngineNext, ProcessMessage, Loop, TurnTop, LLMFails,
         LLMFinishes, LLMCallsTools, ToolsDone, EmitDone, Deregister, Finish,
         Call, SkipCall, BeginCall, WaitForAnswer, Submit, AbortSession,
         AbortLookup, AbortCancel, AbortAwaits, engineVars, allVars,
         EngineInv, EngineTypeOK
    <2>2. v = w
      BY <1>3, <2>1 DEF AutoApprove, ToolReturns, PermissionReturns, EngineInv,
         EngineTypeOK
    <2> QED BY <2>1, <2>2, <1>3 DEF AutoApprove, ToolReturns,
            PermissionReturns, vars, waiterVars, EngineInv, EngineTypeOK
  <1> QED BY <1>2, <1>3

\* No permission-gated tool runs unless the user said so, whatever was
\* cancelled, aborted, retried or answered late.
THEOREM ConsentIsNeeded == EngineSpec => []RunsOnlyWithConsent
  <1>1. EngineSpec => []Ownership
    BY EngineIsAwaits, OwnershipInvariant, PTL DEF EngineUsesAwaits
  <1>2. EngineInit => RunsOnlyWithConsent
    BY DEF EngineInit, RunsOnlyWithConsent
  <1> QED BY <1>1, <1>2, NextConsent, EngineInvariant, PTL DEF EngineSpec
=============================================================================
