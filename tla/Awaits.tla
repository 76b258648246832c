------------------------------- MODULE Awaits -------------------------------
(***************************************************************************)
(* The session's registry of pending operations (session/awaits.go) with   *)
(* the goroutines around it: the ones that wait for a client's answer, the *)
(* ones that deliver an answer, and AbortAll.                              *)
(*                                                                         *)
(* One await object is made by one Push and owns one channel of capacity   *)
(* one, so the awaiter stands for the await, its channel and the goroutine *)
(* reading it.  The four maps of the code differ only in the payload type  *)
(* and never share an id, so they are one function over their ids.         *)
(***************************************************************************)
EXTENDS Naturals, FiniteSets

CONSTANTS
  Awaiters,     \* calls of PushTool / PushPerm, each waited on by one goroutine
  PermAwaiters, \* the ones that wait for a permission (the rest: a client tool)
  Ids,          \* tool-use ids and permission request ids
  Id,           \* the id each awaiter registers under
  Resolvers,    \* goroutines that deliver answers (SubmitToolResult, ...)
  NoAwait       \* "not in the map", "holds no await"

ASSUME AwaitsAssumption ==
  /\ PermAwaiters \subseteq Awaiters
  /\ Id \in [Awaiters -> Ids]
  /\ NoAwait \notin Awaiters

VARIABLES
  registry,  \* id -> the await registered under it: tools, perms, plans, ...
  made,      \* awaits whose channel exists
  full,      \* channels that hold an answer
  closed,    \* channels that have been closed
  waiter,    \* where each waiting goroutine is
  outcome,   \* what it saw: an answer, a closed channel, its ctx done
  ctxDone,   \* awaiters whose context has been cancelled
  resolver,  \* where each delivering goroutine is, between lookup and close
  held,      \* the await it removed from the registry
  panicked   \* a send on a closed channel or a second close happened

registryVars == <<registry, made, full, closed, panicked>>
waiterVars   == <<waiter, outcome>>
resolverVars == <<resolver, held>>
vars == <<registryVars, waiterVars, ctxDone, resolverVars>>

WaiterStates == {"idle", "emitting", "waiting", "forgetting", "done"}
Outcomes     == {"none", "answered", "aborted", "cancelled"}

TypeOK ==
  /\ registry \in [Ids -> Awaiters \cup {NoAwait}]
  /\ made \subseteq Awaiters
  /\ full \subseteq Awaiters
  /\ closed \subseteq Awaiters
  /\ waiter \in [Awaiters -> WaiterStates]
  /\ outcome \in [Awaiters -> Outcomes]
  /\ ctxDone \subseteq Awaiters
  /\ resolver \in [Resolvers -> {"idle", "sending", "closing"}]
  /\ held \in [Resolvers -> Awaiters \cup {NoAwait}]
  /\ panicked \in BOOLEAN

Init ==
  /\ registry = [i \in Ids |-> NoAwait]
  /\ made = {}
  /\ full = {}
  /\ closed = {}
  /\ waiter = [w \in Awaiters |-> "idle"]
  /\ outcome = [w \in Awaiters |-> "none"]
  /\ ctxDone = {}
  /\ resolver = [r \in Resolvers |-> "idle"]
  /\ held = [r \in Resolvers |-> NoAwait]
  /\ panicked = FALSE

Registered == {w \in Awaiters : registry[Id[w]] = w}

-----------------------------------------------------------------------------
(* The registry's operations: each runs under the mutex.                   *)

\* PushTool, PushPerm: a fresh channel, registered over whatever was there.
Push(w) ==
  /\ registry' = [registry EXCEPT ![Id[w]] = w]
  /\ made' = made \cup {w}
  /\ UNCHANGED <<full, closed, panicked>>

\* ForgetTool, ForgetPerm: whoever is registered under the id goes.
Forget(i) ==
  /\ registry' = [registry EXCEPT ![i] = NoAwait]
  /\ UNCHANGED <<made, full, closed, panicked>>

\* Bug: an AbortAll that forgets one of its loops.
AbortToolsOnly ==
  LET tools == Registered \ PermAwaiters
  IN /\ closed' = closed \cup tools
     /\ registry' = [i \in Ids |-> IF registry[i] \in tools THEN NoAwait
                                                           ELSE registry[i]]
     /\ UNCHANGED <<made, full, panicked>>

\* AbortAll: closes every registered channel and empties the maps.
AbortAll ==
  /\ panicked' = (panicked \/ Registered \cap closed # {})
  /\ closed' = closed \cup Registered
  /\ registry' = [i \in Ids |-> NoAwait]
  /\ UNCHANGED <<made, full>>

-----------------------------------------------------------------------------
(* A waiting goroutine: executeClientTools for a client tool,              *)
(* requestPermissionApproval or its sub-agent twin for a permission.       *)

BeginAwait(w) ==
  /\ waiter[w] = "idle"
  /\ Push(w)
  /\ waiter' = [waiter EXCEPT ![w] = "emitting"]
  /\ UNCHANGED <<outcome, ctxDone, resolverVars>>

\* The request event reaches the query's event channel.
Emit(w) ==
  /\ waiter[w] = "emitting"
  /\ waiter' = [waiter EXCEPT ![w] = "waiting"]
  /\ UNCHANGED <<registryVars, outcome, ctxDone, resolverVars>>

\* Only the client-tool path also selects on ctx.Done while emitting.
EmitCancelled(w) ==
  /\ waiter[w] = "emitting"
  /\ w \in ctxDone
  /\ w \notin PermAwaiters
  /\ waiter' = [waiter EXCEPT ![w] = "forgetting"]
  /\ outcome' = [outcome EXCEPT ![w] = "cancelled"]
  /\ UNCHANGED <<registryVars, ctxDone, resolverVars>>

\* The deferred ForgetPerm runs on every path; the tool path forgets only
\* when it gives up.
AfterReceive(w) == IF w \in PermAwaiters THEN "forgetting" ELSE "done"

ReceiveAnswer(w) ==
  /\ waiter[w] = "waiting"
  /\ w \in full
  /\ full' = full \ {w}
  /\ waiter' = [waiter EXCEPT ![w] = AfterReceive(w)]
  /\ outcome' = [outcome EXCEPT ![w] = "answered"]
  /\ UNCHANGED <<registry, made, closed, panicked, ctxDone, resolverVars>>

ReceiveClosed(w) ==
  /\ waiter[w] = "waiting"
  /\ w \in closed \ full
  /\ waiter' = [waiter EXCEPT ![w] = AfterReceive(w)]
  /\ outcome' = [outcome EXCEPT ![w] = "aborted"]
  /\ UNCHANGED <<registryVars, ctxDone, resolverVars>>

\* Bug: the permission path blocks on the answer alone.
GiveUpToolsOnly(w) ==
  /\ waiter[w] = "waiting"
  /\ w \in ctxDone \ PermAwaiters
  /\ waiter' = [waiter EXCEPT ![w] = "forgetting"]
  /\ outcome' = [outcome EXCEPT ![w] = "cancelled"]
  /\ UNCHANGED <<registryVars, ctxDone, resolverVars>>

\* select takes any ready case: a done context may win over an answer.
GiveUp(w) ==
  /\ waiter[w] = "waiting"
  /\ w \in ctxDone
  /\ waiter' = [waiter EXCEPT ![w] = "forgetting"]
  /\ outcome' = [outcome EXCEPT ![w] = "cancelled"]
  /\ UNCHANGED <<registryVars, ctxDone, resolverVars>>

FinishAwait(w) ==
  /\ waiter[w] = "forgetting"
  /\ Forget(Id[w])
  /\ waiter' = [waiter EXCEPT ![w] = "done"]
  /\ UNCHANGED <<outcome, ctxDone, resolverVars>>

Await(w) ==
  \/ BeginAwait(w) \/ Emit(w) \/ EmitCancelled(w)
  \/ ReceiveAnswer(w) \/ ReceiveClosed(w) \/ GiveUp(w) \/ FinishAwait(w)

-----------------------------------------------------------------------------
(* A delivering goroutine: ResolveTool, ResolvePerm and their siblings     *)
(* remove the await under the mutex, then send and close outside it.  An   *)
(* id that is not registered is answered ErrAwaitNotFound and changes      *)
(* nothing, so a stale or repeated answer takes no step.                   *)

\* Bug: reading the map without deleting the entry.
LookupKeepsEntry(r, i) ==
  /\ resolver[r] = "idle"
  /\ registry[i] # NoAwait
  /\ held' = [held EXCEPT ![r] = registry[i]]
  /\ resolver' = [resolver EXCEPT ![r] = "sending"]
  /\ UNCHANGED <<registryVars, waiterVars, ctxDone>>

ResolveLookup(r, i) ==
  /\ resolver[r] = "idle"
  /\ registry[i] # NoAwait
  /\ held' = [held EXCEPT ![r] = registry[i]]
  /\ registry' = [registry EXCEPT ![i] = NoAwait]
  /\ resolver' = [resolver EXCEPT ![r] = "sending"]
  /\ UNCHANGED <<made, full, closed, panicked, waiterVars, ctxDone>>

\* Sending to a full channel blocks; sending to a closed one panics.
ResolveSend(r) ==
  /\ resolver[r] = "sending"
  /\ held[r] \in closed \/ held[r] \notin full
  /\ panicked' = (panicked \/ held[r] \in closed)
  /\ full' = full \cup ({held[r]} \ closed)
  /\ resolver' = [resolver EXCEPT ![r] = "closing"]
  /\ UNCHANGED <<registry, made, closed, waiterVars, ctxDone, held>>

ResolveClose(r) ==
  /\ resolver[r] = "closing"
  /\ panicked' = (panicked \/ held[r] \in closed)
  /\ closed' = closed \cup {held[r]}
  /\ resolver' = [resolver EXCEPT ![r] = "idle"]
  /\ held' = [held EXCEPT ![r] = NoAwait]
  /\ UNCHANGED <<registry, made, full, waiterVars, ctxDone>>

Resolve(r) ==
  \/ \E i \in Ids : ResolveLookup(r, i)
  \/ ResolveSend(r)
  \/ ResolveClose(r)

-----------------------------------------------------------------------------
\* A context ends, for every goroutine that runs under it.
CancelCtx(ws) ==
  /\ ~ ws \subseteq ctxDone
  /\ ctxDone' = ctxDone \cup ws
  /\ UNCHANGED <<registryVars, waiterVars, resolverVars>>

Abort ==
  /\ AbortAll
  /\ UNCHANGED <<waiterVars, ctxDone, resolverVars>>

Next ==
  \/ \E w \in Awaiters : Await(w)
  \/ \E ws \in SUBSET Awaiters : CancelCtx(ws)
  \/ \E r \in Resolvers : Resolve(r)
  \/ Abort

Spec == Init /\ [][Next]_vars

\* Started goroutines are scheduled: a waiter leaves when one of its select
\* cases is ready, a resolver that removed an await sends and closes.  No one
\* has to answer, cancel or abort.
Fairness ==
  /\ \A w \in Awaiters :
       WF_vars(Emit(w) \/ EmitCancelled(w) \/ ReceiveAnswer(w)
               \/ ReceiveClosed(w) \/ GiveUp(w) \/ FinishAwait(w))
  /\ \A r \in Resolvers : WF_vars(ResolveSend(r) \/ ResolveClose(r))

FairSpec == Spec /\ Fairness

-----------------------------------------------------------------------------
(* Properties                                                              *)

Holders(w) == {r \in Resolvers : held[r] = w}

\* No await is sent to or closed by two parties: an answer racing AbortAll,
\* or two answers racing each other, never sends on a closed channel and never
\* closes one twice, either of which would panic the server's consumer loop.
NoChannelPanic == ~panicked

\* A finished wait leaves nothing behind: whatever order answer, abort and
\* cancellation took, the registry no longer holds the await, so a late answer
\* is refused instead of being swallowed by a channel nobody reads.
NoLeakedAwait == \A w \in Awaiters : waiter[w] = "done" => w \notin Registered

\* An await that some resolver has claimed is not closed under it: as long as
\* the answer is on its way the channel stays open, empty and unregistered, so
\* the waiter cannot mistake a delivered answer for an abort.
ClaimedAwaitStaysOpen ==
  \A r \in Resolvers :
    resolver[r] = "sending" => /\ held[r] \notin closed
                               /\ held[r] \notin full
                               /\ held[r] \notin Registered
                               /\ Holders(held[r]) = {r}

\* Once a resolver has reported success the answer is in the channel or has
\* been read: it cannot be reported delivered and be missing, and an await that
\* was answered is never registered again.
AnswerIsKept ==
  /\ \A r \in Resolvers :
       resolver[r] = "closing" => \/ held[r] \in full
                                  \/ outcome[held[r]] = "answered"
  /\ \A w \in Awaiters :
       outcome[w] = "answered" => w \in made \ Registered

\* The inductive invariant behind the properties above.  The registry owns
\* the channels it lists; a resolver owns the one it took out; the two never own
\* the same one, and only an owner sends or closes.
RegistryOwns ==
  \A i \in Ids : registry[i] # NoAwait =>
    /\ Id[registry[i]] = i
    /\ registry[i] \in made \ (closed \cup full)

ResolverOwns ==
  /\ \A r \in Resolvers : resolver[r] = "idle" <=> held[r] = NoAwait
  /\ \A r \in Resolvers : held[r] # NoAwait =>
       /\ held[r] \in made \ (closed \cup Registered)
       /\ resolver[r] = "sending" => held[r] \notin full
  /\ \A r, s \in Resolvers : held[r] = held[s] /\ held[r] # NoAwait => r = s

WaiterProgress ==
  /\ full \cup closed \subseteq made
  /\ \A w \in Awaiters :
       /\ waiter[w] = "idle" <=> w \notin made
       /\ waiter[w] \in {"idle", "emitting", "waiting"} <=> outcome[w] = "none"

Ownership ==
  /\ TypeOK
  /\ RegistryOwns
  /\ ResolverOwns
  /\ WaiterProgress
  /\ NoChannelPanic
  /\ NoLeakedAwait

\* A goroutine that waits for a client (executeClientTools, the approval functions)
\* is released by whatever comes first: the end of its context, AbortAll, or an
\* answer taken from the registry for it.  It stays released until it is done, so that
\* every released wait ends exactly if again and again no wait is held.
Released(w) ==
  \/ w \in ctxDone /\ w \in made
  \/ w \in closed \cup full
  \/ \E r \in Resolvers : resolver[r] = "sending" /\ held[r] = w
NoWaitIsHeld == \A w \in Awaiters : Released(w) => waiter[w] = "done"
-----------------------------------------------------------------------------
(* The registry implements AwaitPromise.  A request is answered at the     *)
(* moment a resolver removes it under the mutex, not when the waiter reads *)
(* the channel.                                                            *)

UniqueIds == \A v, w \in Awaiters : Id[v] = Id[w] => v = w

Settled == [w \in Awaiters |->
  IF w \notin made THEN "unasked"
  ELSE IF w \in Registered THEN "pending"
  ELSE IF w \in full \/ outcome[w] = "answered" \/ Holders(w) # {} THEN "answered"
  ELSE IF w \in closed THEN "aborted" ELSE "abandoned"]

Promise == INSTANCE AwaitPromise WITH Requests <- Awaiters, settled <- Settled

\* Every request is settled once, by one cause, and AbortAll settles all that
\* are pending in a single step ("closes every pending channel atomically").
\* Holds when no two awaits share
\* an id (UniqueIds).
ImplementsPromise == Promise!PromiseSpec
=============================================================================
