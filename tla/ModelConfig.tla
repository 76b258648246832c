---------------------------- MODULE ModelConfig ----------------------------
(***************************************************************************)
(* The configuration of the models while the server runs: the manager that  *)
(* owns the live configuration and rebuilds the failover dispatcher at each *)
(* change, the management API whose requests change it and then write it to *)
(* the configuration file, and the start of the server from that file.      *)
(* Requests run concurrently.  A change is made under the manager's mutex;  *)
(* what is written to the file is read again afterwards, and the file is    *)
(* loaded, edited and saved without a lock.                                 *)
(***************************************************************************)
EXTENDS Naturals, Sequences, FiniteSets, SequencesExt

CONSTANTS
  Provs,       \* names of providers
  Endpoints,   \* endpoints, numbers in the order of their names
  Owner,       \* the provider an endpoint is declared under
  MaxTokens,   \* values of max_tokens; 0 is "not set"
  Starts,      \* configurations the server may start with
  Primaries,   \* values of primary in a request that sets it
  Chains,      \* values of fallback_chain in a request that sets it
  Requests,    \* management requests that may run at once
  Calls,       \* model calls that may run at once
  MaxChanges,  \* bound: changes of the configuration
  MaxFaults,   \* bound: failed saves, failed builds and restarts
  None, Keep,  \* nothing; a field the request leaves out
  Blank        \* a provider in the file that has no credentials

Creds == [key : 0..1, off : BOOLEAN]
Limits == MaxTokens \ {0}
Tuning == [max : Limits, off : BOOLEAN]
\* A reference: an endpoint written "provider:endpoint", or in the older form
\* "provider.endpoint".  Both resolve; as text they differ.
Refs == [ep : Endpoints, dot : BOOLEAN]

ASSUME ModelConfigAssumption ==
  /\ Endpoints \subseteq Nat /\ IsFiniteSet(Endpoints)
  /\ Owner \in [Endpoints -> Provs]
  /\ 0 \in MaxTokens /\ MaxTokens \subseteq Nat
  /\ Primaries \subseteq Refs \cup {None} /\ Chains \subseteq Seq(Refs)
  /\ MaxChanges \in Nat /\ MaxFaults \in Nat
  /\ None \notin Refs /\ None \notin Creds /\ None \notin Tuning /\ None \notin {Keep, Blank}
  /\ Keep \notin MaxTokens /\ Keep \notin BOOLEAN /\ Keep \notin Primaries /\ Keep \notin Chains
  /\ Blank \notin Creds

Media == {"image", "video"}

Configs == [creds : [Provs -> Creds \cup {None, Blank}],
            eps : [Endpoints -> Tuning \cup {None}],
            primary : Refs \cup {None}, fallback : Seq(Refs), tokens : MaxTokens,
            media : [Media -> 0..1], tools : 0..1]

VARIABLES
  mem,       \* the live configuration (manager, media sources, tool registry)
  adapters,  \* the adapters cached for the endpoints: [id, key, max] or None
  disp,      \* the live dispatcher: a chain of [ref, id, off], or None
  built,     \* adapters built so far
  shut,      \* ids of the adapters shut down
  failed,    \* ghost: a rebuild has failed since the start
  disk,      \* the configuration file
  pc, op, seen, agent, draft,  \* requests: step, change, and what they read
  lock,      \* the request that holds the lock of the tools handler
  held, on,  \* calls: dispatcher, and id of the adapter that serves it
  clean,     \* ghost: no overlap of requests and no fault since the last good start
  changes, faults

manager == <<mem, adapters, disp, built, shut, failed>>
requests == <<pc, op, seen, agent, draft, lock>>
calls == <<held, on>>
vars == <<manager, disk, requests, calls, clean, changes, faults>>

-----------------------------------------------------------------------------
(* The configuration                                                       *)

Canonical(e) == [ep |-> e, dot |-> FALSE]

\* Primary first, then the fallback chain; only the first of equal entries counts.
EffectiveChain(c) ==
  LET full == (IF c.primary = None THEN <<>> ELSE <<c.primary>>) \o c.fallback
      firsts == {i \in DOMAIN full : \A j \in 1..(i - 1) : full[j] # full[i]}
      Nth(k) == CHOOSE i \in firsts : Cardinality({j \in firsts : j <= i}) = k
  IN  [k \in 1..Cardinality(firsts) |-> full[Nth(k)]]

SetEffectiveChain(c, chain) ==
  [c EXCEPT !.primary = IF chain = <<>> THEN None ELSE Head(chain),
            !.fallback = IF chain = <<>> THEN <<>> ELSE Tail(chain)]

EndpointExists(c, e) == e \in Endpoints /\ c.creds[Owner[e]] \in Creds /\ c.eps[e] # None

ChainResolves(c) == \A x \in ToSet(EffectiveChain(c)) : EndpointExists(c, x.ep)

EffectiveEnabled(c, e) ==
  EndpointExists(c, e) /\ ~c.creds[Owner[e]].off /\ ~c.eps[e].off

AutoFillEmptyChain(c, e) ==
  IF EffectiveChain(c) = <<>> /\ EffectiveEnabled(c, e)
  THEN SetEffectiveChain(c, <<Canonical(e)>>) ELSE c

\* The enabled endpoint of p that is first by name.
FirstEnabled(c, p) ==
  {e \in Endpoints : /\ Owner[e] = p /\ EffectiveEnabled(c, e)
                     /\ \A o \in Endpoints : Owner[o] = p /\ EffectiveEnabled(c, o) => e <= o}

\* The chain without the references in gone; untouched when it has none.
FilterChain(c, gone) ==
  LET Stays(x) == x \notin gone IN
    IF ToSet(EffectiveChain(c)) \cap gone = {} THEN c
    ELSE SetEffectiveChain(c, SelectSeq(EffectiveChain(c), Stays))

RefsTo(es) == {x \in Refs : x.ep \in es}

\* The agent's max_tokens under the ceiling of the endpoint.
EffectiveMaxTokens(agentMax, epMax) ==
  IF agentMax = 0 \/ (epMax # 0 /\ agentMax > epMax) THEN epMax ELSE agentMax

\* The adapter of an endpoint, with the defaults frozen into it.
Built(c, e, id) == [id |-> id, key |-> c.creds[Owner[e]].key,
                    max |-> EffectiveMaxTokens(c.tokens, c.eps[e].max)]

-----------------------------------------------------------------------------
(* The manager's changes, as functions of the configuration                *)

Over(old, new) == IF new = Keep THEN old ELSE new

AddProvider(c, p, off) == [c EXCEPT !.creds[p] = [key |-> 0, off |-> off]]

\* Disabling a provider takes its endpoints out of the chain; one that is
\* enabled may fill an empty chain.
UpdateProviderCreds(c, p, key, off) ==
  LET patched == [c EXCEPT !.creds[p] = [key |-> Over(@.key, key), off |-> Over(@.off, off)]]
      routed == IF off = TRUE
                THEN FilterChain(patched, RefsTo({e \in Endpoints : Owner[e] = p})) ELSE patched
      first == FirstEnabled(routed, p)
  IN  IF first = {} THEN routed ELSE AutoFillEmptyChain(routed, CHOOSE e \in first : TRUE)

AddEndpoint(c, e, max, off) ==
  AutoFillEmptyChain([c EXCEPT !.eps[e] = [max |-> max, off |-> off]], e)

\* Disabling an endpoint takes it out of the chain, in either form.
UpdateEndpoint(c, e, max, off) ==
  LET patched == [c EXCEPT !.eps[e] = [max |-> Over(@.max, max), off |-> Over(@.off, off)]]
      routed == IF off = TRUE THEN FilterChain(patched, RefsTo({e})) ELSE patched
  IN  AutoFillEmptyChain(routed, e)

\* Deleting looks for the canonical form alone, and refuses the last entry.
MayDelete(c, e) == EndpointExists(c, e) /\ EffectiveChain(c) # <<Canonical(e)>>

DeleteEndpoint(c, e) == [FilterChain(c, {Canonical(e)}) EXCEPT !.eps[e] = None]

UpdateAgent(c, primary, fallback, tokens) ==
  [c EXCEPT !.primary = Over(@, primary), !.fallback = Over(@, fallback),
            !.tokens = Over(@, tokens)]

\* References resolve, and no fallback repeats the text of the primary.
ValidAgent(c) ==
  /\ c.primary # None => EndpointExists(c, c.primary.ep)
  /\ \A x \in ToSet(c.fallback) : EndpointExists(c, x.ep) /\ x # c.primary

-----------------------------------------------------------------------------
(* The dispatcher                                                          *)

Ids(as) == {as[e].id : e \in {o \in Endpoints : as[o] # None}}

\* The cache with new adapters for the endpoints in fresh.
Rebuilt(as, c, fresh) ==
  [e \in Endpoints |->
     IF e \in fresh THEN Built(c, e, built + Cardinality({o \in fresh : o <= e})) ELSE as[e]]

Dispatcher(c, as) ==
  LET chain == EffectiveChain(c)
      Entry(x) == [ref |-> x, id |-> as[x.ep].id, off |-> ~EffectiveEnabled(c, x.ep)]
  IN  [i \in DOMAIN chain |-> Entry(chain[i])]

Uncached(c, as) == {x.ep : x \in ToSet(EffectiveChain(c))} \cap {e \in Endpoints : as[e] = None}

\* rebuildLocked succeeds: build what the chain lacks, swap the dispatcher, then
\* shut down the adapters that were replaced.
Install(c, as, fresh) ==
  LET need == fresh \cup Uncached(c, as)
      new == Rebuilt(as, c, need)
  IN  /\ mem' = c
      /\ adapters' = new
      /\ built' = built + Cardinality(need)
      /\ disp' = IF EffectiveChain(c) = <<>> THEN None ELSE Dispatcher(c, new)
      /\ shut' = shut \cup (Ids(adapters) \ Ids(new))
      /\ UNCHANGED failed

\* Bug: what was replaced is shut down although the dispatcher stays.
FailInstallShuts(c, as) ==
  /\ mem' = c /\ adapters' = as
  /\ failed' = TRUE
  /\ shut' = shut \cup (Ids(adapters) \ Ids(as))
  /\ UNCHANGED disp

\* It fails on an entry that does not resolve: the dispatcher stays, nothing is
\* shut down, and c is what the caller leaves as the configuration.
FailInstall(c, as) ==
  /\ mem' = c /\ adapters' = as
  /\ failed' = TRUE
  /\ UNCHANGED <<disp, shut>>

NoAdapters == [e \in Endpoints |-> None]

\* New builds an adapter for each endpoint of the chain; it fails on a reference that does
\* not resolve, and the server does not start.
BootAdapters(c, from) ==
  [e \in Endpoints |->
     IF e \in Uncached(c, NoAdapters)
     THEN Built(c, e, from + Cardinality({o \in Uncached(c, NoAdapters) : o <= e})) ELSE None]

Boot(c) ==
  /\ ChainResolves(c)
  /\ mem' = c
  /\ adapters' = BootAdapters(c, built)
  /\ built' = built + Cardinality(Uncached(c, NoAdapters))
  /\ disp' = IF EffectiveChain(c) = <<>> THEN None ELSE Dispatcher(c, adapters')
  /\ failed' = FALSE
  /\ UNCHANGED shut

-----------------------------------------------------------------------------
(* The file                                                                *)

SetProviderCreds(d, p, v) == [d EXCEPT !.creds[p] = v]

\* Creates the provider's entry when it is missing.
SetEndpoint(d, e, v) ==
  [d EXCEPT !.eps[e] = v, !.creds[Owner[e]] = IF @ = None THEN Blank ELSE @]

RemoveEndpoint(d, e) == [d EXCEPT !.eps[e] = None]

Agent(c) == [primary |-> c.primary, fallback |-> c.fallback, tokens |-> c.tokens]

\* Bug: the chain is written, the tuning is not.
SetChainOnly(d, a) == [d EXCEPT !.primary = a.primary, !.fallback = a.fallback]

SetAgent(d, a) ==
  [d EXCEPT !.primary = a.primary, !.fallback = a.fallback, !.tokens = a.tokens]

SetImageGen(d, v) == [d EXCEPT !.media["image"] = v]
SetVideoGen(d, v) == [d EXCEPT !.media["video"] = v]
SetToolConfig(d, v) == [d EXCEPT !.tools = v]

\* What a start makes of the file: providers without a type go, with their
\* endpoints, then references that do not resolve or repeat the primary.
SanitizeLLM(d) ==
  LET kept == [d EXCEPT !.creds = [p \in Provs |-> IF @[p] = Blank THEN None ELSE @[p]],
                        !.eps = [e \in Endpoints |->
                                   IF d.creds[Owner[e]] \in Creds THEN @[e] ELSE None]]
      primary == IF kept.primary # None /\ EndpointExists(kept, kept.primary.ep)
                 THEN kept.primary ELSE None
      Stays(x) == x # primary /\ EndpointExists(kept, x.ep)
  IN  [kept EXCEPT !.primary = primary, !.fallback = SelectSeq(@, Stays)]

-----------------------------------------------------------------------------
(* Requests: the change                                                    *)

Init ==
  /\ mem \in Starts /\ disk = mem /\ ChainResolves(mem)
  /\ adapters = BootAdapters(mem, 0)
  /\ disp = IF EffectiveChain(mem) = <<>> THEN None ELSE Dispatcher(mem, adapters)
  /\ built = Cardinality(Uncached(mem, NoAdapters)) /\ shut = {} /\ failed = FALSE
  /\ pc = [r \in Requests |-> "idle"]
  /\ op = [r \in Requests |-> None] /\ seen = [r \in Requests |-> None]
  /\ agent = [r \in Requests |-> None] /\ draft = [r \in Requests |-> None]
  /\ lock = None
  /\ held = [c \in Calls |-> <<>>] /\ on = [c \in Calls |-> 0]
  /\ clean = TRUE /\ changes = 0 /\ faults = 0

MayBegin(r) == pc[r] = "idle" /\ changes < MaxChanges

\* A request comes; it is the only one, or it overlaps with another.
Begin(r) ==
  /\ changes' = changes + 1
  /\ clean' = (clean /\ \A o \in Requests : pc[o] = "idle")

\* The change is made: it is answered with an error when the rebuild fails,
\* else what the request read back is written to the file.
Changed(r, c, as, fresh, back, what, next) ==
  /\ \/ /\ ChainResolves(c)
        /\ Install(c, as, fresh)
        /\ pc' = [pc EXCEPT ![r] = next]
        /\ op' = [op EXCEPT ![r] = what]
        /\ Begin(r)
     \/ /\ ~ChainResolves(c)
        /\ FailInstall(back, Rebuilt(as, c, fresh))
        /\ built' = built + Cardinality(fresh)
        /\ Begin(r)
        /\ UNCHANGED <<pc, op>>
  /\ UNCHANGED <<disk, seen, agent, draft, lock, calls, faults>>

PostProvider(r, p, off) ==
  /\ mem.creds[p] = None
  /\ Changed(r, AddProvider(mem, p, off), adapters, {}, mem, [kind |-> "creds", at |-> p], "config")

\* All endpoints of the provider get new adapters.  A failed rebuild restores the
\* provider, and neither the chain nor the adapters.
PatchProvider(r, p, key, off) ==
  LET c == UpdateProviderCreds(mem, p, key, off) IN
    /\ mem.creds[p] # None /\ ~(key = Keep /\ off = Keep)
    /\ Changed(r, c, adapters, {e \in Endpoints : Owner[e] = p /\ mem.eps[e] # None},
               [c EXCEPT !.creds[p] = mem.creds[p]], [kind |-> "creds", at |-> p], "config")

PostEndpoint(r, e, max, off) ==
  LET c == AddEndpoint(mem, e, max, off) IN
    /\ mem.creds[Owner[e]] # None /\ mem.eps[e] = None
    /\ Changed(r, c, adapters, {e}, c, [kind |-> "endpoint", at |-> e], "config")

PatchEndpoint(r, e, max, off) ==
  LET c == UpdateEndpoint(mem, e, max, off) IN
    /\ EndpointExists(mem, e) /\ ~(max = Keep /\ off = Keep)
    /\ Changed(r, c, adapters, {e}, c, [kind |-> "endpoint", at |-> e], "config")

RemovesEndpoint(r, e) ==
  LET c == DeleteEndpoint(mem, e) IN
    /\ MayDelete(mem, e)
    /\ Changed(r, c, [adapters EXCEPT ![e] = None], {}, c, [kind |-> "delete", at |-> e], "agent")

\* A new max_tokens empties the cache.
TuningChanged(tokens) == tokens \notin {Keep, mem.tokens}

AgentCache(tokens) == IF TuningChanged(tokens) THEN NoAdapters ELSE adapters

PatchAgent(r, primary, fallback, tokens) ==
  LET c == UpdateAgent(mem, primary, fallback, tokens) IN
    /\ ValidAgent(c) /\ ~(primary = Keep /\ fallback = Keep /\ tokens = Keep)
    /\ Changed(r, c, AgentCache(tokens), {}, mem, [kind |-> "agent", at |-> None], "agent")

\* An adapter of the new chain cannot be built: what was built before it stays in
\* the cache, unless the cache is the one that is thrown away.
PatchAgentFails(r, primary, fallback, tokens) ==
  LET c == UpdateAgent(mem, primary, fallback, tokens)
      chain == EffectiveChain(c)
  IN  /\ ValidAgent(c) /\ ~(primary = Keep /\ fallback = Keep /\ tokens = Keep)
      /\ \E i \in 1..Len(chain) :
           LET before == Uncached(c, AgentCache(tokens)) \cap {chain[j].ep : j \in 1..(i - 1)} IN
             /\ chain[i].ep \in Uncached(c, AgentCache(tokens)) \ before
             /\ adapters' = IF TuningChanged(tokens) THEN adapters
                            ELSE Rebuilt(adapters, c, before)
             /\ built' = built + Cardinality(before)
      /\ faults < MaxFaults /\ faults' = faults + 1
      /\ Begin(r)
      /\ UNCHANGED <<mem, disp, shut, failed, disk, requests, calls>>

-----------------------------------------------------------------------------
(* Requests: the file                                                      *)

Stored(kind, at) == IF kind = "creds" THEN mem.creds[at] ELSE mem.eps[at]

\* CurrentConfig, and then CurrentAgent: two locks.  What is gone by now cannot
\* be written.
ReadConfig(r) ==
  /\ pc[r] = "config"
  /\ LET v == Stored(op[r].kind, op[r].at) IN
       \/ /\ v # None
          /\ seen' = [seen EXCEPT ![r] = v]
          /\ pc' = [pc EXCEPT ![r] = "agent"]
          /\ UNCHANGED op
       \/ /\ v = None
          /\ pc' = [pc EXCEPT ![r] = "idle"] /\ op' = [op EXCEPT ![r] = None]
          /\ UNCHANGED seen
  /\ UNCHANGED <<manager, disk, agent, draft, lock, calls, clean, changes, faults>>

ReadAgent(r) ==
  /\ pc[r] = "agent"
  /\ agent' = [agent EXCEPT ![r] = Agent(mem)]
  /\ pc' = [pc EXCEPT ![r] = "load"]
  /\ UNCHANGED <<manager, disk, op, seen, draft, lock, calls, clean, changes, faults>>

\* The edit a request makes in the file it has loaded.
Edited(r, d) ==
  CASE op[r].kind = "creds" -> SetAgent(SetProviderCreds(d, op[r].at, seen[r]), agent[r])
    [] op[r].kind = "endpoint" -> SetAgent(SetEndpoint(d, op[r].at, seen[r]), agent[r])
    [] op[r].kind = "delete" -> SetAgent(RemoveEndpoint(d, op[r].at), agent[r])
    [] op[r].kind = "agent" -> SetAgent(d, agent[r])
    [] op[r].kind = "image" -> SetImageGen(d, seen[r].to)
    [] op[r].kind = "video" -> SetVideoGen(d, seen[r].to)
    [] op[r].kind = "tools" -> SetToolConfig(d, seen[r].to)

Editable(r) == op[r].kind = "delete" => disk.creds[Owner[op[r].at]] # None

LoadFile(r) ==
  /\ pc[r] = "load" /\ Editable(r)
  /\ draft' = [draft EXCEPT ![r] = Edited(r, disk)]
  /\ pc' = [pc EXCEPT ![r] = "save"]
  /\ UNCHANGED <<manager, disk, op, seen, agent, lock, calls, clean, changes, faults>>

\* The request is over.
Answer(r) ==
  /\ pc' = [pc EXCEPT ![r] = "idle"] /\ op' = [op EXCEPT ![r] = None]
  /\ seen' = [seen EXCEPT ![r] = None] /\ agent' = [agent EXCEPT ![r] = None]
  /\ draft' = [draft EXCEPT ![r] = None]
  /\ lock' = IF lock = r THEN None ELSE lock

\* The new file replaces the old one at once.
SaveFile(r) ==
  /\ pc[r] = "save"
  /\ disk' = draft[r]
  /\ Answer(r)
  /\ UNCHANGED <<manager, calls, clean, changes, faults>>

\* The file cannot be read, edited or replaced: the live configuration keeps the
\* change; a tool gets its former settings back.
PersistFails(r) ==
  /\ pc[r] \in {"load", "save"}
  /\ \/ pc[r] = "load" /\ ~Editable(r) /\ UNCHANGED faults
     \/ faults < MaxFaults /\ faults' = faults + 1
  /\ clean' = FALSE
  /\ mem' = IF op[r].kind = "tools" THEN [mem EXCEPT !.tools = 1 - seen[r].to] ELSE mem
  /\ Answer(r)
  /\ UNCHANGED <<adapters, disp, built, shut, failed, disk, calls, changes>>

-----------------------------------------------------------------------------
(* Settings of media generation and of the search tools                    *)

\* A media handler merges the request into a snapshot, then replaces the source.
PatchMedia(r, m) ==
  /\ Begin(r)
  /\ op' = [op EXCEPT ![r] = [kind |-> m, at |-> None]]
  /\ seen' = [seen EXCEPT ![r] = [to |-> 1 - mem.media[m]]]
  /\ pc' = [pc EXCEPT ![r] = "apply"]
  /\ UNCHANGED <<manager, disk, agent, draft, lock, calls, faults>>

PatchImage(r) == PatchMedia(r, "image")
PatchVideo(r) == PatchMedia(r, "video")

UpdateSource(r) ==
  /\ pc[r] = "apply"
  /\ mem' = [mem EXCEPT !.media[op[r].kind] = seen[r].to]
  /\ pc' = [pc EXCEPT ![r] = "load"]
  /\ UNCHANGED <<adapters, disp, built, shut, failed, disk, op, seen, agent, draft, lock, calls,
                 clean, changes, faults>>

\* The tools handler holds a lock of its own from here to its answer.
PatchTool(r) ==
  /\ lock = None /\ lock' = r
  /\ Begin(r)
  /\ op' = [op EXCEPT ![r] = [kind |-> "tools", at |-> None]]
  /\ seen' = [seen EXCEPT ![r] = [to |-> 1 - mem.tools]]
  /\ mem' = [mem EXCEPT !.tools = 1 - @]
  /\ pc' = [pc EXCEPT ![r] = "load"]
  /\ UNCHANGED <<adapters, disp, built, shut, failed, disk, agent, draft, calls, faults>>

-----------------------------------------------------------------------------
(* Calls and restarts                                                      *)

\* Chat takes the dispatcher that is current; ErrNoEndpoint when there is none.
CallBegins(c) ==
  /\ held[c] = <<>> /\ disp # None
  /\ held' = [held EXCEPT ![c] = disp]
  /\ UNCHANGED <<manager, disk, requests, on, clean, changes, faults>>

\* The dispatcher tries an entry that is not parked.
CallDials(c) ==
  /\ on[c] = 0
  /\ \E i \in DOMAIN held[c] : ~held[c][i].off /\ on' = [on EXCEPT ![c] = held[c][i].id]
  /\ UNCHANGED <<manager, disk, requests, held, clean, changes, faults>>

\* The attempt fails and the next entry is tried, or the call ends.
CallLeaves(c) ==
  /\ held[c] # <<>>
  /\ \/ on[c] # 0 /\ on' = [on EXCEPT ![c] = 0] /\ UNCHANGED held
     \/ on' = [on EXCEPT ![c] = 0] /\ held' = [held EXCEPT ![c] = <<>>]
  /\ UNCHANGED <<manager, disk, requests, clean, changes, faults>>

\* The process ends and starts again from the file.
Restart ==
  /\ faults < MaxFaults /\ faults' = faults + 1
  /\ Boot(SanitizeLLM(disk))
  /\ pc' = [r \in Requests |-> "idle"]
  /\ op' = [r \in Requests |-> None] /\ seen' = [r \in Requests |-> None]
  /\ agent' = [r \in Requests |-> None] /\ draft' = [r \in Requests |-> None]
  /\ lock' = None
  /\ held' = [c \in Calls |-> <<>>] /\ on' = [c \in Calls |-> 0]
  /\ clean' = (SanitizeLLM(disk) = disk)
  /\ UNCHANGED <<disk, changes>>

Flags == BOOLEAN \cup {Keep}

Next ==
  \/ \E r \in Requests :
       \/ /\ MayBegin(r)
          /\ \/ \E p \in Provs :
                  \/ \E off \in BOOLEAN : PostProvider(r, p, off)
                  \/ \E key \in {1, Keep}, off \in Flags : PatchProvider(r, p, key, off)
             \/ \E e \in Endpoints :
                  \/ \E max \in Limits, off \in BOOLEAN : PostEndpoint(r, e, max, off)
                  \/ \E max \in Limits \cup {Keep}, off \in Flags : PatchEndpoint(r, e, max, off)
                  \/ RemovesEndpoint(r, e)
             \/ \E primary \in Primaries \cup {Keep}, fallback \in Chains \cup {Keep},
                  tokens \in MaxTokens \cup {Keep} :
                    \/ PatchAgent(r, primary, fallback, tokens)
                    \/ PatchAgentFails(r, primary, fallback, tokens)
             \/ PatchImage(r) \/ PatchVideo(r) \/ PatchTool(r)
       \/ UpdateSource(r)
       \/ ReadConfig(r) \/ ReadAgent(r) \/ LoadFile(r) \/ SaveFile(r) \/ PersistFails(r)
  \/ \E c \in Calls : CallBegins(c) \/ CallDials(c) \/ CallLeaves(c)
  \/ Restart

Spec == Init /\ [][Next]_vars

-----------------------------------------------------------------------------
(* Properties                                                              *)

TypeOK ==
  /\ mem \in Configs /\ disk \in Configs
  /\ built \in Nat /\ shut \subseteq 1..built
  /\ failed \in BOOLEAN /\ clean \in BOOLEAN
  /\ pc \in [Requests -> {"idle", "config", "agent", "apply", "load", "save"}]
  /\ changes \in 0..MaxChanges /\ faults \in 0..MaxFaults

\* Types; unless a rebuild has failed the chain resolves, the dispatcher is the
\* one the configuration describes, every adapter has the key and limits of its
\* endpoint, and no limit is above the endpoint's.
ServedAsConfigured ==
  /\ TypeOK
  /\ ~failed =>
       /\ ChainResolves(mem)
       /\ IF EffectiveChain(mem) = <<>> THEN disp = None
          ELSE disp = Dispatcher(mem, adapters)
       /\ \A e \in Endpoints :
            adapters[e] # None =>
              /\ EndpointExists(mem, e)
              /\ adapters[e] = Built(mem, e, adapters[e].id)
              /\ adapters[e].max <= mem.eps[e].max

\* No adapter of the dispatcher that new calls are given has been shut down,
\* also when a rebuild failed half way.
CurrentAdaptersLive ==
  disp # None => \A i \in DOMAIN disp : disp[i].id \notin shut

\* With requests one at a time and no fault, a start from the file gives the live
\* configuration.
FileKeepsUp ==
  clean /\ ~failed /\ (\A r \in Requests : pc[r] = "idle") => SanitizeLLM(disk) = mem

\* The file mirrors the live state once no request is under way.
FileMirrorsMemory ==
  (\A r \in Requests : pc[r] = "idle") /\ faults = 0 /\ ~failed => SanitizeLLM(disk) = mem

\* An endpoint that is deleted leaves the chain.
DeletedLeavesChain == ChainResolves(mem)

\* A call ends on the adapter it was given.
InFlightKeepsAdapter == \A c \in Calls : on[c] # 0 => on[c] \notin shut

\* A change leaves the adapters as the configuration has them, failed or not.
CacheMatchesConfig ==
  \A e \in Endpoints : adapters[e] # None => adapters[e] = Built(mem, e, adapters[e].id)
=============================================================================
