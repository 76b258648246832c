------------------------ MODULE ModelConfig_proofs ------------------------
(***************************************************************************)
(* Whatever the management requests change and whichever rebuild fails, new *)
(* model calls are given adapters that have not been shut down: for any     *)
(* number of providers, endpoints, requests and calls.                      *)
(***************************************************************************)
EXTENDS ModelConfig, FiniteSetTheorems, TLAPS

\* What CurrentAdaptersLive needs: no id is used twice, and what is cached is as alive as
\* what is dispatched, since the next rebuild may dispatch it.
AdaptersInv ==
  /\ built \in Nat /\ shut \subseteq 1..built
  /\ DOMAIN adapters = Endpoints
  /\ \A e \in Endpoints : adapters[e] # None => adapters[e].id \in (1..built) \ shut
  /\ disp # None => \A i \in DOMAIN disp : disp[i].id \in (1..built) \ shut

\* Adapters built together are numbered from one up.
LEMMA FreshIds ==
  ASSUME NEW S \in SUBSET Endpoints
  PROVE  /\ Cardinality(S) \in Nat
         /\ \A e \in S : Cardinality({o \in S : o <= e}) \in 1..Cardinality(S)
  <1>1. IsFiniteSet(S) /\ Cardinality(S) \in Nat
    BY FS_Subset, FS_CardinalityType, ModelConfigAssumption DEF ModelConfigAssumption
  <1>2. SUFFICES ASSUME NEW e \in S
                 PROVE  Cardinality({o \in S : o <= e}) \in 1..Cardinality(S)
    BY <1>1
  <1> DEFINE T == {o \in S : o <= e}
  <1>3. T \subseteq S /\ e \in T
    BY ModelConfigAssumption DEF ModelConfigAssumption
  <1>4. IsFiniteSet(T) /\ Cardinality(T) \in Nat /\ Cardinality(T) <= Cardinality(S)
    BY <1>1, <1>3, FS_Subset, FS_CardinalityType
  <1>5. Cardinality(T) # 0
    BY <1>3, <1>4, FS_EmptySet
  <1> QED BY <1>1, <1>4, <1>5

\* What is numbered above m is none of the first m.
LEMMA AboveAll ==
  ASSUME NEW m \in Nat, NEW n \in Nat, NEW x \in (m + 1)..(m + n)
  PROVE  x \in 1..(m + n) /\ x \notin 1..m
  OBVIOUS

\* A rebuilt cache holds old adapters, and new ones under ids not used before.
LEMMA RebuiltIds ==
  ASSUME AdaptersInv, NEW STATE c, NEW STATE as, NEW STATE S, S \in SUBSET Endpoints
  PROVE  /\ DOMAIN Rebuilt(as, c, S) = Endpoints
         /\ \A e \in S : Rebuilt(as, c, S)[e].id \in (built + 1)..(built + Cardinality(S))
  <1> DEFINE new == Rebuilt(as, c, S)
  <1>1. DOMAIN new = Endpoints
    BY DEF Rebuilt
  <1>2. ASSUME NEW e \in S
        PROVE  new[e].id \in (built + 1)..(built + Cardinality(S))
    <2> DEFINE n == Cardinality({o \in S : o <= e})
    <2>1. new[e] = Built(c, e, built + n)
      BY DEF Rebuilt
    <2>2. new[e].id = built + n
      BY <2>1 DEF Built
    <2>3. n \in 1..Cardinality(S) /\ Cardinality(S) \in Nat
      BY FreshIds
    <2> HIDE DEF n
    <2> QED BY <2>2, <2>3 DEF AdaptersInv
  <1> QED BY <1>1, <1>2

\* A rebuild that succeeds shuts down only what neither the new cache nor the new
\* dispatcher holds.
LEMMA InstallAdapters ==
  ASSUME AdaptersInv, NEW STATE c, NEW STATE as, NEW STATE fresh, fresh \in SUBSET Endpoints,
         \A e \in Endpoints : as[e] \in {adapters[e], None},
         ChainResolves(c), Install(c, as, fresh)
  PROVE  AdaptersInv'
  <1> DEFINE need == fresh \cup Uncached(c, as)
             chain == EffectiveChain(c)
  <1>1. need \in SUBSET Endpoints
    BY DEF Uncached
  <1> HIDE DEF need
  <1>2. adapters' = Rebuilt(as, c, need) /\ built' = built + Cardinality(need)
        /\ shut' = shut \cup (Ids(adapters) \ Ids(adapters'))
        /\ disp' = IF chain = <<>> THEN None ELSE Dispatcher(c, adapters')
    BY DEF Install, need
  <1>3. /\ DOMAIN adapters' = Endpoints
        /\ \A e \in need : adapters'[e].id \in (built + 1)..(built + Cardinality(need))
    BY <1>1, <1>2, RebuiltIds
  <1>11. ASSUME NEW e \in Endpoints, e \notin need
        PROVE  adapters'[e] = as[e]
    BY <1>2, <1>11 DEF Rebuilt
  <1>4. Cardinality(need) \in Nat
    BY <1>1, FreshIds
  <1>5. built' \in Nat /\ built <= built'
    BY <1>2, <1>4 DEF AdaptersInv
  <1>6. Ids(adapters) \subseteq 1..built
    BY DEF Ids, AdaptersInv
  <1>7. shut' \subseteq 1..built
    BY <1>2, <1>6 DEF AdaptersInv
  <1> HIDE DEF need
  <1>8. ASSUME NEW e \in Endpoints, e \in need \/ adapters'[e] # None
        PROVE  adapters'[e].id \in (1..built') \ shut'
    <2>1. CASE e \in need
      <3>1. adapters'[e].id \in (built + 1)..(built + Cardinality(need))
        BY <1>3, <2>1
      <3>2. adapters'[e].id \in 1..built' /\ adapters'[e].id \notin 1..built
        BY <3>1, <1>2, <1>4, AboveAll DEF AdaptersInv
      <3> QED BY <3>2, <1>7
    <2>2. CASE e \notin need
      <3>1. adapters'[e] = adapters[e] /\ adapters[e] # None
        BY <1>11, <1>8, <2>2
      <3>2. adapters'[e].id \in Ids(adapters') /\ adapters[e].id \in (1..built) \ shut
        BY <3>1 DEF Ids, AdaptersInv
      <3>3. adapters'[e].id \notin shut'
        BY <3>1, <3>2, <1>2
      <3>4. adapters'[e].id \in 1..built'
        BY <3>1, <3>2, <1>5 DEF AdaptersInv
      <3> QED BY <3>3, <3>4
    <2> QED BY <2>1, <2>2
  <1>9. ASSUME disp' # None, NEW i \in DOMAIN disp'
        PROVE  disp'[i].id \in (1..built') \ shut'
    <2>1. disp' = Dispatcher(c, adapters')
      BY <1>2, <1>9
    <2>2. i \in DOMAIN chain /\ disp'[i].id = adapters'[chain[i].ep].id
      BY <2>1, <1>9 DEF Dispatcher
    <2>3. chain[i] \in ToSet(chain)
      BY <2>2 DEF ToSet
    <2> DEFINE e == chain[i].ep
    <2>4. e \in Endpoints
      BY <2>3 DEF ChainResolves, EndpointExists
    <2>5. as[e] = None => e \in need
      BY <2>3, <2>4 DEF need, Uncached
    <2>6. e \in need \/ adapters'[e] # None
      BY <1>11, <2>4, <2>5
    <2> QED BY <1>8, <2>2, <2>4, <2>6
  <1>10. shut' \subseteq 1..built'
    BY <1>5, <1>7 DEF AdaptersInv
  <1> QED BY <1>3, <1>5, <1>8, <1>9, <1>10 DEF AdaptersInv

\* A rebuild that fails shuts nothing down; what it built is new.
LEMMA FailedAdapters ==
  ASSUME AdaptersInv, NEW STATE c, NEW STATE as, NEW STATE S, S \in SUBSET Endpoints,
         \A e \in Endpoints : as[e] \in {adapters[e], None},
         adapters' = Rebuilt(as, c, S), built' = built + Cardinality(S),
         UNCHANGED <<disp, shut>>
  PROVE  AdaptersInv'
  <1>1. /\ DOMAIN adapters' = Endpoints
        /\ \A e \in S : adapters'[e].id \in (built + 1)..(built + Cardinality(S))
    BY RebuiltIds
  <1>7. ASSUME NEW e \in Endpoints, e \notin S
        PROVE  adapters'[e] = as[e]
    BY <1>7 DEF Rebuilt
  <1>2. Cardinality(S) \in Nat
    BY FreshIds
  <1>3. built' \in Nat /\ (1..built) \subseteq 1..built'
    BY <1>2 DEF AdaptersInv
  <1>4. ASSUME NEW e \in Endpoints, adapters'[e] # None
        PROVE  adapters'[e].id \in (1..built') \ shut'
    <2>1. CASE e \in S
      <3>1. adapters'[e].id \in (built + 1)..(built + Cardinality(S))
        BY <1>1, <2>1
      <3>2. adapters'[e].id \in 1..built' /\ adapters'[e].id \notin 1..built
        BY <3>1, <1>2, AboveAll DEF AdaptersInv
      <3>3. shut' \subseteq 1..built
        BY DEF AdaptersInv
      <3> QED BY <3>2, <3>3
    <2>2. CASE e \notin S
      <3>1. adapters'[e] = adapters[e]
        BY <1>7, <1>4, <2>2
      <3> QED BY <3>1, <1>3, <1>4 DEF AdaptersInv
    <2> QED BY <2>1, <2>2
  <1>5. shut' \subseteq 1..built'
    BY <1>3 DEF AdaptersInv
  <1>6. disp' # None => \A i \in DOMAIN disp' : disp'[i].id \in (1..built') \ shut'
    BY <1>3 DEF AdaptersInv
  <1> QED BY <1>1, <1>3, <1>4, <1>5, <1>6 DEF AdaptersInv

\* A change of the configuration ends in a rebuild that succeeds or fails.
LEMMA ChangedAdapters ==
  ASSUME AdaptersInv, NEW r, NEW STATE c, NEW STATE as,
         NEW STATE fresh, fresh \in SUBSET Endpoints, NEW STATE back, NEW what, NEW next,
         \A e \in Endpoints : as[e] \in {adapters[e], None},
         Changed(r, c, as, fresh, back, what, next)
  PROVE  AdaptersInv'
  <1>1. CASE ChainResolves(c) /\ Install(c, as, fresh)
    BY <1>1, InstallAdapters
  <1>2. CASE FailInstall(back, Rebuilt(as, c, fresh)) /\ built' = built + Cardinality(fresh)
    BY <1>2, FailedAdapters DEF FailInstall
  <1> QED BY <1>1, <1>2 DEF Changed

\* A start dispatches the adapters it builds.
LEMMA BootedAdapters ==
  ASSUME NEW STATE c, ChainResolves(c), NEW from \in Nat, NEW STATE as, as = BootAdapters(c, from),
         NEW n, n = from + Cardinality(Uncached(c, NoAdapters))
  PROVE  /\ n \in Nat /\ from <= n /\ DOMAIN as = Endpoints
         /\ \A e \in Endpoints : as[e] # None => as[e].id \in (from + 1)..n
         /\ \A i \in DOMAIN Dispatcher(c, as) : Dispatcher(c, as)[i].id \in (from + 1)..n
  <1> DEFINE S == Uncached(c, NoAdapters)
             chain == EffectiveChain(c)
  <1>1. S \in SUBSET Endpoints
    BY DEF Uncached
  <1>2. Cardinality(S) \in Nat
    BY <1>1, FreshIds
  <1>3. ASSUME NEW e \in S
        PROVE  as[e].id \in (from + 1)..n
    <2> DEFINE k == Cardinality({o \in S : o <= e})
    <2>1. as[e] = Built(c, e, from + k)
      BY <1>1 DEF BootAdapters
    <2>2. as[e].id = from + k
      BY <2>1 DEF Built
    <2>3. k \in 1..Cardinality(S)
      BY <1>1, FreshIds
    <2> HIDE DEF k, S
    <2> QED BY <1>2, <2>2, <2>3 DEF S
  <1>4. \A e \in Endpoints : as[e] # None => e \in S
    BY DEF BootAdapters
  <1>5. ASSUME NEW i \in DOMAIN Dispatcher(c, as)
        PROVE  Dispatcher(c, as)[i].id \in (from + 1)..n
    <2>1. i \in DOMAIN chain /\ Dispatcher(c, as)[i].id = as[chain[i].ep].id
      BY <1>5 DEF Dispatcher
    <2>2. chain[i] \in ToSet(chain)
      BY <2>1 DEF ToSet
    <2>3. chain[i].ep \in Endpoints
      BY <2>2 DEF ChainResolves, EndpointExists
    <2>4. chain[i].ep \in S
      BY <2>2, <2>3 DEF Uncached, NoAdapters
    <2> QED BY <1>3, <2>1, <2>4
  <1>6. DOMAIN as = Endpoints
    BY DEF BootAdapters
  <1> QED BY <1>2, <1>3, <1>4, <1>5, <1>6

\* The first start dispatches what it builds, or nothing.
LEMMA InitAdapters == Init => AdaptersInv
  <1> SUFFICES ASSUME Init PROVE AdaptersInv
    OBVIOUS
  <1>1. ChainResolves(mem) /\ adapters = BootAdapters(mem, 0) /\ shut = {}
        /\ built = Cardinality(Uncached(mem, NoAdapters))
        /\ disp \in {None, Dispatcher(mem, adapters)}
    BY DEF Init
  <1>2. Uncached(mem, NoAdapters) \in SUBSET Endpoints
    BY DEF Uncached
  <1>3. built \in Nat /\ built = 0 + built
    BY <1>1, <1>2, FreshIds
  <1>4. /\ DOMAIN adapters = Endpoints
        /\ \A e \in Endpoints : adapters[e] # None => adapters[e].id \in 1..built
        /\ \A i \in DOMAIN Dispatcher(mem, adapters) :
             Dispatcher(mem, adapters)[i].id \in 1..built
    BY <1>1, <1>3, BootedAdapters
  <1> QED BY <1>1, <1>3, <1>4 DEF AdaptersInv

\* A new start has adapters of its own: those shut down before have lower numbers.
LEMMA RestartAdapters == AdaptersInv /\ Restart => AdaptersInv'
  <1> SUFFICES ASSUME AdaptersInv, Restart PROVE AdaptersInv'
    OBVIOUS
  <1> DEFINE c == SanitizeLLM(disk)
  <1>1. ChainResolves(c) /\ adapters' = BootAdapters(c, built) /\ shut' = shut
        /\ built' = built + Cardinality(Uncached(c, NoAdapters))
        /\ disp' \in {None, Dispatcher(c, adapters')}
    BY DEF Restart, Boot
  <1> HIDE DEF c
  <1>2. built \in Nat /\ shut \subseteq 1..built
    BY DEF AdaptersInv
  <1>3. /\ built' \in Nat /\ built <= built' /\ DOMAIN adapters' = Endpoints
        /\ \A e \in Endpoints : adapters'[e] # None => adapters'[e].id \in (built + 1)..built'
        /\ \A i \in DOMAIN Dispatcher(c, adapters') :
             Dispatcher(c, adapters')[i].id \in (built + 1)..built'
    BY <1>1, <1>2, BootedAdapters
  <1>4. (built + 1)..built' \subseteq (1..built') \ shut' /\ shut' \subseteq 1..built'
    BY <1>1, <1>2, <1>3
  <1> QED BY <1>1, <1>3, <1>4 DEF AdaptersInv

\* Each request that changes providers, endpoints or the agent keeps the invariant.
LEMMA RequestAdapters ==
  ASSUME AdaptersInv, NEW r \in Requests
  PROVE  /\ \A p \in Provs : \A off : PostProvider(r, p, off) => AdaptersInv'
         /\ \A p \in Provs : \A key, off : PatchProvider(r, p, key, off) => AdaptersInv'
         /\ \A e \in Endpoints : \A max, off :
              PostEndpoint(r, e, max, off) \/ PatchEndpoint(r, e, max, off) => AdaptersInv'
         /\ \A e \in Endpoints : RemovesEndpoint(r, e) => AdaptersInv'
         /\ \A primary, fallback, tokens :
              PatchAgent(r, primary, fallback, tokens)
              \/ PatchAgentFails(r, primary, fallback, tokens) => AdaptersInv'
  <1>0. \A e \in Endpoints : adapters[e] \in {adapters[e], None}
    OBVIOUS
  <1>1. ASSUME NEW p \in Provs, NEW off, PostProvider(r, p, off) PROVE AdaptersInv'
    BY <1>0, <1>1, ChangedAdapters DEF PostProvider
  <1>2. ASSUME NEW p \in Provs, NEW key, NEW off, PatchProvider(r, p, key, off)
        PROVE  AdaptersInv'
    BY <1>0, <1>2, ChangedAdapters DEF PatchProvider
  <1>3. ASSUME NEW e \in Endpoints, NEW max, NEW off,
               PostEndpoint(r, e, max, off) \/ PatchEndpoint(r, e, max, off)
        PROVE  AdaptersInv'
    <2>1. {e} \in SUBSET Endpoints
      OBVIOUS
    <2> QED BY <1>0, <1>3, <2>1, ChangedAdapters DEF PostEndpoint, PatchEndpoint
  <1>4. ASSUME NEW e \in Endpoints, RemovesEndpoint(r, e) PROVE AdaptersInv'
    <2>1. \A o \in Endpoints : [adapters EXCEPT ![e] = None][o] \in {adapters[o], None}
      BY DEF AdaptersInv
    <2> QED BY <1>4, <2>1, ChangedAdapters DEF RemovesEndpoint
  <1>5. ASSUME NEW tokens PROVE \A o \in Endpoints : AgentCache(tokens)[o] \in {adapters[o], None}
    BY DEF AgentCache, NoAdapters
  <1>6. ASSUME NEW primary, NEW fallback, NEW tokens, PatchAgent(r, primary, fallback, tokens)
        PROVE  AdaptersInv'
    BY <1>5, <1>6, ChangedAdapters DEF PatchAgent
  <1>7. ASSUME NEW primary, NEW fallback, NEW tokens,
               PatchAgentFails(r, primary, fallback, tokens)
        PROVE  AdaptersInv'
    <2> DEFINE c == UpdateAgent(mem, primary, fallback, tokens)
               chain == EffectiveChain(c)
               Before(i) == Uncached(c, AgentCache(tokens)) \cap {chain[j].ep : j \in 1..(i - 1)}
    <2>1. PICK i \in 1..Len(chain) :
            /\ adapters' = IF TuningChanged(tokens) THEN adapters
                           ELSE Rebuilt(adapters, c, Before(i))
            /\ built' = built + Cardinality(Before(i))
      BY <1>7 DEF PatchAgentFails
    <2>2. UNCHANGED <<disp, shut>>
      BY <1>7 DEF PatchAgentFails
    <2>3. Before(i) \in SUBSET Endpoints
      BY DEF Uncached
    <2>4. CASE TuningChanged(tokens)
      <3>1. Cardinality(Before(i)) \in Nat
        BY <2>3, FreshIds
      <3> HIDE DEF Before
      <3>2. adapters' = adapters
        BY <2>1, <2>4
      <3>3. built \in Nat /\ built' = built + Cardinality(Before(i))
        BY <2>1 DEF AdaptersInv
      <3>4. built' \in Nat /\ (1..built) \subseteq 1..built' /\ adapters' = adapters
        BY <3>1, <3>2, <3>3
      <3>5. shut' \subseteq 1..built'
        BY <2>2, <3>4 DEF AdaptersInv
      <3>6. /\ DOMAIN adapters' = Endpoints
            /\ \A e \in Endpoints : adapters'[e] # None => adapters'[e].id \in (1..built') \ shut'
        BY <2>2, <3>4 DEF AdaptersInv
      <3>7. disp' # None => \A j \in DOMAIN disp' : disp'[j].id \in (1..built') \ shut'
        BY <2>2, <3>4 DEF AdaptersInv
      <3> QED BY <3>4, <3>5, <3>6, <3>7 DEF AdaptersInv
    <2>5. CASE ~TuningChanged(tokens)
      BY <1>0, <2>1, <2>2, <2>3, <2>5, FailedAdapters
    <2> QED BY <2>4, <2>5
  <1> QED BY <1>1, <1>2, <1>3, <1>4, <1>6, <1>7

\* Every step keeps the invariant; most leave the adapters alone.
LEMMA NextAdapters == AdaptersInv /\ [Next]_vars => AdaptersInv'
  <1> SUFFICES ASSUME AdaptersInv, [Next]_vars PROVE AdaptersInv'
    OBVIOUS
  <1>1. CASE UNCHANGED <<adapters, disp, built, shut>>
    BY <1>1 DEF AdaptersInv
  <1>2. CASE UNCHANGED vars
    BY <1>1, <1>2 DEF vars, manager
  <1>3. ASSUME NEW r \in Requests,
               PatchImage(r) \/ PatchVideo(r) \/ PatchTool(r) \/ UpdateSource(r)
               \/ ReadConfig(r) \/ ReadAgent(r) \/ LoadFile(r) \/ SaveFile(r) \/ PersistFails(r)
        PROVE  AdaptersInv'
    BY <1>1, <1>3 DEF PatchImage, PatchVideo, PatchMedia, PatchTool, UpdateSource, ReadConfig,
       ReadAgent, LoadFile, SaveFile, PersistFails, manager
  <1>4. ASSUME NEW c \in Calls, CallBegins(c) \/ CallDials(c) \/ CallLeaves(c)
        PROVE  AdaptersInv'
    BY <1>1, <1>4 DEF CallBegins, CallDials, CallLeaves, manager
  <1>5. CASE Restart
    BY <1>5, RestartAdapters
  <1>6. CASE Next
    BY <1>3, <1>4, <1>5, <1>6, RequestAdapters DEF Next
  <1> QED BY <1>2, <1>6

\* Whatever the requests change, whichever rebuild fails and however often the server
\* starts anew: the adapters of the current dispatcher have not been shut down.
THEOREM AdaptersStayLive == Spec => []CurrentAdaptersLive
  <1>1. AdaptersInv => CurrentAdaptersLive
    BY DEF AdaptersInv, CurrentAdaptersLive
  <1> QED BY <1>1, InitAdapters, NextAdapters, PTL DEF Spec
=============================================================================
