------------------------------ MODULE AgentDefs ------------------------------
(***************************************************************************)
(* Agent definitions: a table of SQLite (agentmgmt.SQLiteAgentStore) and    *)
(* the registry in memory that runs are started from.  At a start the       *)
(* registry is filled from the code, from the directories and the table;    *)
(* after that requests of the console change the table under its lock and   *)
(* then, in a step of its own, the registry.                                *)
(***************************************************************************)
EXTENDS Naturals, FiniteSets

CONSTANTS
  Requests,
  Names,
  Builtins,    \* names the code defines (builtin.RegisterAll)
  Reserved,    \* of these, the names of the tiers
  Browser,     \* of these, the one registered last
  MaxVersion   \* bound: definitions ever written

NoDef == 0     \* no definition
Code == 1     \* the definition of the code; later ones are 2, 3, ...

\* What a directory of YAML files may define.
Directories == SUBSET Names

VARIABLES
  table,     \* names: the definition stored, or NoDef
  registry,  \* names: the definition runs use, or NoDef
  version,   \* the newest definition
  req,       \* requests: the request in progress, or Idle
  raced      \* ghost: names that two requests worked on at a time

vars == <<table, registry, version, req, raced>>

Idle == [todo |-> {}, name |-> NoDef, new |-> NoDef]
Busy(r) == req[r] # Idle
Touches(r, n) == n \in req[r].todo \/ n = req[r].name
Meets(S, r) == {n \in S : \E q \in Requests \ {r} : Touches(q, n)}

-----------------------------------------------------------------------------
(* The start of the program                                                *)

\* LoadAllToRegistry: what is stored replaces what the code defines, except the tiers.
Loaded(stored) ==
  [n \in Names |->
     IF stored[n] # NoDef /\ n \notin Reserved THEN stored[n]
     ELSE IF n \in Builtins THEN Code ELSE stored[n]]

WithBrowser(defs) == [n \in Names |-> IF n \in Browser THEN Code ELSE defs[n]]

Init ==
  /\ table = [n \in Names |-> NoDef]
  /\ registry = WithBrowser(Loaded(table))
  /\ version = Code
  /\ req = [r \in Requests |-> Idle]
  /\ raced = {}

\* PurgeBuiltins finds nothing, since Create refuses what the code defines;
\* SyncFromDirectory then creates or updates a row for each definition in the
\* directories, files.
Restart(files) ==
  /\ version < MaxVersion \/ files = {}
  /\ version' = IF files = {} THEN version ELSE version + 1
  /\ table' = [n \in Names |-> IF n \in files THEN version' ELSE table[n]]
  /\ registry' = WithBrowser(Loaded(table'))
  /\ req' = [r \in Requests |-> Idle]
  /\ raced' = {}

-----------------------------------------------------------------------------
(* Requests.  Create asks the registry first; Import does not.             *)

Begin(r, S) ==
  /\ ~Busy(r)
  /\ req' = [req EXCEPT ![r].todo = S]
  /\ raced' = raced \cup Meets(S, r)

BeginCreate(r, n) ==
  /\ registry[n] = NoDef
  /\ Begin(r, {n})
  /\ UNCHANGED <<table, registry, version>>

BeginImport(r, S) ==
  /\ S # {}
  /\ Begin(r, S)
  /\ UNCHANGED <<table, registry, version>>

\* store.Create of the next definition; a name that has a row is passed over.
StoreNew(r, n) ==
  /\ n \in req[r].todo /\ req[r].name = NoDef
  /\ IF table[n] = NoDef
     THEN /\ version < MaxVersion
          /\ version' = version + 1
          /\ table' = [table EXCEPT ![n] = version']
          /\ req' = [req EXCEPT ![r] = [todo |-> @.todo \ {n}, name |-> n, new |-> version']]
     ELSE /\ req' = [req EXCEPT ![r].todo = @ \ {n}]
          /\ UNCHANGED <<version, table>>
  /\ UNCHANGED <<registry, raced>>

\* store.Update: the row is read and written under the lock.
StoreUpdate(r, n) ==
  /\ ~Busy(r) /\ table[n] # NoDef
  /\ version < MaxVersion
  /\ version' = version + 1
  /\ table' = [table EXCEPT ![n] = version']
  /\ req' = [req EXCEPT ![r] = [todo |-> {}, name |-> n, new |-> version']]
  /\ raced' = raced \cup Meets({n}, r)
  /\ UNCHANGED registry

\* store.Delete.
StoreDelete(r, n) ==
  /\ ~Busy(r) /\ table[n] # NoDef
  /\ table' = [table EXCEPT ![n] = NoDef]
  /\ req' = [req EXCEPT ![r] = [todo |-> {}, name |-> n, new |-> NoDef]]
  /\ raced' = raced \cup Meets({n}, r)
  /\ UNCHANGED <<registry, version>>

\* Register or Unregister, and on to the next definition.
Publish(r) ==
  /\ req[r].name # NoDef
  /\ registry' = [registry EXCEPT ![req[r].name] = req[r].new]
  /\ req' = [req EXCEPT ![r] = [todo |-> @.todo, name |-> NoDef, new |-> NoDef]]
  /\ UNCHANGED <<table, version, raced>>

Next ==
  \/ \E r \in Requests :
       \/ \E n \in Names : BeginCreate(r, n) \/ StoreNew(r, n) \/ StoreUpdate(r, n) \/ StoreDelete(r, n)
       \/ \E S \in Directories : BeginImport(r, S)
       \/ Publish(r)
  \/ \E files \in Directories : Restart(files)

-----------------------------------------------------------------------------
TypeOK ==
  /\ table \in [Names -> {NoDef} \cup 2..MaxVersion]
  /\ registry \in [Names -> 0..MaxVersion]
  /\ version \in Code..MaxVersion
  /\ raced \subseteq Names

\* When no request is at work on a name, and no two have been at a time since the
\* start, runs use what the table holds for it, or the code's definition where the
\* table holds none or may not replace it (service.go Create, Update, Delete,
\* ImportFromYAML, LoadAllToRegistry).
RegistryIsTable ==
  /\ TypeOK
  /\ \A n \in Names \ raced :
       \/ \E r \in Requests : Touches(r, n)
       \/ registry[n] = table[n]
       \/ registry[n] = Code /\ n \in Builtins
            /\ (table[n] = NoDef \/ n \in Reserved \cup Browser)

\* The field IsBuiltin: "marks the definition as a system built-in that cannot be
\* deleted".
BuiltinsStay == \A n \in Builtins : registry[n] # NoDef
=============================================================================
