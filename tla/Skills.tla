------------------------------- MODULE Skills -------------------------------
(***************************************************************************)
(* The skills of freelancer runs.  A run keeps a tracker of the skills it   *)
(* has (skills/tracker), filled from its candidates before the first call   *)
(* of the model and by load_skill and unload_skill after that; each of them *)
(* says in the conversation what it did.  All runs read skills through one  *)
(* reader, which remembers the listing of the directories for a while and   *)
(* reads the body of a skill when it is wanted.                             *)
(***************************************************************************)
EXTENDS Naturals, Sequences, FiniteSets, SequencesExt

CONSTANTS
  Runs,
  Names,
  Budget,      \* freelancerSkillBudget
  MaxVersion,  \* bound: versions of a skill on disk
  Oversize,    \* versions with a body above maxBodyBytes
  MaxNotes,    \* bound: notes in the conversation of a run
  None         \* nothing

Versions == 0..MaxVersion  \* 0: there is no such skill

VARIABLES
  disk,     \* the version of each skill in the directories
  cards,    \* the reader's listing: the version of each skill, or None
  fresh,    \* is the listing younger than readerCacheTTL?
  phase,    \* runs: "new", "hydrate", "run" or "over"
  todo,     \* runs: candidates still to be loaded
  job,      \* runs: None or the load in progress
  tracker,  \* runs: what is tracked of each skill, or None
  prompt,   \* runs: the version of each skill in the system prompt, or 0
  notes     \* runs: what the conversation says of skills

reader == <<disk, cards, fresh>>
vars == <<disk, cards, fresh, phase, todo, job, tracker, prompt, notes>>

-----------------------------------------------------------------------------
(* The tracker                                                             *)

Tracked(r, n) == tracker[r][n] # None
Active(r, n) == Tracked(r, n) /\ tracker[r][n].active
Count(r) == Cardinality({n \in Names : Active(r, n)})

Entry(listed, body, source) ==
  [active |-> TRUE, version |-> listed, body |-> body, source |-> source]

\* Two kinds of note: the body of a skill, and the notice that it is unloaded.
BodyNote(n, body) == [name |-> n, body |-> body]
UnloadNote(n) == [name |-> n, body |-> 0]

Room(r) == Len(notes[r]) < MaxNotes
Say(r, note) == notes' = [notes EXCEPT ![r] = Append(@, note)]

-----------------------------------------------------------------------------
(* The reader                                                              *)

Init ==
  /\ disk \in [Names -> {0, 1}]
  /\ cards = None
  /\ fresh = FALSE
  /\ phase = [r \in Runs |-> "new"]
  /\ todo = [r \in Runs |-> {}]
  /\ job = [r \in Runs |-> None]
  /\ tracker = [r \in Runs |-> [n \in Names |-> None]]
  /\ prompt = [r \in Runs |-> [n \in Names |-> 0]]
  /\ notes = [r \in Runs |-> <<>>]

\* discoverSkillEntries: the skills there are.
Listing == disk

\* scan: the listing if it is fresh, else the directories are read.
Lookup(r, n) ==
  job' = [job EXCEPT ![r] =
    IF cards # None /\ fresh THEN [name |-> n, at |-> "listed", cards |-> cards]
    ELSE [name |-> n, at |-> "scan", cards |-> Listing]]

\* The reading is over: it becomes the listing, the newest one or not.
EndScan(r) ==
  /\ job[r] # None /\ job[r].at = "scan"
  /\ cards' = job[r].cards
  /\ fresh' = TRUE
  /\ job' = [job EXCEPT ![r].at = "listed"]
  /\ UNCHANGED <<disk, phase, todo, tracker, prompt, notes>>

Listed(r) == job[r] # None /\ job[r].at = "listed"
Found(r) == job[r].cards[job[r].name] # 0 /\ disk[job[r].name] # 0

\* readerCacheTTL runs out.
Expire ==
  /\ fresh
  /\ fresh' = FALSE
  /\ UNCHANGED <<disk, cards, phase, todo, job, tracker, prompt, notes>>

\* Somebody installs, changes or removes a skill.
Edit(n) ==
  /\ \/ disk[n] < MaxVersion /\ disk' = [disk EXCEPT ![n] = @ + 1]
     \/ disk[n] > 0 /\ disk' = [disk EXCEPT ![n] = 0]
  /\ UNCHANGED <<cards, fresh, phase, todo, job, tracker, prompt, notes>>

-----------------------------------------------------------------------------
(* hydrateSkills                                                           *)

Spawn(r, candidates) ==
  /\ phase[r] = "new"
  /\ phase' = [phase EXCEPT ![r] = IF Cardinality(candidates) > Budget THEN "over"
                                   ELSE IF candidates = {} THEN "run" ELSE "hydrate"]
  /\ todo' = [todo EXCEPT ![r] = candidates]
  /\ UNCHANGED <<disk, cards, fresh, job, tracker, prompt, notes>>

LoadCandidate(r, n) ==
  /\ phase[r] = "hydrate" /\ job[r] = None /\ n \in todo[r]
  /\ Lookup(r, n)
  /\ UNCHANGED <<disk, cards, fresh, phase, todo, tracker, prompt, notes>>

\* The first candidate that cannot be loaded ends the run before it starts; the last
\* one that can completes the tracker (Preload) and the block of the prompt.
CandidateLoaded(r) ==
  /\ phase[r] = "hydrate" /\ Listed(r)
  /\ LET n == job[r].name IN
     IF Found(r)
     THEN /\ tracker' = [tracker EXCEPT ![r][n] = Entry(job[r].cards[n], disk[n], "candidate")]
          /\ prompt' = [prompt EXCEPT ![r][n] = disk[n]]
          /\ phase' = [phase EXCEPT ![r] = IF todo[r] = {n} THEN "run" ELSE @]
          /\ todo' = [todo EXCEPT ![r] = @ \ {n}]
     ELSE /\ phase' = [phase EXCEPT ![r] = "over"]
          /\ UNCHANGED <<todo, tracker, prompt>>
  /\ job' = [job EXCEPT ![r] = None]
  /\ UNCHANGED <<disk, cards, fresh, notes>>

-----------------------------------------------------------------------------
(* load_skill, unload_skill and the compactor.  The two tools are not run in *)
(* parallel with any other call of the run.                                 *)

MayLoad(r, n) ==
  /\ phase[r] = "run" /\ job[r] = None /\ Room(r)
  /\ ~Active(r, n)
  /\ Count(r) < Budget

\* An unloaded skill comes back as it was.
Reactivate(r, n) ==
  /\ MayLoad(r, n) /\ Tracked(r, n)
  /\ tracker' = [tracker EXCEPT ![r][n].active = TRUE]
  /\ Say(r, BodyNote(n, tracker[r][n].body))
  /\ UNCHANGED <<disk, cards, fresh, phase, todo, job, prompt>>

BeginLoad(r, n) ==
  /\ MayLoad(r, n) /\ ~Tracked(r, n)
  /\ Lookup(r, n)
  /\ UNCHANGED <<disk, cards, fresh, phase, todo, tracker, prompt, notes>>

\* Reader.Load reads the body, the size is checked and Add counts again.
EndLoad(r) ==
  /\ phase[r] = "run" /\ Listed(r)
  /\ LET n == job[r].name IN
     IF Found(r) /\ disk[n] \notin Oversize /\ Count(r) < Budget
     THEN /\ tracker' = [tracker EXCEPT ![r][n] = Entry(job[r].cards[n], disk[n], "runtime")]
          /\ Say(r, BodyNote(n, disk[n]))
     ELSE UNCHANGED <<tracker, notes>>
  /\ job' = [job EXCEPT ![r] = None]
  /\ UNCHANGED <<disk, cards, fresh, phase, todo, prompt>>

\* MarkUnloaded; the body stays in the conversation.
Unload(r, n) ==
  /\ phase[r] = "run" /\ job[r] = None /\ Room(r)
  /\ Active(r, n)
  /\ tracker' = [tracker EXCEPT ![r][n].active = FALSE]
  /\ Say(r, UnloadNote(n))
  /\ UNCHANGED <<disk, cards, fresh, phase, todo, job, prompt>>

\* Bug: the compactor drops the newer part.
CompactRecent(r, k) ==
  /\ phase[r] = "run" /\ job[r] = None
  /\ k \in 1..Len(notes[r])
  /\ notes' = [notes EXCEPT ![r] = SubSeq(@, 1, k - 1)]
  /\ UNCHANGED <<disk, cards, fresh, phase, todo, job, tracker, prompt>>

\* The compactor of the run drops the older part of the conversation; the system
\* prompt is no part of it.
Compact(r, k) ==
  /\ phase[r] = "run" /\ job[r] = None
  /\ k \in 1..Len(notes[r])
  /\ notes' = [notes EXCEPT ![r] = SubSeq(@, k + 1, Len(@))]
  /\ UNCHANGED <<disk, cards, fresh, phase, todo, job, tracker, prompt>>

Next ==
  \/ \E r \in Runs :
       \/ \E C \in SUBSET Names : Spawn(r, C)
       \/ EndScan(r) \/ CandidateLoaded(r) \/ EndLoad(r)
       \/ \E n \in Names : LoadCandidate(r, n) \/ Reactivate(r, n) \/ BeginLoad(r, n) \/ Unload(r, n)
       \/ \E k \in 1..MaxNotes : Compact(r, k)
  \/ Expire
  \/ \E n \in Names : Edit(n)

-----------------------------------------------------------------------------
\* What the model reads of a skill: its place in the prompt, then the notes on it.
Mentions(r, n) ==
  (IF prompt[r][n] # 0 THEN <<BodyNote(n, prompt[r][n])>> ELSE <<>>)
    \o SelectSeq(notes[r], LAMBDA m : m.name = n)

TypeOK ==
  /\ disk \in [Names -> Versions]
  /\ cards # None => cards \in [Names -> Versions]
  /\ fresh \in BOOLEAN
  /\ phase \in [Runs -> {"new", "hydrate", "run", "over"}]
  /\ todo \in [Runs -> SUBSET Names]

\* The tracker and the conversation agree: what counts against the budget is never
\* more than the budget allows; the last the model reads of an active skill is the
\* body the tracker holds, unless the compactor dropped every word of it; and the
\* last it reads of an unloaded one is the notice, unless that was dropped and
\* with it all but the body in the prompt (loadskill.go, unloadskill.go, compactor.go).
TrackedAsShown ==
  /\ TypeOK
  /\ \A r \in Runs : Count(r) <= Budget
  /\ \A r \in Runs, n \in Names :
       LET said == Mentions(r, n) IN
       /\ ~Tracked(r, n) => said = <<>>
       /\ Active(r, n) => said = <<>> \/ Last(said) = BodyNote(n, tracker[r][n].body)
       /\ Tracked(r, n) /\ ~Active(r, n) =>
            said = <<>> \/ Last(said) = UnloadNote(n) \/ (prompt[r][n] # 0 /\ Len(said) = 1)

\* The promise of the tracker's comment ("unloaded (still in messages history, but L3
\* instructed to ignore)"): an unloaded skill's body is never the last word on it.
UnloadedIsIgnored ==
  \A r \in Runs, n \in Names :
    LET said == Mentions(r, n) IN
    Tracked(r, n) /\ ~Active(r, n) /\ said # <<>> => Last(said) = UnloadNote(n)
=============================================================================
