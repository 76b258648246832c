------------------------------ MODULE Failover ------------------------------
(***************************************************************************)
(* The failover dispatcher between the engine and its model providers: it   *)
(* walks a chain in order of preference, benches a provider that fails for  *)
(* a growing cooldown, and takes it back when a call on it succeeds.        *)
(* Concurrent calls share the health records.  Above it sit the stats       *)
(* wrapper, which leaves a cancelled stream at once, and CallLLMOnce with   *)
(* its watchdog; below it the adapter, which reports a cancelled dial as a  *)
(* network error.                                                           *)
(***************************************************************************)
EXTENDS Naturals, FiniteSets, FiniteSetsExt

CONSTANTS
  Calls,      \* calls of Chat that may run at once
  N,          \* length of the chain
  Disabled,   \* parked entries
  Base, Factor, Cap,  \* cooldown policy, in ticks
  MaxFails,   \* bound: trips that are counted
  MaxChanges, \* bound: times a provider changes its behaviour
  MaxAborts   \* bound: calls the user gives up

Chain == 1..N
Enabled == Chain \ Disabled

VARIABLES
  fails,     \* consecutiveFails of each provider; 0: healthy
  left,      \* ticks until trippedUntil
  mode,      \* what each provider does: answers, fails, or accepts and stalls
  pc, at, tried, cancelled,  \* each call: its step, provider, tried set, context
  upSince,   \* ghost: providers that were up ever since the call began
  faulty,    \* ghost: providers that were not up since they were last healthy
  changes, aborts

health == <<fails, left>>
vars == <<fails, left, mode, pc, at, tried, cancelled, upSince, faulty, changes, aborts>>

\* The cooldown of the k-th trip in a row.
Cooldown[k \in 1..MaxFails] ==
  IF k = 1 THEN Base
  ELSE IF Cooldown[k - 1] * Factor > Cap THEN Cap ELSE Cooldown[k - 1] * Factor

TypeOK ==
  /\ fails \in [Chain -> 0..MaxFails]
  /\ left \in [Chain -> 0..Cap]
  /\ mode \in [Chain -> {"up", "down", "mute"}]
  /\ pc \in [Calls -> {"idle", "pick", "dial", "stream", "exhausted"}]
  /\ at \in [Calls -> Chain]
  /\ tried \in [Calls -> SUBSET Chain]
  /\ cancelled \in [Calls -> {"no", "user", "watchdog"}]
  /\ upSince \in [Calls -> SUBSET Chain]
  /\ faulty \subseteq Chain
  /\ changes \in 0..MaxChanges /\ aborts \in 0..MaxAborts

Init ==
  /\ fails = [p \in Chain |-> 0]
  /\ left = [p \in Chain |-> 0]
  /\ mode = [p \in Chain |-> "up"]
  /\ pc = [c \in Calls |-> "idle"]
  /\ at = [c \in Calls |-> 1]
  /\ tried = [c \in Calls |-> {}]
  /\ cancelled = [c \in Calls |-> "no"]
  /\ upSince = [c \in Calls |-> {}]
  /\ faulty = {}
  /\ changes = 0 /\ aborts = 0

-----------------------------------------------------------------------------
(* Health records, under the dispatcher's mutex.                           *)

Healthy(p) == fails[p] = 0
ShouldProbe(p) == fails[p] # 0 /\ left[p] = 0

\* recordFailure.
Trip(p) ==
  LET k == IF fails[p] < MaxFails THEN fails[p] + 1 ELSE MaxFails IN
    /\ fails' = [fails EXCEPT ![p] = k]
    /\ left' = [left EXCEPT ![p] = Cooldown[k]]
    /\ UNCHANGED faulty

\* recordSuccess.
Recover(p) ==
  /\ fails' = [fails EXCEPT ![p] = 0]
  /\ left' = [left EXCEPT ![p] = 0]
  /\ faulty' = IF mode[p] = "up" THEN faulty \ {p} ELSE faulty

-----------------------------------------------------------------------------
(* Chat.                                                                   *)

Leave(c) == pc' = [pc EXCEPT ![c] = "idle"]

Start(c) ==
  /\ pc[c] = "idle"
  /\ pc' = [pc EXCEPT ![c] = "pick"]
  /\ tried' = [tried EXCEPT ![c] = {}]
  /\ cancelled' = [cancelled EXCEPT ![c] = "no"]
  /\ upSince' = [upSince EXCEPT ![c] = {p \in Chain : mode[p] = "up"}]
  /\ UNCHANGED <<health, mode, at, faulty, changes, aborts>>

\* Bug: no last resort.
NoLastResort(open) ==
  LET ready == {p \in open : Healthy(p) \/ ShouldProbe(p)}
  IN  {p \in ready : \A o \in ready : p <= o}

\* The first entry that is healthy or may be probed; if all cool down, the
\* one that is ready soonest.
Chosen(open) ==
  LET ready == {p \in open : Healthy(p) \/ ShouldProbe(p)}
      soonest == {p \in open : \A o \in open : left[p] <= left[o]}
  IN  IF open = {} THEN {} ELSE {Min(IF ready # {} THEN ready ELSE soonest)}

Pick(c) ==
  /\ pc[c] = "pick"
  /\ LET chosen == Chosen(Enabled \ tried[c]) IN
       \/ /\ chosen = {}
          /\ pc' = [pc EXCEPT ![c] = "exhausted"]
          /\ UNCHANGED <<at, tried>>
       \/ \E p \in chosen :
            /\ at' = [at EXCEPT ![c] = p]
            /\ tried' = [tried EXCEPT ![c] = @ \cup {p}]
            /\ pc' = [pc EXCEPT ![c] = "dial"]
  /\ UNCHANGED <<health, mode, cancelled, upSince, faulty, changes, aborts>>

\* ErrAllProvidersDown.
Exhausted(c) ==
  /\ pc[c] = "exhausted"
  /\ Leave(c)
  /\ UNCHANGED <<health, mode, at, tried, cancelled, upSince, faulty, changes, aborts>>

\* The dial succeeds and the budget is disarmed.
Connected(c) ==
  /\ pc[c] = "dial" /\ mode[at[c]] # "down"
  /\ \/ /\ cancelled[c] = "no"
        /\ pc' = [pc EXCEPT ![c] = "stream"]
     \/ /\ cancelled[c] # "no"  \* nobody reads the stream
        /\ Leave(c)
  /\ UNCHANGED <<health, mode, at, tried, cancelled, upSince, faulty, changes, aborts>>

\* The provider fails, the budget runs out, or the context of the caller is
\* cancelled: to the adapter all of them are network errors.
DialFails(c) ==
  /\ pc[c] = "dial"
  /\ mode[at[c]] # "up" \/ cancelled[c] # "no"
  /\ Trip(at[c])
  /\ pc' = [pc EXCEPT ![c] = "pick"]
  /\ UNCHANGED <<mode, at, tried, cancelled, upSince, changes, aborts>>

\* An error that is the fault of the request.
Rejected(c) ==
  /\ pc[c] = "dial" /\ mode[at[c]] # "mute"
  /\ Leave(c)
  /\ UNCHANGED <<health, mode, at, tried, cancelled, upSince, faulty, changes, aborts>>

-----------------------------------------------------------------------------
(* The stream, and Err at its end.                                         *)

StreamEnds(c) ==
  /\ pc[c] = "stream" /\ mode[at[c]] = "up"
  /\ Recover(at[c])
  /\ Leave(c)
  /\ UNCHANGED <<mode, at, tried, cancelled, upSince, changes, aborts>>

StreamBreaks(c) ==
  /\ pc[c] = "stream" /\ mode[at[c]] = "down"
  /\ Trip(at[c])
  /\ Leave(c)
  /\ UNCHANGED <<mode, at, tried, cancelled, upSince, changes, aborts>>

\* A cancelled stream: the stats wrapper leaves and asks Err before the adapter
\* has one, or the adapter's error comes first.
StreamCut(c) ==
  /\ pc[c] = "stream" /\ cancelled[c] # "no"
  /\ Recover(at[c]) \/ Trip(at[c])
  /\ Leave(c)
  /\ UNCHANGED <<mode, at, tried, cancelled, upSince, changes, aborts>>

-----------------------------------------------------------------------------
(* The world around.                                                       *)

UserAborts(c) ==
  /\ pc[c] \in {"pick", "dial", "stream"} /\ cancelled[c] = "no"
  /\ aborts < MaxAborts /\ aborts' = aborts + 1
  /\ cancelled' = [cancelled EXCEPT ![c] = "user"]
  /\ UNCHANGED <<health, mode, pc, at, tried, upSince, faulty, changes>>

\* The first-byte watchdog or the API timeout of CallLLMOnce.  A dial that stalls
\* ends with its budget (5 to 30 s) before them (2 and 10 min).
Watchdog(c) ==
  /\ pc[c] = "stream" /\ cancelled[c] = "no" /\ mode[at[c]] = "mute"
  /\ cancelled' = [cancelled EXCEPT ![c] = "watchdog"]
  /\ UNCHANGED <<health, mode, pc, at, tried, upSince, faulty, changes, aborts>>

Change(p) ==
  /\ changes < MaxChanges /\ changes' = changes + 1
  /\ \E m \in {"up", "down", "mute"} \ {mode[p]} :
       /\ mode' = [mode EXCEPT ![p] = m]
       /\ faulty' = IF m = "up" THEN faulty ELSE faulty \cup {p}
       /\ upSince' = [c \in Calls |-> upSince[c] \ {p}]
  /\ UNCHANGED <<health, pc, at, tried, cancelled, aborts>>

Tick ==
  /\ \E p \in Chain : left[p] > 0
  /\ left' = [p \in Chain |-> IF left[p] > 0 THEN left[p] - 1 ELSE 0]
  /\ UNCHANGED <<fails, mode, pc, at, tried, cancelled, upSince, faulty, changes, aborts>>

Next ==
  \/ \E c \in Calls :
       \/ Start(c) \/ Pick(c) \/ Exhausted(c) \/ Connected(c) \/ DialFails(c) \/ Rejected(c)
       \/ StreamEnds(c) \/ StreamBreaks(c) \/ StreamCut(c) \/ UserAborts(c) \/ Watchdog(c)
  \/ \E p \in Chain : Change(p)
  \/ Tick

Spec == Init /\ [][Next]_vars

\* Time passes, a call goes on by itself, and calls keep coming; not every
\* request is one the providers reject.
Fairness ==
  /\ WF_vars(Tick)
  /\ \A c \in Calls :
       /\ WF_vars(Start(c)) /\ WF_vars(Pick(c)) /\ WF_vars(Exhausted(c))
       /\ WF_vars(DialFails(c)) /\ SF_vars(Connected(c)) /\ WF_vars(Watchdog(c))
       /\ WF_vars(StreamEnds(c) \/ StreamBreaks(c) \/ StreamCut(c))

FairSpec == Spec /\ Fairness

-----------------------------------------------------------------------------
(* Properties                                                              *)

\* Types; a healthy provider has no cooldown, and none is longer than its trip
\* earned.
FailoverInv ==
  /\ TypeOK
  /\ \A p \in Chain : left[p] <= IF fails[p] = 0 THEN 0 ELSE Cooldown[fails[p]]

\* A call reports that all providers are down only if none of those it may use
\* was up all the while, however the other calls tripped them.
ServedWhenPossible ==
  \A c \in Calls : pc[c] = "exhausted" /\ cancelled[c] = "no" => upSince[c] \cap Enabled = {}

\* The providers are tripped by their own failures, not by what callers do.
OnlyFaultsTrip ==
  \A p \in Chain : fails[p] # 0 => p \in faulty

\* A provider is taken back only by a call that it has served.
OnlyServiceRecovers ==
  [][\A p \in Chain : fails[p] # 0 /\ fails'[p] = 0 =>
       \E c \in Calls : pc[c] = "stream" /\ pc'[c] = "idle" /\ at[c] = p /\ mode[p] = "up"]_vars

\* Once the preferred provider works again it is used again.
PrimaryComesBack ==
  LET primary == Min(Enabled) IN <>[](mode[primary] = "up") => <>[](fails[primary] = 0)
=============================================================================
