---------------------------- MODULE AwaitPromise ----------------------------
(***************************************************************************)
(* What the registry promises the engine about pending operations, without *)
(* channels, mutexes or goroutines: a request is asked once, and settled   *)
(* exactly once, by an answer, by the caller giving up, or together with   *)
(* every other pending request when the session is aborted.                *)
(***************************************************************************)
CONSTANT Requests

VARIABLE settled   \* request -> "unasked", "pending", "answered", "aborted" or "abandoned"

PromiseInit == settled = [q \in Requests |-> "unasked"]

Pending == {q \in Requests : settled[q] = "pending"}

Ask(q) == /\ settled[q] = "unasked"
          /\ settled' = [settled EXCEPT ![q] = "pending"]

Answer(q) == /\ settled[q] = "pending"
             /\ settled' = [settled EXCEPT ![q] = "answered"]

Abandon(q) == /\ settled[q] = "pending"
              /\ settled' = [settled EXCEPT ![q] = "abandoned"]

\* All of them at once, and only the pending ones.
AbortPending ==
  settled' = [q \in Requests |-> IF q \in Pending THEN "aborted"
                                                  ELSE settled[q]]

PromiseNext ==
  \/ \E q \in Requests : Ask(q) \/ Answer(q) \/ Abandon(q)
  \/ AbortPending

PromiseSpec == PromiseInit /\ [][PromiseNext]_settled
=============================================================================
