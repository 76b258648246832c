----------------------------- MODULE WriteBehind -----------------------------
(***************************************************************************)
(* What a write-behind copy promises: the stored version is one the memory *)
(* once had, and it never goes back.                                       *)
(***************************************************************************)
EXTENDS Naturals

VARIABLES mem, stored

WBInit == mem = 0 /\ stored = 0

Change == mem' = mem + 1 /\ UNCHANGED stored

CatchUp == /\ \E v \in (stored + 1) .. mem : stored' = v
           /\ UNCHANGED mem

WBSpec == WBInit /\ [][Change \/ CatchUp]_<<mem, stored>>
=============================================================================
