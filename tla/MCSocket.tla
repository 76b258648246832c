------------------------------ MODULE MCSocket ------------------------------
(***************************************************************************)
(* Two connections, one user.  Every buffer holds one element, so that     *)
(* each of them is met full.                                               *)
(***************************************************************************)
EXTENDS Socket, TLC

CONSTANTS c1, c2, s1, s2, u1

MCConns == {c1, c2}
MCUsers == {u1}
MCSessions == {s1, s2}
MCUserOf == [c \in MCConns |-> u1]
MCOpens == (c1 :> {s1}) @@ (c2 :> MCSessions)
Block(type, media, size) == [type |-> type, media |-> media, source |-> TRUE, size |-> size]
MCContents ==
  {<<Block("text", "none", 0)>>, <<Block("pdf", "pdf", 1)>>, <<Block("image", "image", 3)>>}
MCIds == {1}

-----------------------------------------------------------------------------
\* An answer gets through while a query runs, a query is not held by a reader that is gone,
\* and a shutdown reaches every connection (Socket).
NobodyIsHeld == AnswersGetThrough /\ NoQueryIsHeld /\ CloseReachesAll
=============================================================================
