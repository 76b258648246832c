---------------------------- MODULE MCEmmaEngine ----------------------------
EXTENDS EmmaEngine, TLC

CONSTANTS tool1, perm1, perm2, q1, q2, r1, none

MCAwaiters == {tool1, perm1, perm2}
MCPerms == {perm1, perm2}
MCIds == {"call_1", "perm_1", "perm_2"}
MCId == (tool1 :> "call_1") @@ (perm1 :> "perm_1") @@ (perm2 :> "perm_2")

\* The first query calls a client tool and asks for a permission; the second
\* asks for the same key through a sub-agent.
MCOwner == (tool1 :> q1) @@ (perm1 :> q1) @@ (perm2 :> q2)
MCSubAgent == {perm2}
MCKey == (perm1 :> "Bash:git") @@ (perm2 :> "Bash:git")

=============================================================================
