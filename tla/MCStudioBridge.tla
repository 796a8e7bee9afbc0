-------------------------- MODULE MCStudioBridge --------------------------
(* A small instance of StudioBridge. *)
EXTENDS StudioBridge, TLC

CONSTANTS e1, s1, s2, r1, r2, g1, g2

\* One window's edit peer and two play servers, at the same or another place.
ServersSessions == {e1, s1, s2}
ServersPhys == [x \in ServersSessions |-> x]
ServersKind == [x \in ServersSessions |-> IF x = e1 THEN "edit" ELSE "server"]

Symmetry == Permutations({s1, s2}) \cup Permutations({r1, r2}) \cup Permutations({g1, g2})
===========================================================================
