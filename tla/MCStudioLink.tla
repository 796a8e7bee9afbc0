--------------------------- MODULE MCStudioLink ---------------------------
(* Small instances of StudioLink. *)
EXTENDS StudioLink, TLC

CONSTANTS e1, e2, s1, c1, r1, r2, g1, g2, g3

\* Two Studio windows, a play server and a runtime client it carries.
OneEdit == {e1}
TwoEdits == {e1, e2}
All == {e1, e2, s1, c1}
PhysOf == [x \in Sessions |-> IF x = c1 THEN s1 ELSE x]
KindOf == [x \in Sessions |-> CASE x = s1 -> "server" [] x = c1 -> "client" [] OTHER -> "edit"]
Symmetry == Permutations({e1, e2}) \cup Permutations({r1, r2}) \cup Permutations({g1, g2, g3})

\* A window is loaded at the place "p", or never; it keeps its place.
Windows == {v \in Physical : Kind[v] = "edit"}
AtHome == {v \in Windows : place[v] = "p"}
WindowsInit == LinkInit /\ \A v \in Windows : phase[v] = "off" <=> place[v] = "p"
WindowsStay == \A v \in Windows : place'[v] = place[v]
Submitted == {r \in Requests : status'[r] # "new"}
Addressed == {target'[r] : r \in Requests} \ {NoTarget}

\* One window with two requests, or two windows with one, which fail once at
\* most; or a play server alone, with one request and two failures.
CastInit == WindowsInit /\ (phase[s1] = "off" <=> AtHome = {}) /\ place[s1] = "p"
CastSpec == CastInit /\ [][LinkNext]_linkVars
Cast ==
    /\ WindowsStay
    /\ AtHome # {} => Addressed \subseteq {[place |-> "p", kind |-> "edit", n |-> 0]}
    /\ AtHome # {} => faults' <= 1
    /\ Cardinality(AtHome) # 1 => Cardinality(Submitted) <= 1

\* Two windows without requests, or one with a request.
FairInit == WindowsInit /\ e1 \in AtHome
FairWindowsSpec == FairInit /\ [][LinkNext]_linkVars /\ Fairness
FairWindows == WindowsStay /\ (AtHome = Windows => Submitted = {})
===========================================================================
