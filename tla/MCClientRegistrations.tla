----------------------- MODULE MCClientRegistrations -----------------------
(* Small instances of ClientRegistrations: a play server and its players. *)
EXTENDS ClientRegistrations

CONSTANTS s1, c1, c2

OnePlayer == {s1, c1}
OnePlayerPhys == [x \in OnePlayer |-> s1]
OnePlayerKind == [x \in OnePlayer |-> IF x = s1 THEN "server" ELSE "client"]

TwoPlayers == {s1, c1, c2}
TwoPlayersPhys == [x \in TwoPlayers |-> s1]
TwoPlayersKind == [x \in TwoPlayers |-> IF x = s1 THEN "server" ELSE "client"]
=============================================================================
