---------------------------- MODULE MCRunRecords ----------------------------
(* Two chats and one place, and any two of three runs: the first two are of *)
(* the first chat, and only the first names the place.                      *)
EXTENDS RunRecords

CONSTANTS r1, r2, r3, c, d, p

NoRuns == [r \in Runs |-> 0]
Contents == [Runs -> 0..2]
FilesOfChats(w) == ChatFiles(w)
TwoChats == [r \in Runs |-> IF r = r3 THEN d ELSE c]
FirstWants == [r \in Runs |-> IF r = r1 THEN p ELSE None]

\* Bounds: two runs of a behaviour and a failure, or one and two failures.
Begins == Cardinality({r \in Runs : stage[r] # "new"})
TwoRuns == Begins <= 2 /\ Begins + faults <= 3
==============================================================================
