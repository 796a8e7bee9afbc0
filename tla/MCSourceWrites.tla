-------------------------- MODULE MCSourceWrites --------------------------
(* Two calls in one process and a third in another. *)
EXTENDS SourceWrites

CONSTANTS a, b, c, p, q

ProcOf == [w \in Writers |-> IF w = c THEN q ELSE p]

\* Of the two calls of p, which are alike, a is the one that begins first.
FirstCall == pc'[a] = "idle" => pc'[b] = "idle"

\* A second failure hits only a call that reclaims a lease, or one that repeats
\* its release, which it ends; and only where no other editor saves.
Cast ==
    /\ FirstCall
    /\ faults' = 2 => edits' = 0
    /\ \/ faults' <= 1 \/ faults' = faults
       \/ \E w \in Writers : pc[w] = "reclaim" /\ guard = w
       \/ \E w \in Writers : pc[w] = "unlock" /\ pc'[w] = "abandoned"
===========================================================================
