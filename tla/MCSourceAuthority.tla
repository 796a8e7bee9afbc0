-------------------------- MODULE MCSourceAuthority --------------------------
(* A primary and two proxies, one of which may have a project of its own. *)
EXTENDS SourceAuthority

CONSTANTS a, b, c

\* Two calls of each client at most, three of all, and two at a time.
Cast ==
    /\ ops'[a] + ops'[b] + ops'[c] <= 3
    /\ Len(queue'[a]) + Len(queue'[b]) + Len(queue'[c]) <= 2
==============================================================================
