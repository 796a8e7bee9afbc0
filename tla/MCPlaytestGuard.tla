--------------------------- MODULE MCPlaytestGuard ---------------------------
(* One window with two scripts, one of which another window has as well. *)
EXTENDS PlaytestGuard

CONSTANTS v, w, f, g

ScriptsOf == {<<v, f>>, <<v, g>>, <<w, f>>}

\* The scripts that play a part: two of them, one of a window that moves, with
\* one text, or, to fill the ledger, three without any.  The others, and files without such
\* a script, stay as they are.
Parts == {x \in Scripts : x \in saved \cup entries \/ writes[x] # "none"}
Cast ==
    /\ Cardinality(Parts') <= 2 \/ (texts' = 0 /\ start'["s"] = "idle")
    /\ moves' > 0 => Parts' \subseteq {<<v, f>>} /\ texts' <= 1
    /\ \A x \in Scripts \ Parts : studio'[x] = studio[x]
    /\ \A h \in Files : file'[h] # file[h] => \E x \in Parts : x[2] = h
==============================================================================
