--------------------------- MODULE RequestPromise ---------------------------
(***************************************************************************)
(* What the bridge and the plugins together promise the caller of a tool   *)
(* request, whatever connections break and whoever restarts: the request   *)
(* is settled at most once, Studio starts its handler at most once, and a  *)
(* caller that gets Studio's answer gets the answer of a handler that ran. *)
(* A caller that is told of a failure learns nothing about the handler: it *)
(* may have run, may be running, or may even start later.                  *)
(***************************************************************************)
EXTENDS Naturals

CONSTANT Requests

VARIABLES
    state,     \* what the caller of each request has been told
    starts     \* how often a plugin started the request's handler

TypeOK ==
    /\ state \in [Requests -> {"new", "waiting", "answered", "failed"}]
    /\ starts \in [Requests -> 0..1]

Init ==
    /\ state = [r \in Requests |-> "new"]
    /\ starts = [r \in Requests |-> 0]

Submit(r) ==
    /\ state[r] = "new"
    /\ state' = [state EXCEPT ![r] = "waiting"]
    /\ UNCHANGED starts

Start(r) ==
    /\ state[r] # "new"
    /\ starts[r] = 0
    /\ starts' = [starts EXCEPT ![r] = 1]
    /\ UNCHANGED state

Answer(r) ==
    /\ state[r] = "waiting"
    /\ starts[r] = 1
    /\ state' = [state EXCEPT ![r] = "answered"]
    /\ UNCHANGED starts

\* A timeout fails one request, a disconnect or a shutdown several at once.
Fail(R) ==
    /\ \A r \in R : state[r] = "waiting"
    /\ state' = [r \in Requests |-> IF r \in R THEN "failed" ELSE state[r]]
    /\ UNCHANGED starts

Next ==
    \/ \E r \in Requests : Submit(r) \/ Start(r) \/ Answer(r)
    \/ \E R \in SUBSET Requests : Fail(R)

Spec == Init /\ [][Next]_<<state, starts>>
=============================================================================
