--------------------------- MODULE SourceAuthority ---------------------------
(***************************************************************************)
(* Several MCP processes share one Studio port.  The one that owns it (the *)
(* primary) runs the source operations of all; the others (proxies) send   *)
(* theirs to it (RojoPrimaryClient, RojoPrimaryService) and one of them     *)
(* takes the port over when it is free (promotion in server.ts).           *)
(*                                                                         *)
(* The primary keeps a client's Rojo bindings in memory; the client keeps  *)
(* a checkpoint of what was acknowledged, from which another primary makes *)
(* them again.  Answers get lost, primaries die, and a call may be served  *)
(* long after its client gave up on it.  What binding a project does, and  *)
(* the primary's own source operations, are left out.                      *)
(***************************************************************************)
EXTENDS FiniteSets, Naturals, Sequences

CONSTANTS
    Procs,      \* MCP processes; each owns the port at most once, so that its
                \* name also stands for its epoch
    Defaults,   \* processes started with a project of their own
    MaxScopes,  \* clients a primary keeps (64)
    MaxQueue,   \* bound: calls of one client that wait or run
    MaxOps,     \* bound: operations of one client
    MaxFaults,  \* bound: crashes, and calls given up while they are served
    None

ASSUME AuthorityAssumption ==
    /\ IsFiniteSet(Procs) /\ Defaults \subseteq Procs /\ None \notin Procs
    /\ MaxScopes \in Nat \ {0} /\ MaxQueue \in Nat /\ MaxOps \in Nat /\ MaxFaults \in Nat

VARIABLES
    mode,     \* "proxy", "trying" to bind the port, "primary" or "down"
    intent,   \* clients that want Rojo bindings
    kept,     \* the checkpoint of each client
    acked,    \* the epoch of its last acknowledgement
    pending,  \* its operation without a known outcome (uncertain)
    queue,    \* what the client is asked to do; the first call is running
    epoch,    \* the epoch that call was told
    asked,    \* the request it waits for
    reply,    \* the answer to it, on its way
    sent,     \* requests on their way to a primary
    scope,    \* what the primary keeps for each client
    making,   \* the request for which the primary is making a client's scope
    truth,    \* history: what the last operation of a client left
    ops, faults

call == <<queue, epoch, asked>>
memory == <<intent, kept, acked, pending>>
server == <<scope, making, truth>>
vars == <<mode, memory, call, reply, sent, server, ops, faults>>

\* "use" reads or writes a source, or prepares a playtest.
Jobs == {"link", "unlink", "use"}
Content == [bound : BOOLEAN, tried : BOOLEAN]
Map == [version : 0..MaxOps, content : Content]
Request == [from : Procs, to : Procs, kind : {"call", "status", "release"}, op : 0..MaxOps,
            job : Jobs \cup {None}, epoch : Procs, map : Map]
Scope == [map : Map, active : Request \cup {None}, last : 0..MaxOps]
Answers == {"applied", "not accepted", "not applied"}
Reply == [answer : Answers, map : Map]

ASSUME NoneAssumption == None \notin Request \cup Scope \cup Reply

Primary == {p \in Procs : mode[p] = "primary"}
Client(p) == mode[p] \in {"proxy", "trying"}

AuthTypeOK ==
    /\ mode \in [Procs -> {"proxy", "trying", "primary", "down"}]
    /\ intent \subseteq Procs
    /\ kept \in [Procs -> Map] /\ acked \in [Procs -> Procs \cup {None}]
    /\ \A p \in Procs : pending[p] \in Request \cup {None}
    /\ \A p \in Procs : queue[p] \in Seq(Jobs) /\ Len(queue[p]) <= MaxQueue
    /\ epoch \in [Procs -> Procs \cup {None}]
    /\ \A p \in Procs : asked[p] \in Request \cup {None} /\ (queue[p] = <<>> => asked[p] = None)
    /\ \A p \in Procs : reply[p] = None \/ (reply[p] \in Reply /\ asked[p] # None)
    /\ sent \subseteq Request
    /\ \A p \in Procs : scope[p] \in Scope \cup {None} /\ making[p] \in Request \cup {None}
    /\ truth \in [Procs -> Content]
    /\ ops \in [Procs -> 0..MaxOps] /\ faults \in 0..MaxFaults

Init ==
    LET none == [p \in Procs |-> None] IN
    /\ \E p \in Procs : mode = [q \in Procs |-> IF q = p THEN "primary" ELSE "proxy"]
    /\ intent = Defaults
    /\ truth = [p \in Procs |-> [bound |-> FALSE, tried |-> FALSE]]
    /\ kept = [p \in Procs |-> [version |-> 0, content |-> truth[p]]]
    /\ acked = none /\ pending = none /\ epoch = none /\ asked = none
    /\ reply = none /\ scope = none /\ making = none
    /\ queue = [p \in Procs |-> <<>>]
    /\ sent = {}
    /\ ops = [p \in Procs |-> 0] /\ faults = 0

-----------------------------------------------------------------------------
(* The client (RojoPrimaryClient). *)

\* A source call of a client without bindings, and with nothing to clear up, is
\* its own and not modelled; the others queue.
Invoke(p, what) ==
    /\ Client(p) /\ Len(queue[p]) < MaxQueue /\ ops[p] + Len(queue[p]) < MaxOps
    /\ intent' = IF what = "link" THEN intent \cup {p} ELSE intent
    /\ p \in intent' \/ pending[p] # None
    /\ queue' = [queue EXCEPT ![p] = Append(@, what)]
    /\ UNCHANGED <<mode, kept, acked, pending, epoch, asked, reply, sent, server, ops, faults>>

\* rojoCapabilities, and rojoRequest to whatever process owns the port now.
Ask(p) ==
    /\ Client(p) /\ queue[p] # <<>> /\ epoch[p] = None
    /\ \E q \in Primary : epoch' = [epoch EXCEPT ![p] = q]
    /\ UNCHANGED <<mode, memory, queue, asked, reply, sent, server, ops, faults>>

To(q, p, kind, what, op, e) ==
    [from |-> p, to |-> q, kind |-> kind, op |-> op, job |-> what, epoch |-> e, map |-> kept[p]]

Told(p) == Client(p) /\ epoch[p] # None /\ asked[p] = None

\* MUTANT of Returns: the request is still waited for.
ReturnsKeeping(p) ==
    /\ queue' = [queue EXCEPT ![p] = Tail(@)]
    /\ epoch' = [epoch EXCEPT ![p] = None]
    /\ reply' = [reply EXCEPT ![p] = None]
    /\ UNCHANGED asked

Returns(p) ==
    /\ queue' = [queue EXCEPT ![p] = Tail(@)]
    /\ epoch' = [epoch EXCEPT ![p] = None]
    /\ asked' = [asked EXCEPT ![p] = None]
    /\ reply' = [reply EXCEPT ![p] = None]

\* MUTANT of Unresolved: what another primary was asked is forgotten.
UnresolvedHere(p) == pending[p] # None /\ pending[p].epoch = epoch[p]

Unresolved(p) == pending[p] # None

\* recover: only the primary that got the pending operation is asked for it.
Recover(p) ==
    /\ Told(p) /\ Unresolved(p) /\ pending[p].epoch = epoch[p]
    /\ \E q \in Primary :
         LET m == To(q, p, "status", None, pending[p].op, epoch[p]) IN
         sent' = sent \cup {m} /\ asked' = [asked EXCEPT ![p] = m]
    /\ UNCHANGED <<mode, memory, queue, epoch, reply, server, ops, faults>>

\* The request is kept before it is sent.
Send(p) ==
    /\ Told(p) /\ ~Unresolved(p)
    /\ ops' = [ops EXCEPT ![p] = @ + 1]
    /\ \E q \in Primary :
         LET m == To(q, p, "call", Head(queue[p]), ops'[p], epoch[p]) IN
         /\ sent' = sent \cup {m}
         /\ asked' = [asked EXCEPT ![p] = m]
         /\ pending' = [pending EXCEPT ![p] = m]
    /\ UNCHANGED <<mode, intent, kept, acked, queue, epoch, reply, server, faults>>

\* No primary answers, or it is not the one that got the pending operation.
Refused(p) ==
    /\ Client(p) /\ queue[p] # <<>> /\ asked[p] = None
    /\ \/ Primary = {}
       \/ epoch[p] # None /\ Unresolved(p) /\ pending[p].epoch # epoch[p]
    /\ Returns(p)
    /\ UNCHANGED <<mode, memory, sent, server, ops, faults>>

\* MUTANT of Cleared: an operation the primary does not know is taken for one
\* that will not be applied.
ClearedByStatus(kind, answer) == answer # "not applied" \/ kind = "status"

\* An acknowledgement, and the codes that say that a call was not accepted.
Cleared(kind, answer) == answer = "applied" \/ (kind = "call" /\ answer = "not accepted")

\* The answer to the call, or to the question after the pending one; after that
\* is acknowledged the call itself is made.
Hear(p) ==
    LET r == reply[p] IN
    /\ Client(p) /\ r # None
    /\ IF r.answer = "applied"
         THEN /\ kept' = [kept EXCEPT ![p] = r.map]
              /\ acked' = [acked EXCEPT ![p] = asked[p].epoch]
              /\ intent' = IF pending[p].job = "unlink" /\ p \notin Defaults /\ ~r.map.content.bound
                             THEN intent \ {p} ELSE intent
         ELSE UNCHANGED <<kept, acked, intent>>
    /\ pending' = [pending EXCEPT ![p] = IF Cleared(asked[p].kind, r.answer) THEN None ELSE @]
    /\ IF asked[p].kind = "status" /\ r.answer = "applied"
         THEN /\ asked' = [asked EXCEPT ![p] = None] /\ reply' = [reply EXCEPT ![p] = None]
              /\ UNCHANGED <<queue, epoch>>
         ELSE Returns(p)
    /\ UNCHANGED <<mode, sent, server, ops, faults>>

\* The primary still has the request.
Active(p) == IF scope[p] = None THEN None ELSE scope[p].active
InHand(p) == asked[p] \in sent \cup {making[p], Active(p)}

\* The connection breaks, or the answer takes 120 seconds; the request may be
\* served later.
GiveUp(p) ==
    /\ Client(p) /\ asked[p] # None /\ reply[p] = None
    /\ faults' = IF InHand(p) THEN faults + 1 ELSE faults
    /\ faults' <= MaxFaults
    /\ Returns(p)
    /\ UNCHANGED <<mode, memory, sent, server, ops>>

\* shutdown, with release for what was acknowledged.
Leave(p) ==
    /\ Client(p) /\ faults < MaxFaults
    /\ mode' = [mode EXCEPT ![p] = "down"]
    /\ sent' = sent \cup {To(q, p, "release", None, 0, acked[p]) :
                          q \in {q \in Primary : acked[p] # None /\ queue[p] = <<>> /\ pending[p] = None}}
    /\ queue' = [queue EXCEPT ![p] = <<>>]
    /\ epoch' = [epoch EXCEPT ![p] = None]
    /\ asked' = [asked EXCEPT ![p] = None]
    /\ reply' = [reply EXCEPT ![p] = None]
    /\ faults' = faults + 1
    /\ UNCHANGED <<memory, server, ops>>

-----------------------------------------------------------------------------
(* The primary (RojoPrimaryService.handle).  An answer reaches the client only  *)
(* while it waits for that request.                                             *)

Answer(m, answer, map) ==
    reply' = IF asked[m.from] = m
               THEN [reply EXCEPT ![m.from] = [answer |-> answer, map |-> map]] ELSE reply

\* A question after an operation waits for the scope, and for the operation.
Status == \E m \in {n \in sent : n.kind = "status"} :
    LET s == scope[m.from] IN
    /\ making[m.from] = None
    /\ ~(Active(m.from) # None /\ Active(m.from).op = m.op)
    /\ IF s # None /\ s.last = m.op THEN Answer(m, "applied", s.map)
                                    ELSE Answer(m, "not applied", m.map)
    /\ sent' = sent \ {m}
    /\ UNCHANGED <<mode, memory, call, server, ops, faults>>

Release == \E m \in {n \in sent : n.kind = "release"} :
    /\ sent' = sent \ {m}
    /\ scope' = IF m.epoch = m.to /\ Active(m.from) = None
                  THEN [scope EXCEPT ![m.from] = None] ELSE scope
    /\ UNCHANGED <<mode, memory, call, reply, making, truth, ops, faults>>

Kept == {p \in Procs : scope[p] # None \/ making[p] # None}

\* Another primary was meant, the limit is reached, the client is busy, or its
\* checkpoint is not the one of the scope.
Refuses(m) ==
    LET s == scope[m.from] IN
    \/ m.epoch # m.to
    \/ s = None /\ making[m.from] = None /\ Cardinality(Kept) >= MaxScopes
    \/ Active(m.from) # None
    \/ s # None /\ s.map.version # m.map.version

Refuse == \E m \in {n \in sent : n.kind = "call" /\ making[n.from] = None /\ Refuses(n)} :
    /\ sent' = sent \ {m}
    /\ Answer(m, "not accepted", m.map)
    /\ UNCHANGED <<mode, memory, call, server, ops, faults>>

Begin == \E m \in {n \in sent : n.kind = "call" /\ making[n.from] = None /\ ~Refuses(n)} :
    /\ sent' = sent \ {m}
    /\ IF scope[m.from] = None
         THEN making' = [making EXCEPT ![m.from] = m] /\ UNCHANGED scope
         ELSE scope' = [scope EXCEPT ![m.from].active = m] /\ UNCHANGED making
    /\ UNCHANGED <<mode, memory, call, reply, truth, ops, faults>>

\* The scope is made from the checkpoint, and the request goes on.
Created(p) ==
    /\ making[p] # None
    /\ scope' = [scope EXCEPT ![p] = [map |-> making[p].map, active |-> making[p], last |-> 0]]
    /\ making' = [making EXCEPT ![p] = None]
    /\ UNCHANGED <<mode, memory, call, reply, sent, truth, ops, faults>>

\* The window of a binding is gone, or the request was aborted.
CreationFails(p) ==
    /\ making[p] # None
    /\ making[p].map.content.bound \/ asked[p] # making[p]
    /\ Answer(making[p], "not applied", making[p].map)
    /\ making' = [making EXCEPT ![p] = None]
    /\ UNCHANGED <<mode, memory, call, sent, scope, truth, ops, faults>>

\* What the tool may leave; a tool that fails is applied as well.
Outcomes(p, what, c) ==
    {c} \cup CASE what = "link"   -> {[c EXCEPT !.bound = TRUE]}
               [] what = "unlink" -> {[c EXCEPT !.bound = FALSE]}
               [] what = "use"    -> IF p \in Defaults /\ ~c.tried /\ ~c.bound
                                       THEN {[bound |-> b, tried |-> TRUE] : b \in BOOLEAN} ELSE {}

Finish(p) ==
    LET s == scope[p] IN
    /\ Active(p) # None
    /\ \E c \in Outcomes(p, s.active.job, s.map.content) :
         LET map == [version |-> s.map.version + 1, content |-> c] IN
         /\ scope' = [scope EXCEPT ![p] = [map |-> map, active |-> None, last |-> s.active.op]]
         /\ truth' = [truth EXCEPT ![p] = c]
         /\ Answer(s.active, "applied", map)
    /\ UNCHANGED <<mode, memory, call, sent, making, ops, faults>>

\* The primary dies with all it keeps.
PrimaryDies ==
    /\ Primary # {} /\ faults < MaxFaults
    /\ mode' = [p \in Procs |-> IF p \in Primary THEN "down" ELSE mode[p]]
    /\ sent' = {}
    /\ scope' = [p \in Procs |-> None] /\ making' = [p \in Procs |-> None]
    /\ faults' = faults + 1
    /\ UNCHANGED <<memory, call, reply, truth, ops>>

-----------------------------------------------------------------------------
(* Promotion (server.ts). *)

\* MUTANT of Plain: a client that has had bindings is never plain again.
PlainOfOld(p) == p \notin intent /\ pending[p] = None /\ acked[p] = None

Plain(p) == p \notin intent /\ pending[p] = None

\* The promotion timer of a plain proxy starts to bind the port.
Try(p) ==
    /\ mode[p] = "proxy" /\ Plain(p)
    /\ mode' = [mode EXCEPT ![p] = "trying"]
    /\ UNCHANGED <<memory, call, reply, sent, server, ops, faults>>

\* MUTANT of StillPlain: nothing is checked again.
StillPlainAlways(p) == TRUE

\* A link can begin while the port is being bound.
StillPlain(p) == Plain(p) /\ queue[p] = <<>> /\ ~kept[p].content.bound

Bind(p) ==
    /\ mode[p] = "trying"
    /\ mode' = [mode EXCEPT ![p] = IF Primary = {} /\ StillPlain(p) THEN "primary" ELSE "proxy"]
    /\ UNCHANGED <<memory, call, reply, sent, server, ops, faults>>

-----------------------------------------------------------------------------
Next ==
    \/ \E p \in Procs, what \in Jobs : Invoke(p, what)
    \/ \E p \in Procs : Ask(p) \/ Recover(p) \/ Send(p) \/ Refused(p) \/ Hear(p) \/ GiveUp(p) \/ Leave(p)
    \/ Status \/ Release \/ Refuse \/ Begin
    \/ \E p \in Procs : Created(p) \/ CreationFails(p) \/ Finish(p)
    \/ PrimaryDies
    \/ \E p \in Procs : Try(p) \/ Bind(p)

Spec == Init /\ [][Next]_vars

\* The promotion timer goes on, and a bind that was started ends.
Fairness == \A p \in Procs : WF_vars(Try(p)) /\ WF_vars(Bind(p))
FairSpec == Spec /\ Fairness

-----------------------------------------------------------------------------
(* Properties. *)

\* No operation begins that its client no longer waits or asks for: what it was
\* told is not applied never is (uncertain, primary-client.ts).
NoLateEffect ==
    [][\A p \in Procs : Client(p) /\ Active(p)' \notin {None, Active(p)}
                        => pending[p] # None /\ pending[p].op = Active(p)'.op]_vars

\* What a primary keeps for a client is what its last operation left, wherever
\* that ran, and a client without a pending operation knows it: an old map is
\* never replayed after a lost acknowledgement (primary-client.ts, "must never
\* replay its old map").
MapsAreCurrent ==
    /\ \A p \in Procs : Client(p) /\ scope[p] # None => scope[p].map.content = truth[p]
    /\ \A p \in Procs : Client(p) /\ pending[p] = None =>
         kept[p].content = truth[p] /\ (scope[p] # None => scope[p].map = kept[p])

\* A process that takes the port over has no source call under way, no pending
\* operation and no binding, and no two processes own the port: nobody's map is
\* replaced by an empty one (server.ts, promotion).
PromotedIsPlain ==
    /\ Cardinality(Primary) <= 1
    /\ \A p \in Primary : pending[p] = None /\ queue[p] = <<>> /\ ~kept[p].content.bound

Unbound(p) == Client(p) /\ p \notin intent /\ pending[p] = None /\ queue[p] = <<>>
                        /\ ~kept[p].content.bound

\* A free port is taken while a proxy without bindings is there, and stays.
PortIsTaken ==
    \A p \in Procs : Primary = {} /\ Unbound(p) ~> Primary # {} \/ ~Unbound(p)

\* A client with bindings delegates its calls: "script writes to their files go
\* through it" (tools/index.ts on linked projects).
LinkedCallsGoThrough ==
    \A p \in Procs : Client(p) /\ kept[p].content.bound => p \in intent \/ pending[p] # None
==============================================================================
