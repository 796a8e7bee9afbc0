---------------------------- MODULE StudioBridge ----------------------------
(***************************************************************************)
(* The primary MCP server's side of the Studio link: BridgeService (peer   *)
(* registrations, the queue of tool requests, claims) together with        *)
(* SseStudioTransport (one event stream per physical plugin session).      *)
(* The two call each other synchronously inside one JavaScript turn, so    *)
(* they are one state machine and every action below is one whole turn.    *)
(*                                                                         *)
(* The plugins are the environment here: any registered or unregistered    *)
(* peer may call any route at any time.  StudioLink adds the plugins.      *)
(***************************************************************************)
EXTENDS Naturals, FiniteSets, Sequences

CONSTANTS
    Sessions,     \* plugin session ids, one per Studio plugin VM or runtime client
    Phys,         \* the session that carries another's events: physicalSessionId
    Kind,         \* the role a session announces: "edit", "server" or "client"
    Places,       \* canonical instance ids (place:N or anon:GUID)
    Requests,     \* tool requests, by request id
    Gens,         \* the distinguishing part of a claim owner, sse:<session>:<n>
    MaxClients,   \* bound: client-1 .. client-MaxClients
    MaxStreams,   \* MAX_ACTIVE_EVENT_STREAMS
    NoTarget, NoGen, NoOwner

Physical == {s \in Sessions : Phys[s] = s}

ASSUME SessionAssumption ==
    /\ Phys \in [Sessions -> Sessions]
    /\ Kind \in [Sessions -> {"edit", "server", "client"}]
    /\ \A x \in Sessions : Phys[Phys[x]] = Phys[x]
    \* The topology checks of /ready: exactly the client roles are logical.
    /\ \A x \in Sessions : Kind[x] = "client" <=> Phys[x] # x

\* (instanceId, role) tuples a request can be addressed to.
Targets ==
    [place : Places, kind : {"edit", "server"}, n : {0}]
        \cup [place : Places, kind : {"client"}, n : 1..MaxClients]

Owners == Physical \X Gens

ASSUME BridgeAssumption ==
    /\ MaxClients \in Nat
    /\ MaxStreams \in Nat \ {0}
    /\ NoTarget \notin Targets
    /\ NoGen \notin Gens
    /\ NoOwner \notin Owners

VARIABLES
    inst,      \* instances: the target each session is registered as
    idle,      \* age of lastActivity: 0, 1 (> 3 s: takeover), 2 (> 30 s: stale)
    owners,    \* deliveryOwnersByPhysicalSession
    stream,    \* streams: the open event stream of a physical session
    blocked,   \* ActiveEventStream.blocked: waiting for the socket to drain
    arrivals,  \* every request id in the order sendRequest queued it
    status,    \* "new", "waiting" (in pendingRequests) or how it was settled
    target,    \* PendingRequest.targetInstanceId and targetRole
    claim      \* PendingRequest.claimOwner

peers == <<inst, idle, owners>>
streams == <<stream, blocked>>
queue == <<arrivals, status, target, claim>>
vars == <<inst, idle, owners, stream, blocked, arrivals, status, target, claim>>

Settled == {"answered", "timeout", "timeoutAfterDelivery", "disconnected", "closed"}

TypeOK ==
    /\ inst \in [Sessions -> Targets \cup {NoTarget}]
    /\ idle \in [Sessions -> 0..2]
    /\ owners \in [Physical -> SUBSET Gens]
    /\ stream \in [Physical -> Gens \cup {NoGen}]
    /\ blocked \in [Physical -> BOOLEAN]
    /\ arrivals \in Seq(Requests)
    /\ status \in [Requests -> {"new", "waiting"} \cup Settled]
    /\ target \in [Requests -> Targets \cup {NoTarget}]
    /\ claim \in [Requests -> Owners \cup {NoOwner}]

Init ==
    /\ inst = [x \in Sessions |-> NoTarget]
    /\ idle = [x \in Sessions |-> 0]
    /\ owners = [s \in Physical |-> {}]
    /\ stream = [s \in Physical |-> NoGen]
    /\ blocked = [s \in Physical |-> FALSE]
    /\ arrivals = <<>>
    /\ status = [r \in Requests |-> "new"]
    /\ target = [r \in Requests |-> NoTarget]
    /\ claim = [r \in Requests |-> NoOwner]

-----------------------------------------------------------------------------
(* Helpers on the state. *)

Waiting == {r \in Requests : status[r] = "waiting"}
Registered == {x \in Sessions : inst[x] # NoTarget}
Group(s) == {x \in Sessions : Phys[x] = s}
Open == {s \in Physical : stream[s] # NoGen}

\* A session whose physical peer has no delivery owner is not protected
\* from takeover and stale cleanup by a live event stream.
Undelivered(x) == owners[Phys[x]] = {}

\* A registered session a duplicate may not displace: it has a live stream, or
\* has shown activity within DUPLICATE_TAKEOVER_MS.
Protected(x) == ~Undelivered(x) \/ idle[x] = 0

\* updateInstanceActivity: one session's activity counts for its whole group.
Touch(s) ==
    idle' = [x \in Sessions |->
               IF inst[s] # NoTarget /\ Phys[x] = s THEN 0 ELSE idle[x]]

Older(q, r) ==
    \E i, j \in DOMAIN arrivals' : i < j /\ arrivals'[i] = q /\ arrivals'[j] = r

\* MUTANT of CarriersOf: a runtime client is expected to have its own stream.
AddresseesOf(r, i, tgt) == {x \in Physical : i[x] = tgt[r]}

\* The physical sessions notified about request r: physicalSessionsForTarget.
CarriersOf(r, i, tgt) == {Phys[x] : x \in {y \in Sessions : i[y] = tgt[r]}}

\* MUTANT of Deliverable: the claim of another stream is not looked at.
DeliverableTwice(s, c) ==
    {r \in Requests : status'[r] = "waiting" /\ \E x \in Group(s) : inst'[x] = target'[r]}

\* What claimNextRequestForPhysical would find, one call after the other, for
\* session s once the claims are c.
Deliverable(s, c) ==
    {r \in Requests :
        /\ status'[r] = "waiting"
        /\ c[r] = NoOwner
        /\ \E x \in Group(s) : inst'[x] = target'[r]}

\* MUTANT of Writable: the stream's closed flag is not looked at.
WritableClosed(s, b) == ~b[s]

\* write refuses a stream that is closed, or blocked (the flags b).
Writable(s, b) == stream'[s] # NoGen /\ ~b[s]

\* SseStudioTransport.pump on the streams of the sessions in N, when the claims
\* are c and the blocked flags b: each stream that can write claims and writes
\* its deliverable requests oldest first, until there are no more or a write
\* reports backpressure, which blocks it.  A status frame, when one is due, can
\* report backpressure too: "first" when it is written before the requests,
\* "last" when it is written after them, "none" when no status is due.
Pump(N, c, b, frame) ==
    LET live == {s \in N \cap Physical : Writable(s, b)}
        due == [s \in live |-> Deliverable(s, c)]
    IN \E taken \in SUBSET UNION {due[s] : s \in live}, full \in SUBSET live :
         /\ \A s \in live :
              /\ \A r, q \in due[s] : r \in taken /\ Older(q, r) => q \in taken
              /\ ~(due[s] \subseteq taken) => s \in full
              /\ s \in full => \/ due[s] \cap taken # {}
                               \/ frame = "first"
                               \/ frame = "last" /\ due[s] = {}
         /\ claim' = [r \in Requests |->
                        IF r \in taken
                          THEN LET s == CHOOSE s \in live : r \in due[s]
                               IN <<s, stream'[s]>>
                          ELSE c[r]]
         /\ blocked' = [s \in Physical |-> b[s] \/ s \in full]

\* MUTANT of Released: only the session's own requests, not its clients' or any
\* a place change has moved.
ReleasedOwn(S) ==
    {r \in Waiting : \E s \in S :
        stream[s] # NoGen /\ claim[r] = <<s, stream[s]>> /\ target[r] = inst[s]}

\* MUTANT of Released: a closed stream keeps its claims.
ReleasedNone(S) == {}

\* Closing the streams of the sessions in S releases their claims.
Released(S) ==
    {r \in Waiting : \E s \in S : stream[s] # NoGen /\ claim[r] = <<s, stream[s]>>}

\* MUTANT of Disowned: a closed stream stays a delivery owner.
DisownedLate(s) == owners[s]

\* The delivery owners of s without its open stream.
Disowned(s) == owners[s] \ {stream[s]}

\* MUTANT of HandedOver: replacing the old stream deletes the whole owner set.
HandedOverEmpty(s, g) == IF stream[s] = NoGen THEN owners[s] \cup {g} ELSE {}

\* The delivery owners of s when stream g replaces its open stream, if any.
HandedOver(s, g) == (owners[s] \cup {g}) \ {stream[s]}

Unclaim(R) == [r \in Requests |-> IF r \in R THEN NoOwner ELSE claim[r]]
Finish(R, how) ==
    status' = [r \in Requests |-> IF r \in R THEN how ELSE status[r]]
Forget(R) == [r \in Requests |-> IF r \in R THEN NoTarget ELSE target[r]]

\* MUTANT of WithClients: the logical clients stay.
WithoutClients(S) == S

\* unregisterInstance of a physical session takes its logical clients with it.
WithClients(S) == S \cup {x \in Registered : Phys[x] \in S}
Without(S) == [x \in Sessions |-> IF x \in S THEN NoTarget ELSE inst[x]]

\* MUTANT of Unhandled: a request no stream has claimed may wait for the next peer.
UnhandledDelivered(i) ==
    {r \in Waiting : claim[r] # NoOwner /\ \A x \in Sessions : i[x] # target[r]}

\* Requests no session would handle if the registrations were i; every
\* unregistration rejects all of them, whoever they were meant for.
Unhandled(i) == {r \in Waiting : \A x \in Sessions : i[x] # target[r]}

-----------------------------------------------------------------------------
(* Registration. *)

\* The number of the tuple x gets when it asks for the client number ask.  A
\* client that names its number, client-N, gets that one or none; one that asks
\* as "client", which is 0, keeps its number, else it gets the lowest one unused
\* in the place.
Assigned(x, p, ask, n) ==
    CASE Kind[x] # "client" -> n = 0
      [] Kind[x] = "client" /\ ask # 0 -> n = ask
      [] Kind[x] = "client" /\ ask = 0 /\ inst[x] # NoTarget -> n = inst[x].n
      [] OTHER ->
           LET used == {inst[y].n : y \in {y \in Registered \ {x} : inst[y].place = p}}
           IN n \in (1..MaxClients) \ used /\ \A m \in 1..(n - 1) : m \in used

\* MUTANT of Holders: only a holder that is still active counts.
HoldersActive(x, tuple) == {y \in Sessions \ {x} : inst[y] = tuple /\ Protected(y)}

\* The session, if any, that is registered as tuple already.
Holders(x, tuple) == {y \in Sessions \ {x} : inst[y] = tuple}

\* registerInstance, once the tuple is known.  A session whose tuple is taken is
\* refused unless the holder has no delivery owner and has been quiet for three
\* seconds; then the holder is unregistered first, and its requests are
\* rejected, not handed over.  A session that changed place takes every request
\* for its old place along.  Finally its stream is pumped, and /ready makes it
\* write a status frame.  No stream has to be closed here: a holder without a
\* delivery owner has none (OwnersMatchStreams).
Register(x, tuple) ==
    LET holders == Holders(x, tuple)
        gone == WithClients(holders)
        kept == Without(gone)
        rejected == IF holders = {} THEN {} ELSE Unhandled(kept)
        moved == {r \in Waiting \ rejected :
                    /\ inst[x] # NoTarget
                    /\ target[r].place = inst[x].place}
    IN /\ \A y \in holders : ~Protected(y)
       /\ inst' = [kept EXCEPT ![x] = tuple]
       /\ idle' = [y \in Sessions |-> IF y \in gone \cup {x} THEN 0 ELSE idle[y]]
       /\ Finish(rejected, "disconnected")
       /\ target' = [r \in Requests |->
                       IF r \in moved THEN [target[r] EXCEPT !.place = tuple.place]
                                      ELSE Forget(rejected)[r]]
       /\ UNCHANGED <<owners, stream, arrivals>>
       /\ Pump({Phys[x]}, Unclaim(rejected), blocked, "last")

\* POST /ready, after the topology checks: a logical client is registered by the
\* server peer of its place.
Ready(x, p, ask) ==
    /\ ask # 0 => Phys[x] # x
    /\ Phys[x] # x =>
         inst[Phys[x]] # NoTarget /\ inst[Phys[x]].kind = "server" /\ inst[Phys[x]].place = p
    /\ \E n \in 0..MaxClients :
         /\ Assigned(x, p, ask, n)
         /\ Register(x, [place |-> p, kind |-> Kind[x], n |-> n])

\* unregisterInstance for the sessions in S and their clients: their streams
\* are closed and their claims released, then unhandled requests are rejected.
Unregister(S) ==
    LET gone == WithClients(S)
        freed == Released(gone \cap Physical)
        rejected == Unhandled(Without(gone))
    IN /\ inst' = Without(gone)
       /\ idle' = [x \in Sessions |-> IF x \in gone THEN 0 ELSE idle[x]]
       /\ owners' = [s \in Physical |-> IF s \in gone THEN {} ELSE owners[s]]
       /\ stream' = [s \in Physical |-> IF s \in gone THEN NoGen ELSE stream[s]]
       /\ Finish(rejected, "disconnected")
       /\ target' = Forget(rejected)
       /\ UNCHANGED arrivals
       /\ Pump(UNION {CarriersOf(r, Without(gone), target) : r \in freed},
               Unclaim(freed \cup rejected),
               [s \in Physical |-> blocked[s] /\ s \notin gone], "none")

\* POST /disconnect.
Disconnect(x) ==
    /\ inst[x] # NoTarget
    /\ Unregister({x})

\* POST /unregister-instance-id, and manage_instance closing a place.
UnregisterPlace(p) ==
    /\ \E x \in Registered : inst[x].place = p
    /\ Unregister({x \in Registered : inst[x].place = p})

\* lastActivity grows old.  While a delivery owner protects the group nobody
\* reads it, and losing the owner starts it anew.
Age(x) ==
    /\ inst[x] # NoTarget
    /\ Undelivered(x)
    /\ idle[x] < 2
    /\ idle' = [idle EXCEPT ![x] = @ + 1]
    /\ UNCHANGED <<inst, owners, streams, queue>>

\* The five-second interval: every session quiet for thirty seconds goes.
CleanupStale ==
    LET stale == {x \in Registered : Undelivered(x) /\ idle[x] = 2}
    IN stale # {} /\ Unregister(stale)

-----------------------------------------------------------------------------
(* Event streams. *)

\* GET /events: SseStudioTransport.open.  The new stream becomes a delivery
\* owner before the one it replaces stops being one, takes over the replaced
\* stream's released claims, and is pumped.  Generation numbers are only ever
\* compared for equality, so any generation not in use is a new one.
OpenStream(s, g) ==
    LET freed == Released({s})
    IN /\ s \in Physical
       /\ inst[s] # NoTarget
       /\ stream[s] # NoGen \/ Cardinality(Open) < MaxStreams
       /\ g # stream[s] /\ g \notin owners[s] /\ \A r \in Requests : claim[r] # <<s, g>>
       /\ stream' = [stream EXCEPT ![s] = g]
       /\ owners' = [owners EXCEPT ![s] = HandedOver(s, g)]
       /\ Touch(s)
       /\ UNCHANGED <<inst, arrivals, status, target>>
       /\ Pump({s} \cup UNION {CarriersOf(r, inst, target) : r \in freed},
               Unclaim(freed), [blocked EXCEPT ![s] = FALSE], "first")

\* The socket closes or a write fails: closeStream.
CloseStream(s) ==
    LET freed == Released({s})
    IN /\ s \in Open
       /\ stream' = [stream EXCEPT ![s] = NoGen]
       /\ owners' = [owners EXCEPT ![s] = Disowned(s)]
       /\ Touch(s)
       /\ UNCHANGED <<inst, arrivals, status, target>>
       /\ Pump(UNION {CarriersOf(r, inst, target) : r \in freed},
               Unclaim(freed), [blocked EXCEPT ![s] = FALSE], "none")

\* MUTANT of Drain: what became deliverable while the stream was blocked is not
\* sent on.
DrainOnly(s) ==
    /\ s \in Open /\ blocked[s]
    /\ blocked' = [blocked EXCEPT ![s] = FALSE]
    /\ UNCHANGED <<peers, stream, queue>>

\* The socket drained: onDrain.
Drain(s) ==
    /\ s \in Open /\ blocked[s]
    /\ UNCHANGED <<peers, stream, arrivals, status, target>>
    /\ Pump({s}, claim, [blocked EXCEPT ![s] = FALSE], "first")

\* Every ten seconds a stream that is not blocked shows activity, is pumped,
\* and carries a heartbeat frame.
Heartbeat(s) ==
    /\ s \in Open /\ ~blocked[s]
    /\ Touch(s)
    /\ UNCHANGED <<inst, owners, stream, arrivals, status, target>>
    /\ Pump({s}, claim, blocked, "first")

\* The MCP server turned active or inactive: refreshStatus of every stream.
RefreshStatus ==
    /\ Open # {}
    /\ UNCHANGED <<peers, stream, arrivals, status, target>>
    /\ Pump(Open, claim, blocked, "first")

-----------------------------------------------------------------------------
(* Requests. *)

\* sendRequest, once admitted: queue it and wake the streams of its target.
SendRequest(r, tuple) ==
    /\ status[r] = "new"
    /\ arrivals' = Append(arrivals, r)
    /\ status' = [status EXCEPT ![r] = "waiting"]
    /\ target' = [target EXCEPT ![r] = tuple]
    /\ UNCHANGED <<peers, stream>>
    /\ Pump(CarriersOf(r, inst, target'), claim, blocked, "none")

\* The request leaves pendingRequests with an outcome.
Settle(r, how) ==
    /\ r \in Waiting
    /\ Finish({r}, how)
    /\ target' = Forget({r})
    /\ claim' = Unclaim({r})
    /\ UNCHANGED <<peers, streams, arrivals>>

\* POST /response: settleRequest.  A request that is not pending is left alone.
Respond(r) == Settle(r, "answered")

\* The request's own timer, or cleanupOldRequests should the timer be late.
TimeOut(r) ==
    Settle(r, IF claim[r] = NoOwner THEN "timeout" ELSE "timeoutAfterDelivery")

\* shutdown or a crash of the primary: its callers get an error, and the
\* process that binds the port next starts from an empty BridgeService.
Restart ==
    /\ Registered # {} \/ Waiting # {}
    /\ inst' = [x \in Sessions |-> NoTarget]
    /\ idle' = [x \in Sessions |-> 0]
    /\ owners' = [s \in Physical |-> {}]
    /\ stream' = [s \in Physical |-> NoGen]
    /\ blocked' = [s \in Physical |-> FALSE]
    /\ Finish(Waiting, "closed")
    /\ target' = Forget(Waiting)
    /\ claim' = Unclaim(Waiting)
    /\ UNCHANGED arrivals

-----------------------------------------------------------------------------
Next ==
    \/ \E x \in Sessions, p \in Places, ask \in 0..MaxClients : Ready(x, p, ask)
    \/ \E x \in Sessions : Disconnect(x)
    \/ \E p \in Places : UnregisterPlace(p)
    \/ \E x \in Sessions : Age(x)
    \/ CleanupStale
    \/ \E s \in Physical, g \in Gens : OpenStream(s, g)
    \/ \E s \in Physical : CloseStream(s)
    \/ \E s \in Physical : Drain(s)
    \/ \E s \in Physical : Heartbeat(s)
    \/ RefreshStatus
    \/ \E r \in Requests, tuple \in Targets : SendRequest(r, tuple)
    \/ \E r \in Requests : Respond(r)
    \/ \E r \in Requests : TimeOut(r)
    \/ Restart

Spec == Init /\ [][Next]_vars

-----------------------------------------------------------------------------
(* Safety. *)

\* Routing is by (instanceId, role): no two sessions ever hold the same tuple
\* (registerInstance), whatever order registrations, takeovers and place
\* changes come in.
OneSessionPerTarget ==
    \A x, y \in Registered : inst[x] = inst[y] => x = y

\* A delivery owner stands for an open stream and for nothing else, so a live
\* peer is never taken over or cleaned up and a dead one is not protected for
\* ever (setDeliveryActive against open, closeStream and unregisterInstance).
OwnersMatchStreams ==
    \A s \in Physical : owners[s] = {stream[s]} \ {NoGen}

\* A claim is held by a stream that is open now.  A claim left behind by a
\* closed stream would never be delivered again and only time out.
NoStrandedClaim ==
    \A r \in Requests : claim[r] # NoOwner =>
        r \in Waiting /\ stream[claim[r][1]] = claim[r][2]

\* A stream is open only for a session that is registered, and a logical client
\* is registered only while the server peer that carries its events is.
CarriedByRegistered ==
    /\ \A s \in Open : inst[s] # NoTarget
    /\ \A x \in Registered : inst[Phys[x]] # NoTarget

-----------------------------------------------------------------------------
(* What a step may never do. *)

\* A request a stream can take but that is not claimed waits for the next
\* heartbeat.
Overlooked(r) ==
    /\ r \in Waiting /\ claim[r] = NoOwner
    /\ \E x \in Registered :
         inst[x] = target[r] /\ Phys[x] \in Open /\ ~blocked[Phys[x]]

\* No lost wakeup: whatever makes a request deliverable also pumps the stream
\* that can take it.  The one exception is a request that a place change moved
\* onto another session's tuple; the heartbeat finds that one.
NoLostWakeup ==
    [][\A r \in Requests :
         Overlooked(r)' =>
            \/ Overlooked(r)
            \/ r \in Waiting /\ target'[r].place # target[r].place]_vars

\* A delivered request is not handed to a second stream while the stream that
\* claimed it stays open.
NoSecondDelivery ==
    [][\A r \in Waiting' :
         claim[r] # NoOwner /\ claim'[r] # claim[r] => stream'[claim[r][1]] # claim[r][2]]_vars

\* A session that takes over a tuple does not inherit the requests addressed to
\* the session it displaced (the comment in registerInstance).
TakeoverInheritsNothing ==
    [][\A x, y \in Sessions :
         (x # y /\ inst[x] # NoTarget /\ inst'[y] = inst[x] /\ inst[y] # inst[x]) =>
            \A r \in Waiting : target[r] = inst[x] => status'[r] = "disconnected"]_vars
=============================================================================
