------------------------ MODULE ClientRegistrations ------------------------
(***************************************************************************)
(* ClientBroker in a play server's plugin: it registers every player's     *)
(* runtime client with the bridge as a logical session behind the server's *)
(* own, again whenever the server has registered anew, and unregisters it  *)
(* when the player leaves.  Every registration is a coroutine that waits   *)
(* for the place's name and then for the answer of POST /ready, while      *)
(* players come and go and the server refreshes.                           *)
(*                                                                         *)
(* A client's session id is made for one entry and never used again, so    *)
(* the client sessions stand for the entries.  Of the server's own event   *)
(* stream this module keeps what the clients depend on; StudioLink has the *)
(* rest.                                                                   *)
(***************************************************************************)
EXTENDS StudioBridge

CONSTANTS
    MaxCalls,     \* bound: registrations in flight at a time
    MaxFaults,    \* bound: failures per behaviour
    Leavers,      \* bound: the clients whose players may leave
    NoCall

ASSUME BrokerAssumption == MaxCalls \in Nat \ {0} /\ MaxFaults \in Nat

Servers == {s \in Physical : Kind[s] = "server"}
Clients == {x \in Sessions : Kind[x] = "client"}

\* Only a play server's plugin is a broker.
ASSUME ClientsAssumption == \A x \in Clients : Phys[x] \in Servers

VARIABLES
    link,         \* StudioEventStream of the server: "off", "taken" (/ready answered
                  \* but not read), "dial" (/events requested), "open"
    place,        \* the instance id of the server's data model
    entry,        \* "none", "held" (in proxyByPlayer), "left" (removed from it)
    role,         \* ProxyEntry.role: n for "client-n", 0 for "client"
    registered,   \* entries with registered = true
    registering,  \* entries with registering = true
    retry,        \* entries with a retry scheduled in their generation
    calls,        \* coroutines of registerProxyEntry that wait
    late,         \* /ready calls on their way that nothing waits for any more
    disconnect,   \* pendingProxyDisconnects: "none", "posted", "done" (the bridge has
                  \* handled it) or "delayed"
    faults

entries == <<entry, role, registered, registering, retry>>
broker == <<link, place, entries, calls, late, disconnect>>
clientVars == <<vars, broker, faults>>

\* A registration waits for its payload, for the bridge, or to read the reply:
\* a failure, or the number got.  It is fresh while the entry's generation is
\* the one it began in.
Call == [client : Clients, ask : 0..MaxClients, place : Places, fresh : BOOLEAN,
         at : {"payload", "posted", "failed", "taken"}, got : 0..MaxClients]

ASSUME CallAssumption == NoCall \notin Call

ClientTypeOK ==
    /\ link \in [Servers -> {"off", "taken", "dial", "open"}]
    /\ place \in [Servers -> Places]
    /\ entry \in [Clients -> {"none", "held", "left"}]
    /\ role \in [Clients -> 0..MaxClients]
    /\ \A x \in registered : role[x] # 0
    /\ registered \subseteq Clients /\ registering \subseteq Clients /\ retry \subseteq Clients
    /\ calls \in [1..MaxCalls -> Call \cup {NoCall}]
    /\ late \subseteq [client : Clients, ask : 0..MaxClients, place : Places]
    /\ disconnect \in [Clients -> {"none", "posted", "done", "delayed"}]
    /\ faults \in 0..MaxFaults

ClientInit ==
    /\ Init
    /\ link = [s \in Servers |-> "off"]
    /\ place \in [Servers -> Places]
    /\ entry = [x \in Clients |-> "none"]
    /\ role = [x \in Clients |-> 0]
    /\ registered = {} /\ registering = {} /\ retry = {}
    /\ calls = [i \in 1..MaxCalls |-> NoCall]
    /\ late = {}
    /\ disconnect = [x \in Clients |-> "none"]
    /\ faults = 0

-----------------------------------------------------------------------------
Fault == faults < MaxFaults /\ faults' = faults + 1

Held(s) == {x \in Clients : Phys[x] = s /\ entry[x] = "held"}
Flying(c) == {i \in DOMAIN c : c[i] # NoCall}

\* Among the coroutines c, each client in X begins one more (registerProxyEntry
\* up to its first wait), in a slot that is free.
Begins(X, c) ==
    \E slot \in [X -> DOMAIN c \ Flying(c)] :
        /\ \A x, y \in X : x # y => slot[x] # slot[y]
        /\ \A x \in X, j \in DOMAIN c \ Flying(c) : j < slot[x] => \E y \in X : slot[y] = j
        /\ calls' = [i \in DOMAIN c |->
                       IF \E x \in X : slot[x] = i
                         THEN LET x == CHOOSE x \in X : slot[x] = i
                              IN [client |-> x, ask |-> role[x], place |-> place[Phys[x]],
                                  fresh |-> TRUE, at |-> "payload", got |-> 0]
                         ELSE c[i]]

\* MUTANT of Stale: the generation is not raised.
StaleNever(X) == calls

\* The coroutines once the generation of the entries in X has been raised.
Stale(X) ==
    [i \in DOMAIN calls |->
       IF i \in Flying(calls) /\ calls[i].client \in X
         THEN [calls[i] EXCEPT !.fresh = FALSE] ELSE calls[i]]

Freed(i) == [calls EXCEPT ![i] = NoCall]

\* queueProxyDisconnect: a disconnect that is pending already is not repeated.
Queued(X) ==
    disconnect' = [x \in Clients |->
                     IF x \in X /\ disconnect[x] = "none" THEN "posted" ELSE disconnect[x]]

\* MUTANT of Unconfirmed: what was registered with the old bridge still counts.
UnconfirmedNone(s) == registered

\* The registered entries once those of the server s have to register again.
Unconfirmed(s) == registered \ Held(s)

\* MUTANT of Rescheduled: a failed registration is not tried again.
RescheduledNone(x) == retry

\* failProxyRegistration ends in scheduleProxyRetry.
Rescheduled(x) == retry \cup {x}

\* MUTANT of Numbered: the assigned role is not remembered.
NumberedNever(x, n) == role

\* The roles once x has been assigned client-n.
Numbered(x, n) == [role EXCEPT ![x] = n]

-----------------------------------------------------------------------------
(* The server's own connection. *)

\* The bridge takes the server's registration.
ServerRegisters(s) ==
    /\ link[s] = "off"
    /\ Ready(s, place[s], 0)
    /\ link' = [link EXCEPT ![s] = "taken"]
    /\ UNCHANGED <<place, entries, calls, late, disconnect, faults>>

\* The plugin reads the answer: handleReady refreshes every client.
HearsReady(s) ==
    /\ link[s] = "taken"
    /\ link' = [link EXCEPT ![s] = "dial"]
    /\ registered' = Unconfirmed(s)
    /\ registering' = registering \cup Held(s)
    /\ retry' = retry \ Held(s)
    /\ Begins(Held(s), Stale(Held(s)))
    /\ UNCHANGED <<vars, place, entry, role, late, disconnect, faults>>

ServerOpens(s) ==
    /\ link[s] = "dial"
    /\ \E g \in Gens : OpenStream(s, g)
    /\ link' = [link EXCEPT ![s] = "open"]
    /\ UNCHANGED <<place, entries, calls, late, disconnect, faults>>

\* The stream is refused, or the bridge has closed it.
ServerSeesClose(s) ==
    /\ \/ link[s] = "dial" /\ inst[s] = NoTarget
       \/ link[s] = "open" /\ s \notin Open
    /\ link' = [link EXCEPT ![s] = "off"]
    /\ UNCHANGED <<vars, place, entries, calls, late, disconnect, faults>>

\* Its connection breaks, an answer is lost, or the place gets another id.
ServerLoses(s, p) ==
    /\ Fault
    /\ link[s] # "off" \/ p # place[s]
    /\ link' = [link EXCEPT ![s] = "off"]
    /\ place' = [place EXCEPT ![s] = p]
    /\ UNCHANGED <<vars, entries, calls, late, disconnect>>

\* The bridge notices that nobody listens to the stream.
SocketCloses(s) ==
    /\ link[s] # "open"
    /\ CloseStream(s)
    /\ UNCHANGED <<broker, faults>>

\* The bridge restarts, or the place is unregistered.
BridgeFails ==
    /\ Fault
    /\ Restart \/ \E p \in Places : UnregisterPlace(p)
    /\ UNCHANGED broker

\* The clients of s whose registration the bridge has taken since HearsReady(s).
Renewed(s) ==
    Held(s) \cap (registered \cup
        {calls[i].client : i \in {j \in Flying(calls) : calls[j].fresh /\ calls[j].at = "taken"}})

\* Time passes.  A client renewed since the server registered was active after
\* it, and is never the older of the two.
Ages(s, X) ==
    /\ X # {} /\ X \subseteq Group(s)
    /\ Undelivered(s)
    /\ \A x \in X : inst[x] # NoTarget /\ idle[x] < 2
    /\ idle' = [x \in Sessions |-> IF x \in X THEN idle[x] + 1 ELSE idle[x]]
    /\ link[s] = "dial" =>
         \A x \in Renewed(s) : idle'[x] <= idle'[s]
    /\ UNCHANGED <<inst, owners, streams, queue, broker, faults>>

Cleans == CleanupStale /\ UNCHANGED <<broker, faults>>

-----------------------------------------------------------------------------
(* Players. *)

\* registerProxy.
PlayerJoins(x) ==
    /\ entry[x] = "none"
    /\ entry' = [entry EXCEPT ![x] = "held"]
    /\ registering' = registering \cup {x}
    /\ Begins({x}, calls)
    /\ UNCHANGED <<vars, link, place, role, registered, retry, late, disconnect, faults>>

\* unregisterProxy of the entries in X: a player leaves, or the playtest ends.
Leave(X) ==
    /\ entry' = [x \in Clients |-> IF x \in X THEN "left" ELSE entry[x]]
    /\ retry' = retry \ X
    /\ calls' = Stale(X)
    /\ Queued(X)
    /\ UNCHANGED <<vars, link, place, role, registered, registering, late, faults>>

PlayerLeaves(x) == x \in Leavers /\ entry[x] = "held" /\ Leave({x})
PlaytestEnds(s) == Held(s) # {} /\ Held(s) \subseteq Leavers /\ Leave(Held(s))

-----------------------------------------------------------------------------
(* Registrations. *)

\* The coroutine i ends without a result, because its entry has left or has a
\* new generation; in a new generation that nobody registers it begins again.
Superseded(i) ==
    LET x == calls[i].client
        again == entry[x] = "held" /\ x \notin registering
    IN /\ registering' = IF again THEN registering \cup {x} ELSE registering
       /\ IF again THEN Begins({x}, Freed(i)) ELSE calls' = Freed(i)

\* createReadyPayload returns; the coroutine posts its payload if it is fresh.
PayloadReady(i) ==
    /\ i \in Flying(calls) /\ calls[i].at = "payload"
    /\ IF calls[i].fresh
         THEN calls' = [calls EXCEPT ![i].at = "posted"] /\ UNCHANGED registering
         ELSE Superseded(i)
    /\ UNCHANGED <<vars, link, place, entry, role, registered, retry, late, disconnect, faults>>

\* The bridge answers with the client's number.
Taken(i) ==
    LET c == calls[i]
    IN /\ i \in Flying(calls) /\ c.at = "posted"
       /\ Ready(c.client, c.place, c.ask)
       /\ calls' = [calls EXCEPT ![i] = [c EXCEPT !.at = "taken", !.got = inst'[c.client].n]]
       /\ UNCHANGED <<link, place, entries, late, disconnect, faults>>

\* Or it refuses: the server is not registered for the place, or another
\* session holds the number.
Refused(i) ==
    LET c == calls[i]
        x == c.client
        server == inst[Phys[x]]
    IN /\ i \in Flying(calls) /\ c.at = "posted"
       /\ \/ server = NoTarget
          \/ server # NoTarget /\ server.place # c.place
          \/ \E n \in 1..MaxClients :
               /\ Assigned(x, c.place, c.ask, n)
               /\ \E y \in Holders(x, [place |-> c.place, kind |-> "client", n |-> n]) : Protected(y)
       /\ calls' = [calls EXCEPT ![i].at = "failed"]
       /\ UNCHANGED <<vars, link, place, entries, late, disconnect, faults>>

\* The call fails: it never arrives, arrives late, or its answer is lost.
CallLost(i) ==
    /\ i \in Flying(calls) /\ calls[i].at \in {"posted", "taken"}
    /\ Fault
    /\ calls' = [calls EXCEPT ![i] = [@ EXCEPT !.at = "failed", !.got = 0]]
    /\ \/ UNCHANGED late
       \/ /\ calls[i].at = "posted"
          /\ late' = late \cup {[client |-> calls[i].client, ask |-> calls[i].ask,
                                 place |-> calls[i].place]}
    /\ UNCHANGED <<vars, link, place, entries, disconnect>>

LateReady(c) ==
    /\ c \in late
    /\ late' = late \ {c}
    /\ Ready(c.client, c.place, c.ask)
    /\ UNCHANGED <<link, place, entries, calls, disconnect, faults>>

\* The coroutine reads the reply.  Success for an entry that has left is undone.
Returns(i) ==
    LET c == calls[i]
        x == c.client
        taken == c.at = "taken"
    IN /\ i \in Flying(calls) /\ c.at \in {"failed", "taken"}
       /\ IF c.fresh /\ entry[x] = "held"
            THEN /\ calls' = Freed(i)
                 /\ registering' = registering \ {x}
                 /\ registered' = IF taken THEN registered \cup {x} ELSE registered \ {x}
                 /\ retry' = IF taken THEN retry ELSE Rescheduled(x)
                 /\ role' = IF taken THEN Numbered(x, c.got) ELSE role
            ELSE Superseded(i) /\ UNCHANGED <<registered, retry, role>>
       /\ Queued(IF taken /\ entry[x] = "left" THEN {x} ELSE {})
       /\ UNCHANGED <<vars, link, place, entry, late, faults>>

\* An entry the retry timer may register: scheduleProxyRetry's guard.
Idle(x) == entry[x] = "held" /\ x \notin registered /\ x \notin registering

RetryFires(x) ==
    /\ x \in retry
    /\ retry' = retry \ {x}
    /\ registering' = IF Idle(x) THEN registering \cup {x} ELSE registering
    /\ IF Idle(x) THEN Begins({x}, calls) ELSE UNCHANGED calls
    /\ UNCHANGED <<vars, link, place, entry, role, registered, late, disconnect, faults>>

-----------------------------------------------------------------------------
(* deliverProxyDisconnect. *)

Disconnects(x) ==
    /\ disconnect[x] = "posted"
    /\ disconnect' = [disconnect EXCEPT ![x] = "done"]
    /\ IF inst[x] # NoTarget THEN Disconnect(x) ELSE UNCHANGED vars
    /\ UNCHANGED <<link, place, entries, calls, late, faults>>

DisconnectReturns(x) ==
    /\ disconnect[x] = "done"
    /\ disconnect' = [disconnect EXCEPT ![x] = "none"]
    /\ UNCHANGED <<vars, link, place, entries, calls, late, faults>>

DisconnectLost(x) ==
    /\ disconnect[x] \in {"posted", "done"}
    /\ Fault
    /\ disconnect' = [disconnect EXCEPT ![x] = "delayed"]
    /\ UNCHANGED <<vars, link, place, entries, calls, late>>

DisconnectAgain(x) ==
    /\ disconnect[x] = "delayed"
    /\ disconnect' = [disconnect EXCEPT ![x] = "posted"]
    /\ UNCHANGED <<vars, link, place, entries, calls, late, faults>>

-----------------------------------------------------------------------------
ClientNext ==
    \/ \E s \in Servers :
         \/ ServerRegisters(s) \/ HearsReady(s) \/ ServerOpens(s) \/ ServerSeesClose(s)
         \/ SocketCloses(s) \/ PlaytestEnds(s)
         \/ \E p \in Places : ServerLoses(s, p)
         \/ \E X \in SUBSET Group(s) : Ages(s, X)
    \/ \E x \in Clients :
         \/ PlayerJoins(x) \/ PlayerLeaves(x) \/ RetryFires(x)
         \/ Disconnects(x) \/ DisconnectReturns(x) \/ DisconnectLost(x) \/ DisconnectAgain(x)
    \/ \E i \in 1..MaxCalls :
         PayloadReady(i) \/ Taken(i) \/ Refused(i) \/ CallLost(i) \/ Returns(i)
    \/ \E c \in late : LateReady(c)
    \/ BridgeFails \/ Cleans

ClientSpec == ClientInit /\ [][ClientNext]_clientVars

-----------------------------------------------------------------------------
(* Safety. *)

\* A player has one registration loop (registerProxyEntry): an entry that says it is being registered
\* has exactly one coroutine of its generation, and no other entry has any,
\* however refreshes, retries and superseded coroutines overlap.
OneLoop ==
    \A x \in Clients : entry[x] = "held" =>
        Cardinality({i \in Flying(calls) : calls[i].client = x /\ calls[i].fresh})
            = IF x \in registering THEN 1 ELSE 0

\* No entry is forgotten: it is registered, being registered, or will be tried
\* again (registerProxyEntry ends in one of the three on every path).
NeverForgotten ==
    \A x \in Clients : entry[x] = "held" => x \in registered \cup registering \cup retry

\* While the server's stream is open the bridge knows every client the broker
\* takes for registered, by the number the broker has for it: nothing else would
\* make the broker register it again (refreshAllLogicalRegistrations runs only
\* when the server itself registers).  It holds for one player.  With two, a
\* registration that arrives for a player who has just left can displace the
\* other before the server's stream protects it.
KnownWhileOpen ==
    \A x \in registered :
        (entry[x] = "held" /\ link[Phys[x]] = "open" /\ Phys[x] \in Open) =>
            inst[x] # NoTarget /\ inst[x].n = role[x]

-----------------------------------------------------------------------------
(* Liveness.  Calls are answered, timers fire, sockets report their end.      *)
(* In the end an attempt of the server to connect takes less than the thirty  *)
(* seconds after which the bridge forgets a silent session (InTime).  Nothing *)
(* is assumed of players or failures.                                         *)

InTime ==
    \A s \in Servers : <>[](link[s] \in {"taken", "dial"} => inst[s] # NoTarget)

ClientFairness ==
    /\ \A s \in Servers :
         /\ WF_clientVars(ServerRegisters(s)) /\ WF_clientVars(HearsReady(s))
         /\ WF_clientVars(ServerOpens(s)) /\ WF_clientVars(ServerSeesClose(s))
         /\ WF_clientVars(SocketCloses(s))
    /\ \A i \in 1..MaxCalls :
         /\ WF_clientVars(PayloadReady(i)) /\ WF_clientVars(Taken(i) \/ Refused(i))
         /\ WF_clientVars(Returns(i))
    /\ \A x \in Clients : WF_clientVars(RetryFires(x))

FairClientSpec == ClientSpec /\ ClientFairness /\ InTime

\* A playtest's peers are the server and a client-N for each player that joins
\* (INSTALLATION.md): a player who stays becomes known to the bridge.
EachPlayerRegisters ==
    \A x \in Clients : entry[x] = "held" ~> entry[x] # "held" \/ inst[x] # NoTarget
=============================================================================
