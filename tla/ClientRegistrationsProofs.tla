--------------------- MODULE ClientRegistrationsProofs ---------------------
(***************************************************************************)
(* Proofs about ClientRegistrations, for any number of play servers,       *)
(* players, calls in flight and failures.                                  *)
(***************************************************************************)
EXTENDS ClientRegistrations, StudioBridgeProofs, FiniteSetTheorems

-----------------------------------------------------------------------------
(* Types. *)

LinkTyped ==
    /\ link \in [Servers -> {"off", "taken", "dial", "open"}]
    /\ place \in [Servers -> Places]
    /\ disconnect \in [Clients -> {"none", "posted", "done", "delayed"}]
    /\ faults \in 0..MaxFaults

EntriesTyped ==
    /\ entry \in [Clients -> {"none", "held", "left"}]
    /\ role \in [Clients -> 0..MaxClients]
    /\ registered \subseteq Clients /\ registering \subseteq Clients /\ retry \subseteq Clients
    /\ \A x \in registered : role[x] # 0

\* Coroutines and late calls; a registration that was taken got a number.
CallsTyped ==
    /\ calls \in [1..MaxCalls -> Call \cup {NoCall}]
    /\ late \subseteq [client : Clients, ask : 0..MaxClients, place : Places]
    /\ \A i \in Flying(calls) : calls[i].at = "taken" => calls[i].got # 0

\* With what is known of the bridge.
BrokerTyped == Inv /\ LinkTyped /\ EntriesTyped /\ CallsTyped

\* A client's server.
LEMMA ServerOf == \A x \in Clients : x \in Sessions /\ Phys[x] \in Sessions /\ Phys[x] \in Physical
BY SessionAssumption DEF Clients, Physical

LEMMA FlyingCall ==
    ASSUME CallsTyped, NEW i \in Flying(calls)
    PROVE  i \in 1..MaxCalls /\ calls[i] \in Call
BY DEF CallsTyped, Flying

LEMMA CallFields ==
    ASSUME NEW c \in Call
    PROVE  /\ c.client \in Clients /\ c.ask \in 0..MaxClients /\ c.place \in Places
           /\ c.fresh \in BOOLEAN /\ c.got \in 0..MaxClients
BY DEF Call

\* The bridge's number for a client it has just registered.
LEMMA ReadyNumbers ==
    ASSUME NEW x \in Clients, NEW p \in Places, NEW ask \in 0..MaxClients, Ready(x, p, ask), Inv
    PROVE  inst'[x].n \in 1..MaxClients
<1>1. x \in Sessions /\ Kind[x] = "client"
  BY DEF Clients
<1>2. PICK n \in 0..MaxClients :
        Assigned(x, p, ask, n) /\ Register(x, [place |-> p, kind |-> Kind[x], n |-> n])
  BY Zenon DEF Ready
<1> DEFINE tuple == [place |-> p, kind |-> Kind[x], n |-> n]
<1>3. tuple \in Targets
  BY <1>1, <1>2, AssignedTarget DEF Inv
<1>4. inst' = [Without(WithClients(Holders(x, tuple))) EXCEPT ![x] = tuple]
  BY <1>2, Zenon DEF Register
<1>5. inst'[x] = tuple
  BY <1>1, <1>4 DEF Without
<1>6. tuple.n \in 1..MaxClients
  BY <1>1, <1>3 DEF Targets
<1> QED BY <1>5, <1>6

-----------------------------------------------------------------------------
(* The bridge under its broker. *)

\* Sessions that grow older touch nothing the bridge's invariant is about.
LEMMA AgesSafe ==
    ASSUME Inv, NEW s \in Servers, NEW X \in SUBSET Group(s), Ages(s, X)
    PROVE  Inv'
<1>1. UNCHANGED <<inst, owners, stream, blocked, arrivals, status, target, claim>>
  BY DEF Ages, streams, queue
<1>2. idle' \in [Sessions -> 0..2]
  BY DEF Ages, Inv, Typed, TypeOK
<1> QED
  BY <1>1, <1>2 DEF Inv, Typed, TypeOK, KindsMatch, Registered, WaitingAddressed, Waiting,
     OneSessionPerTarget, OwnersMatchStreams, NoStrandedClaim, CarriedByRegistered, Open

\* Every other step of the broker is one of the bridge, or none of its.
LEMMA BridgeKept ==
    ASSUME BrokerTyped, [ClientNext]_clientVars
    PROVE  Inv'
<1> USE DEF BrokerTyped
<1>1. SUFFICES ASSUME ~\E s \in Servers : \E X \in SUBSET Group(s) : Ages(s, X)
               PROVE  [Next]_vars
  BY AgesSafe, NextSafe
<1>2. 0 \in 0..MaxClients
  BY BridgeAssumption
<1>3. ASSUME NEW s \in Servers, ServerRegisters(s) \/ ServerOpens(s) \/ SocketCloses(s)
      PROVE  Next
  <2>1. s \in Physical /\ s \in Sessions
    BY DEF Servers, Physical
  <2>2. place[s] \in Places
    BY DEF LinkTyped
  <2> QED BY <1>2, <1>3, <2>1, <2>2 DEF ServerRegisters, ServerOpens, SocketCloses, Next
<1>4. ASSUME NEW i \in 1..MaxCalls, Taken(i)
      PROVE  Next
  <2>1. calls[i] \in Call
    BY <1>4, FlyingCall DEF Taken
  <2>2. /\ calls[i].client \in Sessions /\ calls[i].place \in Places /\ calls[i].ask \in 0..MaxClients
        /\ Ready(calls[i].client, calls[i].place, calls[i].ask)
    BY <1>4, <2>1, CallFields, ServerOf DEF Taken
  <2> QED BY <2>2 DEF Next
<1>5. ASSUME NEW c \in late, LateReady(c)
      PROVE  Next
  <2>1. c.client \in Sessions /\ c.place \in Places /\ c.ask \in 0..MaxClients
    BY ServerOf DEF CallsTyped
  <2> QED BY <1>5, <2>1 DEF LateReady, Next
<1>6. ASSUME NEW x \in Clients, Disconnects(x)
      PROVE  Next \/ UNCHANGED vars
  BY <1>6, ServerOf DEF Disconnects, Next
<1>7. CASE BridgeFails
  BY <1>7 DEF BridgeFails, Next
<1>8. CASE Cleans
  BY <1>8 DEF Cleans, Next
<1> QED
  BY <1>1, <1>3, <1>4, <1>5, <1>6, <1>7, <1>8 DEF ClientNext, clientVars, HearsReady, ServerSeesClose,
     ServerLoses, PlaytestEnds, PlayerJoins, PlayerLeaves, Leave, RetryFires, DisconnectReturns,
     DisconnectLost, DisconnectAgain, PayloadReady, Refused, CallLost, Returns

-----------------------------------------------------------------------------
(* Coroutines. *)

\* The coroutines among c that work for x in the present generation of its entry.
Fresh(c, x) == {i \in Flying(c) : c[i].client = x /\ c[i].fresh}

\* Each client in X gets a coroutine in a slot of its own; the others stay.
LEMMA BeginsEffect ==
    ASSUME LinkTyped, EntriesTyped, NEW X \in SUBSET Clients,
           NEW c \in [1..MaxCalls -> Call \cup {NoCall}], Begins(X, c)
    PROVE  /\ calls' \in [1..MaxCalls -> Call \cup {NoCall}]
           /\ \A x \in X : \E i \in 1..MaxCalls : Fresh(calls', x) = Fresh(c, x) \cup {i}
           /\ \A x \in Clients \ X : Fresh(calls', x) = Fresh(c, x)
           /\ \A i \in Flying(calls') : calls'[i] = c[i] \/ calls'[i].at = "payload"
<1> USE CallAssumption
<1> DEFINE first(x) == [client |-> x, ask |-> role[x], place |-> place[Phys[x]],
                        fresh |-> TRUE, at |-> "payload", got |-> 0]
<1>1. PICK slot \in [X -> DOMAIN c \ Flying(c)] :
        /\ \A x, y \in X : x # y => slot[x] # slot[y]
        /\ calls' = [i \in DOMAIN c |->
                       IF \E x \in X : slot[x] = i
                         THEN first(CHOOSE x \in X : slot[x] = i) ELSE c[i]]
  BY DEF Begins
<1>2. \A x \in X : first(x) \in Call
  <2>1. ASSUME NEW x \in X
        PROVE  place[Phys[x]] \in Places /\ role[x] \in 0..MaxClients
    <3>1. Phys[x] \in Servers
      BY ClientsAssumption
    <3> QED BY <3>1 DEF LinkTyped, EntriesTyped
  <2> QED BY <2>1, BridgeAssumption DEF Call
<1>3. \A x \in X : first(x).client = x /\ first(x).fresh /\ first(x).at = "payload"
  OBVIOUS
<1> HIDE DEF first
<1>4. \A x \in X : calls'[slot[x]] = first(x) /\ slot[x] \in 1..MaxCalls /\ slot[x] \notin Flying(c)
  <2> TAKE x \in X
  <2>1. slot[x] \in DOMAIN c \ Flying(c) /\ DOMAIN c = 1..MaxCalls
    OBVIOUS
  <2>2. (CHOOSE y \in X : slot[y] = slot[x]) = x
    BY <1>1
  <2> QED BY <1>1, <2>1, <2>2
<1>5. \A i \in 1..MaxCalls : calls'[i] = c[i] \/ \E x \in X : i = slot[x]
  BY <1>1
<1>6. DOMAIN calls' = 1..MaxCalls
  BY <1>1
<1>7. \A i \in 1..MaxCalls : calls'[i] \in Call \cup {NoCall}
  BY <1>2, <1>4, <1>5
<1>8. \A x \in X : Fresh(calls', x) = Fresh(c, x) \cup {slot[x]}
  <2> TAKE x \in X
  <2>1. slot[x] \in Fresh(calls', x)
    BY <1>2, <1>3, <1>4, <1>6 DEF Fresh, Flying
  <2>2. \A i \in 1..MaxCalls : i # slot[x] => (i \in Fresh(calls', x) <=> i \in Fresh(c, x))
    <3> TAKE i \in 1..MaxCalls
    <3>1. CASE calls'[i] = c[i]
      BY <1>6, <3>1 DEF Fresh, Flying
    <3>2. ASSUME NEW y \in X, i = slot[y], i # slot[x]
          PROVE  i \notin Fresh(calls', x) /\ i \notin Fresh(c, x)
      BY <1>3, <1>4, <3>2 DEF Fresh
    <3> QED BY <1>5, <3>1, <3>2
  <2>3. Fresh(calls', x) \subseteq 1..MaxCalls /\ Fresh(c, x) \subseteq 1..MaxCalls
    BY <1>6 DEF Fresh, Flying
  <2> QED BY <2>1, <2>2, <2>3
<1>9. \A x \in Clients \ X : Fresh(calls', x) = Fresh(c, x)
  <2> TAKE x \in Clients \ X
  <2>1. \A i \in 1..MaxCalls : i \in Fresh(calls', x) <=> i \in Fresh(c, x)
    <3> TAKE i \in 1..MaxCalls
    <3>1. CASE calls'[i] = c[i]
      BY <1>6, <3>1 DEF Fresh, Flying
    <3>2. ASSUME NEW y \in X, i = slot[y]
          PROVE  i \notin Fresh(calls', x) /\ i \notin Fresh(c, x)
      BY <1>3, <1>4, <3>2 DEF Fresh
    <3> QED BY <1>5, <3>1, <3>2
  <2>2. Fresh(calls', x) \subseteq 1..MaxCalls /\ Fresh(c, x) \subseteq 1..MaxCalls
    BY <1>6 DEF Fresh, Flying
  <2> QED BY <2>1, <2>2
<1>10. \A i \in Flying(calls') : calls'[i] = c[i] \/ calls'[i].at = "payload"
  BY <1>3, <1>4, <1>5, <1>6 DEF Flying
<1>11. calls' = [i \in 1..MaxCalls |-> calls'[i]]
  BY <1>1
<1> QED BY <1>4, <1>7, <1>8, <1>9, <1>10, <1>11

LEMMA StaleEffect ==
    ASSUME CallsTyped, NEW X
    PROVE  /\ Stale(X) \in [1..MaxCalls -> Call \cup {NoCall}]
           /\ \A x \in X : Fresh(Stale(X), x) = {}
           /\ \A x : x \notin X => Fresh(Stale(X), x) = Fresh(calls, x)
           /\ \A i \in Flying(Stale(X)) : i \in Flying(calls) /\ Stale(X)[i].at = calls[i].at
                                           /\ Stale(X)[i].got = calls[i].got
<1> USE CallAssumption
<1>1. \A c \in Call :
        LET d == [c EXCEPT !.fresh = FALSE]
        IN d \in Call /\ d.client = c.client /\ d.fresh = FALSE /\ d.at = c.at /\ d.got = c.got
  BY DEF Call
<1>2. \A i \in 1..MaxCalls :
        Stale(X)[i] = IF i \in Flying(calls) /\ calls[i].client \in X
                        THEN [calls[i] EXCEPT !.fresh = FALSE] ELSE calls[i]
  BY DEF Stale, CallsTyped
<1>3. DOMAIN Stale(X) = 1..MaxCalls /\ DOMAIN calls = 1..MaxCalls
  BY DEF Stale, CallsTyped
<1>4. \A i \in 1..MaxCalls : calls[i] \in Call \cup {NoCall} /\ (i \in Flying(calls) <=> calls[i] # NoCall)
  BY DEF CallsTyped, Flying
<1>5. ASSUME NEW i \in 1..MaxCalls
      PROVE  /\ Stale(X)[i] \in Call \cup {NoCall}
             /\ i \in Flying(Stale(X)) <=> i \in Flying(calls)
  BY <1>1, <1>2, <1>3, <1>4 DEF Flying
<1>6. ASSUME NEW i \in Flying(calls)
      PROVE  /\ Stale(X)[i].client = calls[i].client
             /\ Stale(X)[i].at = calls[i].at /\ Stale(X)[i].got = calls[i].got
             /\ Stale(X)[i].fresh = IF calls[i].client \in X THEN FALSE ELSE calls[i].fresh
  <2>1. i \in 1..MaxCalls /\ calls[i] \in Call
    BY FlyingCall
  <2> QED BY <1>1, <1>2, <2>1
<1>7. Stale(X) \in [1..MaxCalls -> Call \cup {NoCall}]
  <2>1. Stale(X) = [i \in 1..MaxCalls |-> Stale(X)[i]]
    BY DEF Stale, CallsTyped
  <2> QED BY <1>5, <2>1
<1> HIDE DEF Stale
<1>8. Flying(Stale(X)) = Flying(calls)
  <2>1. Flying(Stale(X)) \subseteq 1..MaxCalls /\ Flying(calls) \subseteq 1..MaxCalls
    BY <1>3 DEF Flying
  <2> QED BY <1>5, <2>1
<1>9. \A x \in X : Fresh(Stale(X), x) = {}
  BY <1>6, <1>8 DEF Fresh
<1>10. \A x : x \notin X => Fresh(Stale(X), x) = Fresh(calls, x)
  BY <1>6, <1>8 DEF Fresh
<1> QED BY <1>6, <1>7, <1>8, <1>9, <1>10

\* A coroutine that ends frees its slot, and leaves the others as they are.
LEMMA FreedEffect ==
    ASSUME CallsTyped, NEW i \in Flying(calls)
    PROVE  /\ Freed(i) \in [1..MaxCalls -> Call \cup {NoCall}]
           /\ \A x : Fresh(Freed(i), x) = Fresh(calls, x) \ {i}
           /\ \A j \in Flying(Freed(i)) : j \in Flying(calls) /\ Freed(i)[j] = calls[j]
<1>1. Freed(i) \in [1..MaxCalls -> Call \cup {NoCall}]
  BY DEF Freed, CallsTyped
<1>2. i \in 1..MaxCalls
  BY FlyingCall
<1>3. \A j \in 1..MaxCalls : Freed(i)[j] = IF j = i THEN NoCall ELSE calls[j]
  BY <1>2 DEF Freed, CallsTyped
<1>4. DOMAIN calls = 1..MaxCalls
  BY DEF CallsTyped
<1>5. Flying(Freed(i)) = Flying(calls) \ {i}
  BY <1>1, <1>2, <1>3, <1>4 DEF Flying
<1> HIDE DEF Freed
<1> QED BY <1>1, <1>3, <1>4, <1>5 DEF Fresh, Flying

\* A coroutine that goes on works for the same entry, in the same generation.
LEMMA GoesOn ==
    ASSUME CallsTyped, NEW i \in Flying(calls), NEW c \in Call,
           c.client = calls[i].client, c.fresh = calls[i].fresh, c.at = "taken" => c.got # 0,
           calls' = [calls EXCEPT ![i] = c]
    PROVE  /\ calls' \in [1..MaxCalls -> Call \cup {NoCall}]
           /\ \A x : Fresh(calls', x) = Fresh(calls, x)
           /\ \A j \in Flying(calls') : calls'[j].at = "taken" => calls'[j].got # 0
<1> USE CallAssumption
<1>1. calls' \in [1..MaxCalls -> Call \cup {NoCall}]
  BY DEF CallsTyped
<1>2. i \in 1..MaxCalls
  BY FlyingCall
<1>3. \A j \in 1..MaxCalls : calls'[j] = IF j = i THEN c ELSE calls[j]
  BY <1>2 DEF CallsTyped
<1>4. DOMAIN calls = 1..MaxCalls /\ DOMAIN calls' = 1..MaxCalls
  BY <1>1 DEF CallsTyped
<1>5. Flying(calls') = Flying(calls)
  BY <1>2, <1>3, <1>4 DEF Flying
<1>6. \A j \in Flying(calls) : calls'[j].client = calls[j].client /\ calls'[j].fresh = calls[j].fresh
  BY <1>3, <1>4 DEF Flying
<1> QED BY <1>1, <1>3, <1>4, <1>5, <1>6 DEF Fresh, Flying, CallsTyped

-----------------------------------------------------------------------------
(* Types are kept. *)

LEMMA LinkKept == BrokerTyped /\ [ClientNext]_clientVars => LinkTyped'
<1> SUFFICES ASSUME BrokerTyped, [ClientNext]_clientVars PROVE LinkTyped'
  OBVIOUS
<1> USE BrokerAssumption DEF BrokerTyped, LinkTyped, Fault
<1>1. CASE UNCHANGED <<link, place, disconnect, faults>>
  BY <1>1
<1>2. ASSUME NEW s \in Servers, NEW p \in Places,
             \/ ServerRegisters(s) \/ HearsReady(s) \/ ServerOpens(s) \/ ServerSeesClose(s)
             \/ ServerLoses(s, p)
      PROVE  LinkTyped'
  BY <1>2 DEF ServerRegisters, HearsReady, ServerOpens, ServerSeesClose, ServerLoses
<1>3. CASE UNCHANGED <<link, place, disconnect>> /\ Fault
  BY <1>3
<1>4. ASSUME NEW x \in Clients,
             Disconnects(x) \/ DisconnectReturns(x) \/ DisconnectLost(x) \/ DisconnectAgain(x)
      PROVE  LinkTyped'
  BY <1>4 DEF Disconnects, DisconnectReturns, DisconnectLost, DisconnectAgain
<1>5. ASSUME NEW X, Queued(X), UNCHANGED <<link, place, faults>>
      PROVE  LinkTyped'
  BY <1>5 DEF Queued
<1>6. ASSUME NEW X, Leave(X) PROVE LinkTyped'
  BY <1>5, <1>6 DEF Leave
<1>7. ASSUME NEW i \in 1..MaxCalls, Returns(i) PROVE LinkTyped'
  BY <1>5, <1>7 DEF Returns
<1>8. ASSUME NEW i \in 1..MaxCalls, PayloadReady(i) \/ Taken(i) \/ Refused(i) \/ CallLost(i)
      PROVE  LinkTyped'
  BY <1>1, <1>3, <1>8 DEF PayloadReady, Taken, Refused, CallLost, entries
<1>9. ASSUME NEW s \in Servers, NEW X, SocketCloses(s) \/ Ages(s, X) \/ BridgeFails \/ Cleans
      PROVE  LinkTyped'
  BY <1>1, <1>3, <1>9 DEF SocketCloses, Ages, BridgeFails, Cleans, broker
<1>10. CASE BridgeFails \/ Cleans
  BY <1>1, <1>3, <1>10 DEF BridgeFails, Cleans, broker
<1>11. ASSUME NEW x \in Clients, PlayerJoins(x) \/ RetryFires(x)
       PROVE  LinkTyped'
  BY <1>1, <1>11 DEF PlayerJoins, RetryFires
<1>12. ASSUME NEW c \in late, LateReady(c)
       PROVE  LinkTyped'
  BY <1>1, <1>12 DEF LateReady
<1>13. CASE UNCHANGED clientVars
  BY <1>1, <1>13 DEF clientVars, broker
<1> QED
  BY <1>2, <1>4, <1>6, <1>7, <1>8, <1>9, <1>10, <1>11, <1>12, <1>13
     DEF ClientNext, PlaytestEnds, PlayerLeaves

\* A registration among the coroutines c that was taken got a number.
GotNumbers(c) == \A i \in Flying(c) : c[i].at = "taken" => c[i].got # 0

LEMMA BeginsTyped ==
    ASSUME LinkTyped, EntriesTyped, NEW X \in SUBSET Clients,
           NEW c \in [1..MaxCalls -> Call \cup {NoCall}], GotNumbers(c), Begins(X, c)
    PROVE  calls' \in [1..MaxCalls -> Call \cup {NoCall}] /\ GotNumbers(calls')
<1>1. /\ calls' \in [1..MaxCalls -> Call \cup {NoCall}]
      /\ \A i \in Flying(calls') : calls'[i] = c[i] \/ calls'[i].at = "payload"
  BY BeginsEffect
<1>2. \A i \in Flying(calls') : calls'[i] = c[i] => i \in Flying(c)
  BY <1>1 DEF Flying
<1> QED BY <1>1, <1>2 DEF GotNumbers

LEMMA StaleTyped ==
    ASSUME CallsTyped, NEW X
    PROVE  Stale(X) \in [1..MaxCalls -> Call \cup {NoCall}] /\ GotNumbers(Stale(X))
BY StaleEffect DEF GotNumbers, CallsTyped

LEMMA FreedTyped ==
    ASSUME CallsTyped, NEW i \in Flying(calls)
    PROVE  Freed(i) \in [1..MaxCalls -> Call \cup {NoCall}] /\ GotNumbers(Freed(i))
BY FreedEffect DEF GotNumbers, CallsTyped

LEMMA SupersededTyped ==
    ASSUME BrokerTyped, NEW i \in Flying(calls), Superseded(i)
    PROVE  /\ calls' \in [1..MaxCalls -> Call \cup {NoCall}] /\ GotNumbers(calls')
           /\ registering \subseteq registering' /\ registering' \subseteq Clients
<1> DEFINE x == calls[i].client
<1>1. x \in Clients
  BY FlyingCall, CallFields DEF BrokerTyped
<1>2. Begins({x}, Freed(i)) \/ calls' = Freed(i)
  BY DEF Superseded
<1>3. calls' \in [1..MaxCalls -> Call \cup {NoCall}] /\ GotNumbers(calls')
  <2> HIDE DEF x
  <2> QED BY <1>1, <1>2, FreedTyped, BeginsTyped DEF BrokerTyped
<1>4. registering \subseteq registering' /\ registering' \subseteq Clients
  BY <1>1 DEF Superseded, BrokerTyped, EntriesTyped
<1> QED BY <1>3, <1>4

\* The steps of one coroutine that goes on.
LEMMA StepGoesOn ==
    ASSUME BrokerTyped, Inv', NEW i \in 1..MaxCalls,
           \/ PayloadReady(i) /\ calls[i].fresh
           \/ Taken(i) \/ Refused(i) \/ CallLost(i)
    PROVE  /\ calls' \in [1..MaxCalls -> Call \cup {NoCall}] /\ GotNumbers(calls')
           /\ \A x : Fresh(calls', x) = Fresh(calls, x)
<1> USE BridgeAssumption DEF BrokerTyped
<1>1. i \in Flying(calls)
  BY DEF PayloadReady, Taken, Refused, CallLost
<1>2. calls[i] \in Call
  BY <1>1, FlyingCall
<1>3. ASSUME NEW at \in {"posted", "failed"}, calls' = [calls EXCEPT ![i].at = at]
      PROVE  /\ calls' \in [1..MaxCalls -> Call \cup {NoCall}] /\ GotNumbers(calls')
             /\ \A x : Fresh(calls', x) = Fresh(calls, x)
  <2>1. PICK c : c = [calls[i] EXCEPT !.at = at]
    OBVIOUS
  <2>2. c \in Call /\ c.client = calls[i].client /\ c.fresh = calls[i].fresh /\ c.at = at
    BY <1>2, <2>1 DEF Call
  <2>3. calls' = [calls EXCEPT ![i] = c]
    BY <1>3, <2>1
  <2> QED BY <1>1, <1>3, <2>2, <2>3, GoesOn DEF GotNumbers
<1>4. CASE Taken(i)
  <2>1. /\ Ready(calls[i].client, calls[i].place, calls[i].ask)
        /\ calls[i].client \in Clients /\ calls[i].place \in Places /\ calls[i].ask \in 0..MaxClients
    BY <1>2, <1>4, CallFields DEF Taken
  <2>2. inst'[calls[i].client].n \in 1..MaxClients
    BY <2>1, ReadyNumbers
  <2>3. PICK n \in 1..MaxClients : n = inst'[calls[i].client].n
    BY <2>2
  <2>4. PICK d, c : d = calls[i] /\ c = [d EXCEPT !.at = "taken", !.got = n]
    OBVIOUS
  <2>5. calls' = [calls EXCEPT ![i] = c]
    BY <1>4, <2>3, <2>4 DEF Taken
  <2>6. d \in Call /\ n \in 0..MaxClients
    BY <1>2, <2>4
  <2>7. c \in Call
    BY <2>4, <2>6, Zenon DEF Call
  <2>8. c.client = calls[i].client /\ c.fresh = calls[i].fresh /\ c.at = "taken" /\ c.got = n
    BY <2>4, <2>6 DEF Call
  <2>9. c.got # 0
    BY <2>8
  <2> QED BY <1>1, <2>5, <2>7, <2>8, <2>9, GoesOn DEF GotNumbers
<1>5. CASE CallLost(i)
  <2>1. PICK d, c : d = calls[i] /\ c = [d EXCEPT !.at = "failed", !.got = 0]
    OBVIOUS
  <2>2. calls' = [calls EXCEPT ![i] = c]
    BY <1>5, <2>1 DEF CallLost
  <2>3. d \in Call /\ 0 \in 0..MaxClients
    BY <1>2, <2>1
  <2>4. c \in Call
    BY <2>1, <2>3, Zenon DEF Call
  <2>5. c.client = calls[i].client /\ c.fresh = calls[i].fresh /\ c.at = "failed" /\ c.got = 0
    BY <2>1, <2>3 DEF Call
  <2> QED BY <1>1, <2>2, <2>4, <2>5, GoesOn DEF GotNumbers
<1>6. CASE PayloadReady(i) /\ calls[i].fresh
  BY <1>3, <1>6 DEF PayloadReady
<1>7. CASE Refused(i)
  BY <1>3, <1>7 DEF Refused
<1> QED BY <1>4, <1>5, <1>6, <1>7

LEMMA CallsKept == BrokerTyped /\ Inv' /\ [ClientNext]_clientVars => CallsTyped'
<1> SUFFICES ASSUME BrokerTyped, Inv', [ClientNext]_clientVars PROVE CallsTyped'
  OBVIOUS
<1> DEFINE LateIs == [client : Clients, ask : 0..MaxClients, place : Places]
           CallsAre == calls' \in [1..MaxCalls -> Call \cup {NoCall}] /\ GotNumbers(calls')
<1>1. late \subseteq LateIs /\ GotNumbers(calls) /\ calls \in [1..MaxCalls -> Call \cup {NoCall}]
  BY DEF BrokerTyped, CallsTyped, GotNumbers
<1>2. SUFFICES CallsAre /\ late' \subseteq LateIs
  BY DEF CallsTyped, GotNumbers
<1>3. CASE UNCHANGED calls /\ late' \subseteq late
  BY <1>1, <1>3 DEF GotNumbers
<1>4. ASSUME NEW s \in Servers, HearsReady(s)
      PROVE  CallsAre /\ late' \subseteq LateIs
  <2>1. Held(s) \in SUBSET Clients
    BY DEF Held
  <2> QED BY <1>1, <1>4, <2>1, StaleTyped, BeginsTyped DEF HearsReady, BrokerTyped
<1>5. ASSUME NEW x \in Clients, PlayerJoins(x) \/ RetryFires(x)
      PROVE  CallsAre /\ late' \subseteq LateIs
  <2>1. Begins({x}, calls) \/ UNCHANGED calls
    BY <1>5 DEF PlayerJoins, RetryFires
  <2>2. late' = late
    BY <1>5 DEF PlayerJoins, RetryFires
  <2>3. CASE Begins({x}, calls)
    BY <1>1, <2>2, <2>3, BeginsTyped DEF BrokerTyped
  <2> QED BY <1>3, <2>1, <2>2, <2>3
<1>6. ASSUME NEW X, Leave(X)
      PROVE  CallsAre /\ late' \subseteq LateIs
  BY <1>1, <1>6, StaleTyped DEF Leave, BrokerTyped
<1>7. ASSUME NEW i \in 1..MaxCalls, PayloadReady(i) \/ Taken(i) \/ Refused(i)
      PROVE  CallsAre /\ late' \subseteq LateIs
  <2>1. late' = late
    BY <1>7 DEF PayloadReady, Taken, Refused
  <2>2. CASE PayloadReady(i) /\ ~calls[i].fresh
    BY <1>1, <2>1, <2>2, SupersededTyped DEF PayloadReady
  <2> QED BY <1>1, <1>7, <2>1, <2>2, StepGoesOn
<1>8. ASSUME NEW i \in 1..MaxCalls, CallLost(i)
      PROVE  CallsAre /\ late' \subseteq LateIs
  <2>1. calls[i] \in Call
    BY <1>8, FlyingCall DEF CallLost, BrokerTyped
  <2>2. [client |-> calls[i].client, ask |-> calls[i].ask, place |-> calls[i].place] \in LateIs
    BY <2>1, CallFields
  <2>3. late' \subseteq LateIs
    BY <1>1, <1>8, <2>2 DEF CallLost
  <2> QED BY <1>8, <2>3, StepGoesOn
<1>9. ASSUME NEW i \in 1..MaxCalls, Returns(i)
      PROVE  CallsAre /\ late' \subseteq LateIs
  <2>1. i \in Flying(calls) /\ late' = late /\ (calls' = Freed(i) \/ Superseded(i))
    BY <1>9 DEF Returns
  <2> QED BY <1>1, <2>1, FreedTyped, SupersededTyped DEF BrokerTyped
<1> QED
  BY <1>3, <1>4, <1>5, <1>6, <1>7, <1>8, <1>9 DEF ClientNext, clientVars, broker, ServerRegisters,
     ServerOpens, ServerSeesClose, SocketCloses, ServerLoses, PlaytestEnds, PlayerLeaves, Ages,
     Disconnects, DisconnectReturns, DisconnectLost, DisconnectAgain, LateReady, BridgeFails, Cleans

LEMMA EntriesKept == BrokerTyped /\ [ClientNext]_clientVars => EntriesTyped'
<1> SUFFICES ASSUME BrokerTyped, [ClientNext]_clientVars PROVE EntriesTyped'
  OBVIOUS
<1> USE DEF BrokerTyped, EntriesTyped
<1>1. CASE UNCHANGED entries
  BY <1>1 DEF entries
<1>2. ASSUME NEW s \in Servers, HearsReady(s)
      PROVE  EntriesTyped'
  BY <1>2 DEF HearsReady, Unconfirmed, Held
<1>3. ASSUME NEW x \in Clients, PlayerJoins(x) \/ RetryFires(x)
      PROVE  EntriesTyped'
  BY <1>3 DEF PlayerJoins, RetryFires
<1>4. ASSUME NEW X, Leave(X)
      PROVE  EntriesTyped'
  BY <1>4 DEF Leave
<1>5. ASSUME NEW i \in 1..MaxCalls, PayloadReady(i)
      PROVE  EntriesTyped'
  <2>1. registering' \subseteq Clients
    BY <1>5, SupersededTyped DEF PayloadReady
  <2> QED BY <1>5, <2>1 DEF PayloadReady
<1>6. ASSUME NEW i \in 1..MaxCalls, Returns(i)
      PROVE  EntriesTyped'
  <2> DEFINE x == calls[i].client
  <2>1. i \in Flying(calls) /\ entry' = entry
    BY <1>6 DEF Returns
  <2>2. x \in Clients /\ calls[i].got \in 0..MaxClients
    BY <2>1, FlyingCall, CallFields
  <2>3. calls[i].at = "taken" => calls[i].got # 0
    BY <2>1 DEF CallsTyped
  <2>4. CASE calls[i].fresh /\ entry[x] = "held"
    BY <1>6, <2>1, <2>2, <2>3, <2>4 DEF Returns, Numbered, Rescheduled
  <2>5. CASE ~(calls[i].fresh /\ entry[x] = "held")
    <3>1. Superseded(i) /\ UNCHANGED <<registered, retry, role>>
      BY <1>6, <2>5 DEF Returns
    <3>2. registering' \subseteq Clients
      BY <2>1, <3>1, SupersededTyped
    <3> QED BY <2>1, <3>1, <3>2
  <2> QED BY <2>4, <2>5
<1> QED
  BY <1>1, <1>2, <1>3, <1>4, <1>5, <1>6 DEF ClientNext, clientVars, broker, ServerRegisters,
     ServerOpens, ServerSeesClose, SocketCloses, ServerLoses, PlaytestEnds, PlayerLeaves, Ages, Taken,
     Refused, CallLost, Disconnects, DisconnectReturns, DisconnectLost, DisconnectAgain, LateReady,
     BridgeFails, Cleans

LEMMA BrokerTypedAlways == ClientSpec => []BrokerTyped
<1>1. ClientInit => BrokerTyped
  BY InitSafe, BrokerAssumption, BridgeAssumption
     DEF ClientInit, BrokerTyped, LinkTyped, EntriesTyped, CallsTyped, Flying
<1>2. BrokerTyped /\ [ClientNext]_clientVars => BrokerTyped'
  BY BridgeKept, LinkKept, EntriesKept, CallsKept DEF BrokerTyped
<1> QED
  BY <1>1, <1>2, PTL DEF ClientSpec

\* The broker's variables keep their types: in particular an entry that counts
\* as registered has the number the bridge gave it.
THEOREM BrokerTypes == ClientSpec => []ClientTypeOK
<1>1. BrokerTyped => ClientTypeOK
  BY DEF BrokerTyped, ClientTypeOK, LinkTyped, EntriesTyped, CallsTyped
<1> QED
  BY BrokerTypedAlways, <1>1, PTL

\* With the broker as its caller, too, no open stream and no client outlives the
\* registration it depends on: whatever the broker posts late or twice.
THEOREM ClientsAreCarried == ClientSpec => []CarriedByRegistered
<1>1. BrokerTyped => CarriedByRegistered
  BY DEF BrokerTyped, Inv
<1> QED
  BY BrokerTypedAlways, <1>1, PTL

-----------------------------------------------------------------------------
(* Every entry has one loop, or is registered. *)

\* No coroutine is fresh but the one of an entry that says it is being registered.
LoopInv ==
    \A x \in Clients :
        IF entry[x] = "held" /\ x \in registering
          THEN \E i \in 1..MaxCalls : Fresh(calls, x) = {i}
          ELSE Fresh(calls, x) = {}

\* One coroutine begins for each client in X, none of which has one.
LEMMA LoopsBegin ==
    ASSUME BrokerTyped, LoopInv, NEW X \in SUBSET Clients,
           NEW c \in [1..MaxCalls -> Call \cup {NoCall}], Begins(X, c),
           \A x \in X : Fresh(c, x) = {} /\ entry'[x] = "held",
           \A x \in Clients \ X : Fresh(c, x) = Fresh(calls, x) /\ entry'[x] = entry[x],
           registering' = registering \cup X
    PROVE  LoopInv'
<1>1. /\ \A x \in X : \E i \in 1..MaxCalls : Fresh(calls', x) = Fresh(c, x) \cup {i}
      /\ \A x \in Clients \ X : Fresh(calls', x) = Fresh(c, x)
  BY BeginsEffect DEF BrokerTyped
<1>2. \A x \in X : entry'[x] = "held" /\ x \in registering' /\ \E i \in 1..MaxCalls : Fresh(calls', x) = {i}
  BY <1>1
<1>3. \A x \in Clients \ X : /\ entry'[x] = entry[x] /\ (x \in registering' <=> x \in registering)
                             /\ Fresh(calls', x) = Fresh(calls, x)
  BY <1>1
<1> QED BY <1>2, <1>3 DEF LoopInv

LEMMA LoopsGoOn ==
    ASSUME LoopInv, \A x \in Clients : Fresh(calls', x) = Fresh(calls, x), UNCHANGED <<entry, registering>>
    PROVE  LoopInv'
BY DEF LoopInv

\* A coroutine that is not fresh counts for no entry.
LEMMA LoopsSuperseded ==
    ASSUME BrokerTyped, LoopInv, NEW i \in Flying(calls), Superseded(i),
           i \notin Fresh(calls, calls[i].client), entry' = entry
    PROVE  LoopInv'
<1> DEFINE x == calls[i].client
<1>1. x \in Clients
  BY FlyingCall, CallFields DEF BrokerTyped
<1>2. /\ Freed(i) \in [1..MaxCalls -> Call \cup {NoCall}]
      /\ \A y : Fresh(Freed(i), y) = Fresh(calls, y)
  <2>1. \A y : i \notin Fresh(calls, y)
    BY DEF Fresh
  <2>2. /\ Freed(i) \in [1..MaxCalls -> Call \cup {NoCall}]
        /\ \A y : Fresh(Freed(i), y) = Fresh(calls, y) \ {i}
    BY FreedEffect DEF BrokerTyped
  <2> QED BY <2>1, <2>2
<1>3. CASE entry[x] = "held" /\ x \notin registering
  <2>1. registering' = registering \cup {x} /\ Begins({x}, Freed(i))
    BY <1>3 DEF Superseded
  <2>2. Fresh(calls, x) = {}
    BY <1>1, <1>3 DEF LoopInv
  <2> HIDE DEF x
  <2> QED BY <1>1, <1>2, <1>3, <2>1, <2>2, LoopsBegin
<1>4. CASE ~(entry[x] = "held" /\ x \notin registering)
  BY <1>2, <1>4, LoopsGoOn DEF Superseded
<1> QED BY <1>3, <1>4

LEMMA LoopKept == BrokerTyped /\ Inv' /\ LoopInv /\ [ClientNext]_clientVars => LoopInv'
<1> SUFFICES ASSUME BrokerTyped, Inv', LoopInv, [ClientNext]_clientVars PROVE LoopInv'
  OBVIOUS
<1>1. CASE UNCHANGED <<entry, registering, calls>>
  BY <1>1, LoopsGoOn
<1>2. ASSUME NEW s \in Servers, HearsReady(s)
      PROVE  LoopInv'
  <2>1. Held(s) \in SUBSET Clients /\ \A x \in Held(s) : entry[x] = "held"
    BY DEF Held
  <2>2. /\ Stale(Held(s)) \in [1..MaxCalls -> Call \cup {NoCall}]
        /\ \A x \in Held(s) : Fresh(Stale(Held(s)), x) = {}
        /\ \A x \in Clients \ Held(s) : Fresh(Stale(Held(s)), x) = Fresh(calls, x)
    BY StaleEffect DEF BrokerTyped
  <2>3. entry' = entry /\ registering' = registering \cup Held(s) /\ Begins(Held(s), Stale(Held(s)))
    BY <1>2 DEF HearsReady
  <2> QED BY <2>1, <2>2, <2>3, LoopsBegin
<1>3. ASSUME NEW x \in Clients, PlayerJoins(x)
      PROVE  LoopInv'
  <2>1. entry' = [entry EXCEPT ![x] = "held"] /\ registering' = registering \cup {x} /\ Begins({x}, calls)
    BY <1>3 DEF PlayerJoins
  <2>2. Fresh(calls, x) = {}
    BY <1>3 DEF PlayerJoins, LoopInv
  <2>3. /\ calls \in [1..MaxCalls -> Call \cup {NoCall}]
        /\ entry'[x] = "held" /\ \A y \in Clients \ {x} : entry'[y] = entry[y]
    BY <2>1 DEF BrokerTyped, EntriesTyped, CallsTyped
  <2> QED BY <2>1, <2>2, <2>3, LoopsBegin
<1>4. ASSUME NEW x \in Clients, RetryFires(x)
      PROVE  LoopInv'
  <2>1. CASE Idle(x)
    <3>1. entry' = entry /\ registering' = registering \cup {x} /\ Begins({x}, calls)
      BY <1>4, <2>1 DEF RetryFires
    <3>2. Fresh(calls, x) = {} /\ entry[x] = "held"
      BY <2>1 DEF Idle, LoopInv
    <3>3. calls \in [1..MaxCalls -> Call \cup {NoCall}]
      BY DEF BrokerTyped, CallsTyped
    <3> QED BY <3>1, <3>2, <3>3, LoopsBegin
  <2>2. CASE ~Idle(x)
    BY <1>1, <1>4, <2>2 DEF RetryFires
  <2> QED BY <2>1, <2>2
<1>5. ASSUME NEW X, Leave(X)
      PROVE  LoopInv'
  <2>1. /\ \A x \in X : Fresh(calls', x) = {}
        /\ \A x \in Clients \ X : Fresh(calls', x) = Fresh(calls, x)
    BY <1>5, StaleEffect DEF Leave, BrokerTyped
  <2>2. /\ \A x \in Clients : entry'[x] = IF x \in X THEN "left" ELSE entry[x]
        /\ registering' = registering
    BY <1>5 DEF Leave
  <2> QED BY <2>1, <2>2 DEF LoopInv
<1>6. ASSUME NEW i \in 1..MaxCalls, PayloadReady(i) \/ Taken(i) \/ Refused(i) \/ CallLost(i)
      PROVE  LoopInv'
  <2>1. entry' = entry
    BY <1>6 DEF PayloadReady, Taken, Refused, CallLost, entries
  <2>2. CASE PayloadReady(i) /\ ~calls[i].fresh
    BY <2>1, <2>2, LoopsSuperseded DEF PayloadReady, Fresh
  <2>3. CASE ~(PayloadReady(i) /\ ~calls[i].fresh)
    <3>1. registering' = registering
      BY <1>6, <2>3 DEF PayloadReady, Taken, Refused, CallLost, entries
    <3>2. \A x : Fresh(calls', x) = Fresh(calls, x)
      BY <1>6, <2>3, StepGoesOn
    <3> QED BY <2>1, <3>1, <3>2, LoopsGoOn
  <2> QED BY <2>2, <2>3
<1>7. ASSUME NEW i \in 1..MaxCalls, Returns(i)
      PROVE  LoopInv'
  <2> DEFINE x == calls[i].client
  <2>1. i \in Flying(calls) /\ entry' = entry
    BY <1>7 DEF Returns
  <2>2. x \in Clients
    BY <2>1, FlyingCall, CallFields DEF BrokerTyped
  <2>3. CASE calls[i].fresh /\ entry[x] = "held"
    <3>1. calls' = Freed(i) /\ registering' = registering \ {x}
      BY <1>7, <2>3 DEF Returns
    <3>2. \A y : Fresh(calls', y) = Fresh(calls, y) \ {i}
      BY <2>1, <3>1, FreedEffect DEF BrokerTyped
    <3>3. i \in Fresh(calls, x)
      BY <2>1, <2>3 DEF Fresh
    <3>4. Fresh(calls', x) = {}
      BY <2>2, <3>2, <3>3 DEF LoopInv
    <3>5. \A y \in Clients \ {x} : i \notin Fresh(calls, y)
      BY DEF Fresh
    <3>6. \A y \in Clients \ {x} : Fresh(calls', y) = Fresh(calls, y)
      BY <3>2, <3>5
    <3> HIDE DEF x
    <3> QED BY <2>1, <2>2, <3>1, <3>4, <3>6 DEF LoopInv
  <2>4. CASE ~(calls[i].fresh /\ entry[x] = "held")
    <3>1. Superseded(i)
      BY <1>7, <2>4 DEF Returns
    <3>2. i \notin Fresh(calls, x)
      BY <2>2, <2>4 DEF LoopInv, Fresh
    <3> QED BY <2>1, <3>1, <3>2, LoopsSuperseded
  <2> QED BY <2>3, <2>4
<1> QED
  BY <1>1, <1>2, <1>3, <1>4, <1>5, <1>6, <1>7 DEF ClientNext, clientVars, broker, entries,
     ServerRegisters, ServerOpens, ServerSeesClose, SocketCloses, ServerLoses, PlaytestEnds,
     PlayerLeaves, Ages, Disconnects, DisconnectReturns, DisconnectLost, DisconnectAgain, LateReady,
     BridgeFails, Cleans

LEMMA LoopAlways == ClientSpec => []LoopInv
<1>1. ClientInit => LoopInv
  BY DEF ClientInit, LoopInv, Fresh, Flying
<1>2. BrokerTyped /\ LoopInv /\ [ClientNext]_clientVars => LoopInv'
  BY BridgeKept, LoopKept
<1> QED
  BY BrokerTypedAlways, <1>1, <1>2, PTL DEF ClientSpec

\* A player who is being registered has exactly one registration loop of the
\* present generation, and any other none, however refreshes, retries and
\* superseded coroutines overlap, and however many are in flight.
THEOREM LoopsAreSingle == ClientSpec => []OneLoop
<1>1. LoopInv => OneLoop
  <2> SUFFICES ASSUME LoopInv, NEW x \in Clients, entry[x] = "held"
               PROVE  Cardinality(Fresh(calls, x)) = IF x \in registering THEN 1 ELSE 0
    BY DEF OneLoop, Fresh
  <2>1. CASE x \in registering
    <3>1. PICK i \in 1..MaxCalls : Fresh(calls, x) = {i}
      BY <2>1 DEF LoopInv
    <3> QED BY <2>1, <3>1, FS_Singleton
  <2>2. CASE x \notin registering
    <3>1. Fresh(calls, x) = {}
      BY <2>2 DEF LoopInv
    <3> QED BY <2>2, <3>1, FS_EmptySet
  <2> QED BY <2>1, <2>2
<1> QED
  BY LoopAlways, <1>1, PTL

LEMMA RememberedKept == BrokerTyped /\ NeverForgotten /\ [ClientNext]_clientVars => NeverForgotten'
<1> SUFFICES ASSUME BrokerTyped, NeverForgotten, [ClientNext]_clientVars PROVE NeverForgotten'
  OBVIOUS
<1> USE DEF NeverForgotten
<1>1. CASE UNCHANGED entries
  BY <1>1 DEF entries
<1>2. ASSUME NEW s \in Servers, HearsReady(s)
      PROVE  NeverForgotten'
  BY <1>2 DEF HearsReady, Unconfirmed
<1>3. ASSUME NEW x \in Clients, PlayerJoins(x)
      PROVE  NeverForgotten'
  BY <1>3 DEF PlayerJoins, BrokerTyped, EntriesTyped
<1>4. ASSUME NEW x \in Clients, RetryFires(x)
      PROVE  NeverForgotten'
  BY <1>4 DEF RetryFires, Idle
<1>5. ASSUME NEW X, Leave(X)
      PROVE  NeverForgotten'
  BY <1>5 DEF Leave
<1>6. ASSUME NEW i \in 1..MaxCalls, PayloadReady(i)
      PROVE  NeverForgotten'
  <2>1. registering \subseteq registering'
    BY <1>6, SupersededTyped DEF PayloadReady
  <2> QED BY <1>6, <2>1 DEF PayloadReady
<1>7. ASSUME NEW i \in 1..MaxCalls, Returns(i)
      PROVE  NeverForgotten'
  <2> DEFINE x == calls[i].client
  <2>1. CASE calls[i].fresh /\ entry[x] = "held"
    BY <1>7, <2>1 DEF Returns, Rescheduled
  <2>2. CASE ~(calls[i].fresh /\ entry[x] = "held")
    <3>1. i \in Flying(calls) /\ Superseded(i) /\ UNCHANGED <<entry, registered, retry>>
      BY <1>7, <2>2 DEF Returns
    <3>2. registering \subseteq registering'
      BY <3>1, SupersededTyped
    <3> QED BY <3>1, <3>2
  <2> QED BY <2>1, <2>2
<1> QED
  BY <1>1, <1>2, <1>3, <1>4, <1>5, <1>6, <1>7 DEF ClientNext, clientVars, broker, ServerRegisters,
     ServerOpens, ServerSeesClose, SocketCloses, ServerLoses, PlaytestEnds, PlayerLeaves, Ages, Taken,
     Refused, CallLost, Disconnects, DisconnectReturns, DisconnectLost, DisconnectAgain, LateReady,
     BridgeFails, Cleans

\* A player who is there is registered, being registered, or will be tried
\* again: no path through registerProxyEntry, its retries and the server's
\* refreshes leaves an entry that nothing would ever register.
THEOREM NobodyIsForgotten == ClientSpec => []NeverForgotten
<1>1. ClientInit => NeverForgotten
  BY DEF ClientInit, NeverForgotten
<1> QED
  BY BrokerTypedAlways, RememberedKept, <1>1, PTL DEF ClientSpec
-----------------------------------------------------------------------------
(* What the broker and the bridge know of a player, when there is one at a    *)
(* time.                                                                      *)

LonePlayer == \A x, y \in Clients : x = y

\* The only player is client-1, for the bridge as for the broker.
NumbersAreOne ==
    /\ \A x \in Clients : role[x] \in {0, 1} /\ (inst[x] # NoTarget => inst[x].n = 1)
    /\ \A i \in Flying(calls) :
         calls[i].ask \in {0, 1} /\ (calls[i].at = "taken" => calls[i].got = 1)
    /\ \A c \in late : c.ask \in {0, 1}

\* Who is unregistered has left, and who counts as registered has joined.
StagesFit ==
    \A x \in Clients :
        /\ disconnect[x] # "none" => entry[x] = "left"
        /\ x \in registered => entry[x] # "none"

\* The server is registered where its data model is, and once it has refreshed
\* its clients, so are they.
InPlace ==
    /\ \A s \in Servers : link[s] # "off" /\ inst[s] # NoTarget => inst[s].place = place[s]
    /\ \A i \in Flying(calls) :
         calls[i].fresh /\ link[Phys[calls[i].client]] \in {"dial", "open"} =>
             calls[i].place = place[Phys[calls[i].client]]

\* The server's registration, which its stream will need or has.
Live(s) == inst[s] # NoTarget /\ (link[s] = "dial" \/ (link[s] = "open" /\ s \in Open))

\* While it stands, so do those of the clients made since, and as long as no
\* stream protects them, they are no older.
Standing(s) ==
    Live(s) =>
        \A x \in Renewed(s) :
            /\ inst[x] # NoTarget /\ inst[x].place = place[s]
            /\ link[s] = "dial" => idle[x] <= idle[s]

KnownInv == NumbersAreOne /\ StagesFit /\ InPlace /\ \A s \in Servers : Standing(s)

\* Among the coroutines c there are none but those of before, and of the clients
\* in X no fresh one.
Goes(c, X) ==
    \A j \in Flying(c) :
        /\ j \in Flying(calls)
        /\ c[j].client = calls[j].client /\ c[j].ask = calls[j].ask /\ c[j].place = calls[j].place
        /\ c[j].fresh => calls[j].fresh /\ calls[j].client \notin X
        /\ c[j].at = "taken" => calls[j].at = "taken" /\ c[j].got = calls[j].got

\* A coroutine that has just begun.
Begun(c) == c.at = "payload" /\ c.ask = role[c.client] /\ c.place = place[Phys[c.client]]

\* The step lets coroutines of before go on, and begins others.
Went(X) ==
    \A j \in Flying(calls') :
        \/ /\ j \in Flying(calls)
           /\ calls'[j].client = calls[j].client
           /\ calls'[j].ask = calls[j].ask /\ calls'[j].place = calls[j].place
           /\ calls'[j].fresh => calls[j].fresh /\ calls[j].client \notin X
           /\ calls'[j].at = "taken" => calls[j].at = "taken" /\ calls'[j].got = calls[j].got
        \/ Begun(calls'[j])

LEMMA GoneIsWent ==
    ASSUME NEW c, NEW X, Goes(c, X), calls' = c
    PROVE  Went(X)
BY DEF Goes, Went

LEMMA BeginsWent ==
    ASSUME LinkTyped, EntriesTyped, NEW Y \in SUBSET Clients, NEW X,
           NEW c \in [1..MaxCalls -> Call \cup {NoCall}], Goes(c, X), Begins(Y, c)
    PROVE  Went(X)
<1> DEFINE first(x) == [client |-> x, ask |-> role[x], place |-> place[Phys[x]],
                        fresh |-> TRUE, at |-> "payload", got |-> 0]
<1>1. PICK slot \in [Y -> DOMAIN c \ Flying(c)] :
        /\ \A x, y \in Y : x # y => slot[x] # slot[y]
        /\ calls' = [i \in DOMAIN c |->
                       IF \E x \in Y : slot[x] = i
                         THEN first(CHOOSE x \in Y : slot[x] = i) ELSE c[i]]
  BY DEF Begins
<1>2. \A x : Begun(first(x))
  BY DEF Begun
<1> HIDE DEF first
<1>3. \A j \in DOMAIN c : calls'[j] = c[j] \/ Begun(calls'[j])
  BY <1>1, <1>2
<1>4. DOMAIN calls' = DOMAIN c
  BY <1>1
<1>5. \A j \in Flying(calls') : (calls'[j] = c[j] /\ j \in Flying(c)) \/ Begun(calls'[j])
  BY <1>3, <1>4 DEF Flying
<1> QED BY <1>5 DEF Goes, Went

LEMMA CallsGo == ASSUME CallsTyped PROVE Goes(calls, {})
BY DEF Goes

LEMMA StaleGoes == ASSUME CallsTyped, NEW X PROVE Goes(Stale(X), X)
<1> USE CallAssumption
<1>1. \A c \in Call :
        LET d == [c EXCEPT !.fresh = FALSE]
        IN /\ d \in Call /\ d.client = c.client /\ d.fresh = FALSE /\ d.at = c.at /\ d.got = c.got
           /\ d.ask = c.ask /\ d.place = c.place
  BY DEF Call
<1>2. \A i \in 1..MaxCalls :
        Stale(X)[i] = IF i \in Flying(calls) /\ calls[i].client \in X
                        THEN [calls[i] EXCEPT !.fresh = FALSE] ELSE calls[i]
  BY DEF Stale, CallsTyped
<1>3. Flying(Stale(X)) \subseteq Flying(calls)
  BY StaleEffect
<1>4. \A i \in Flying(calls) : i \in 1..MaxCalls /\ calls[i] \in Call
  BY FlyingCall
<1> HIDE DEF Stale
<1> QED BY <1>1, <1>2, <1>3, <1>4 DEF Goes

LEMMA FreedGoes == ASSUME CallsTyped, NEW i \in Flying(calls) PROVE Goes(Freed(i), {})
BY FreedEffect DEF Goes

LEMMA SupersededWent ==
    ASSUME BrokerTyped, NEW i \in Flying(calls), Superseded(i)
    PROVE  Went({})
<1>1. calls[i].client \in Clients
  BY FlyingCall, CallFields DEF BrokerTyped
<1>2. Begins({calls[i].client}, Freed(i)) \/ calls' = Freed(i)
  BY DEF Superseded
<1>3. Goes(Freed(i), {}) /\ Freed(i) \in [1..MaxCalls -> Call \cup {NoCall}]
  BY FreedGoes, FreedEffect DEF BrokerTyped
<1>4. PICK Y \in SUBSET Clients : Y = {calls[i].client}
  BY <1>1
<1> QED BY <1>2, <1>3, <1>4, BeginsWent, GoneIsWent DEF BrokerTyped

\* A coroutine that does not get its number in this step.
LEMMA FieldWent ==
    ASSUME CallsTyped, NEW i \in Flying(calls), NEW d,
           d.client = calls[i].client, d.ask = calls[i].ask, d.place = calls[i].place,
           d.fresh = calls[i].fresh, d.at # "taken",
           calls' = [calls EXCEPT ![i] = d]
    PROVE  Went({})
<1>1. i \in 1..MaxCalls /\ DOMAIN calls = 1..MaxCalls
  BY FlyingCall DEF CallsTyped
<1>2. \A j \in 1..MaxCalls : calls'[j] = IF j = i THEN d ELSE calls[j]
  BY <1>1 DEF CallsTyped
<1>3. Flying(calls') \subseteq Flying(calls)
  BY <1>1, <1>2 DEF Flying, CallsTyped
<1>4. \A j \in Flying(calls) : j \in 1..MaxCalls
  BY <1>1 DEF Flying
<1> QED BY <1>2, <1>3, <1>4 DEF Went

\* Only the bridge's answer gives a coroutine its number.
LEMMA StepsWent ==
    ASSUME BrokerTyped, [ClientNext]_clientVars, \A i \in 1..MaxCalls : ~Taken(i)
    PROVE  /\ Went({})
           /\ \A s \in Servers : HearsReady(s) => Went(Held(s))
<1>1. calls \in [1..MaxCalls -> Call \cup {NoCall}] /\ Goes(calls, {})
  BY CallsGo DEF BrokerTyped, CallsTyped
<1>2. ASSUME UNCHANGED calls PROVE Went({})
  BY <1>1, <1>2, GoneIsWent
<1>3. ASSUME NEW s \in Servers, HearsReady(s)
      PROVE  Went(Held(s))
  <2>1. PICK X \in SUBSET Clients : X = Held(s)
    BY DEF Held
  <2>2. Begins(X, Stale(X))
    BY <1>3, <2>1 DEF HearsReady
  <2>3. Stale(X) \in [1..MaxCalls -> Call \cup {NoCall}] /\ Goes(Stale(X), X)
    BY StaleEffect, StaleGoes DEF BrokerTyped
  <2> QED BY <2>1, <2>2, <2>3, BeginsWent DEF BrokerTyped
<1>4. ASSUME NEW s \in Servers, HearsReady(s)
      PROVE  Went({})
  BY <1>3, <1>4 DEF Went
<1>5. ASSUME NEW x \in Clients, PlayerJoins(x) \/ RetryFires(x)
      PROVE  Went({})
  <2>1. Begins({x}, calls) \/ UNCHANGED calls
    BY <1>5 DEF PlayerJoins, RetryFires
  <2>2. PICK Y \in SUBSET Clients : Y = {x}
    OBVIOUS
  <2> QED BY <1>1, <1>2, <2>1, <2>2, BeginsWent DEF BrokerTyped
<1>6. ASSUME NEW X, Leave(X)
      PROVE  Went({})
  <2>1. Goes(Stale(X), X) /\ calls' = Stale(X)
    BY <1>6, StaleGoes DEF Leave, BrokerTyped
  <2>2. Went(X)
    BY <2>1, GoneIsWent
  <2> QED BY <2>2 DEF Went
<1>7. ASSUME NEW i \in 1..MaxCalls, PayloadReady(i) \/ Refused(i) \/ CallLost(i)
      PROVE  Went({})
  <2>1. i \in Flying(calls)
    BY <1>7 DEF PayloadReady, Refused, CallLost
  <2>2. calls[i] \in Call
    BY <2>1, FlyingCall DEF BrokerTyped
  <2>3. CASE \E at \in {"posted", "failed"} : calls' = [calls EXCEPT ![i].at = at]
    <3>1. PICK at \in {"posted", "failed"} : calls' = [calls EXCEPT ![i].at = at]
      BY <2>3
    <3>2. PICK d : d = [calls[i] EXCEPT !.at = at]
      OBVIOUS
    <3>3. /\ d.client = calls[i].client /\ d.ask = calls[i].ask /\ d.place = calls[i].place
          /\ d.fresh = calls[i].fresh /\ d.at # "taken"
      BY <2>2, <3>2 DEF Call
    <3>4. calls' = [calls EXCEPT ![i] = d]
      BY <3>1, <3>2
    <3> QED BY <2>1, <3>3, <3>4, FieldWent DEF BrokerTyped
  <2>4. CASE CallLost(i)
    <3>1. PICK d : d = [calls[i] EXCEPT !.at = "failed", !.got = 0]
      OBVIOUS
    <3>2. /\ d.client = calls[i].client /\ d.ask = calls[i].ask /\ d.place = calls[i].place
          /\ d.fresh = calls[i].fresh /\ d.at # "taken"
      BY <2>2, <3>1 DEF Call
    <3>3. calls' = [calls EXCEPT ![i] = d]
      BY <2>4, <3>1 DEF CallLost
    <3> QED BY <2>1, <3>2, <3>3, FieldWent DEF BrokerTyped
  <2>5. CASE Superseded(i)
    BY <2>1, <2>5, SupersededWent
  <2>6. PayloadReady(i) => Superseded(i) \/ calls' = [calls EXCEPT ![i].at = "posted"]
    BY DEF PayloadReady
  <2>7. Refused(i) => calls' = [calls EXCEPT ![i].at = "failed"]
    BY DEF Refused
  <2> QED BY <1>7, <2>3, <2>4, <2>5, <2>6, <2>7
<1>8. ASSUME NEW i \in 1..MaxCalls, Returns(i)
      PROVE  Went({})
  <2>1. i \in Flying(calls) /\ (calls' = Freed(i) \/ Superseded(i))
    BY <1>8 DEF Returns
  <2> QED BY <2>1, FreedGoes, GoneIsWent, SupersededWent DEF BrokerTyped
<1> QED
  BY <1>2, <1>3, <1>4, <1>5, <1>6, <1>7, <1>8 DEF ClientNext, clientVars, broker, ServerRegisters,
     ServerOpens, ServerSeesClose, SocketCloses, ServerLoses, PlaytestEnds, PlayerLeaves, Ages,
     Disconnects, DisconnectReturns, DisconnectLost, DisconnectAgain, LateReady, BridgeFails, Cleans

\* The bridge gives the only player the number 1, and displaces nobody for it.
LEMMA LoneReady ==
    ASSUME LonePlayer, Inv, \A y \in Clients : inst[y] # NoTarget => inst[y].n = 1,
           NEW x \in Clients, NEW p \in Places, NEW ask \in {0, 1}, Ready(x, p, ask)
    PROVE  /\ inst' = [inst EXCEPT ![x] = [place |-> p, kind |-> "client", n |-> 1]]
           /\ idle' = [idle EXCEPT ![x] = 0]
           /\ 1 \in 1..MaxClients
           /\ inst[Phys[x]] # NoTarget /\ inst[Phys[x]].place = p
           /\ UNCHANGED <<owners, stream>>
<1>1. x \in Sessions /\ Kind[x] = "client" /\ Phys[x] # x
  BY SessionAssumption DEF Clients
<1>2. inst \in [Sessions -> Targets \cup {NoTarget}] /\ idle \in [Sessions -> 0..2]
  BY DEF Inv, Typed, TypeOK
<1>3. \A y \in Sessions : inst[y] # NoTarget => inst[y] \in Targets /\ inst[y].kind = Kind[y]
  BY <1>2 DEF Inv, Typed, KindsMatch, Registered
<1>4. PICK n \in 0..MaxClients :
        Assigned(x, p, ask, n) /\ Register(x, [place |-> p, kind |-> Kind[x], n |-> n])
  BY Zenon DEF Ready
<1> DEFINE tuple == [place |-> p, kind |-> Kind[x], n |-> n]
<1>5. n \in 1..MaxClients
  <2>1. CASE ask # 0
    BY <1>1, <1>4, <2>1, BridgeAssumption DEF Assigned
  <2>2. CASE ask = 0 /\ inst[x] # NoTarget
    <3>1. n = inst[x].n /\ inst[x] \in Targets /\ inst[x].kind = "client"
      BY <1>1, <1>3, <1>4, <2>2 DEF Assigned
    <3>2. inst[x].n \in 1..MaxClients
      BY <3>1 DEF Targets
    <3> QED BY <3>1, <3>2
  <2>3. CASE ask = 0 /\ inst[x] = NoTarget
    BY <1>1, <1>4, <2>3 DEF Assigned
  <2> QED BY <2>1, <2>2, <2>3
<1>6. n = 1
  <2>1. CASE ask # 0
    BY <1>1, <1>4, <2>1 DEF Assigned
  <2>2. CASE ask = 0 /\ inst[x] # NoTarget
    BY <1>1, <1>4, <2>2 DEF Assigned
  <2>3. CASE ask = 0 /\ inst[x] = NoTarget
    <3>1. \A m \in 1..(n - 1) : \E y \in Registered \ {x} : inst[y].n = m
      BY <1>1, <1>4, <2>3 DEF Assigned
    <3>2. ASSUME n # 1 PROVE FALSE
      <4>1. PICK y \in Registered \ {x} : inst[y].n = 1
        BY <1>5, <3>1, <3>2, BridgeAssumption
      <4>2. y \notin Clients
        BY DEF LonePlayer
      <4>3. y \in Sessions /\ inst[y] \in Targets /\ inst[y].kind # "client"
        BY <1>3, <4>2 DEF Registered, Clients
      <4>4. inst[y].n = 0
        BY <4>3 DEF Targets
      <4> QED BY <4>1, <4>4
    <3> QED BY <3>2
  <2> QED BY <2>1, <2>2, <2>3
<1>7. Holders(x, tuple) = {}
  <2>1. ASSUME NEW y \in Sessions \ {x}, inst[y] = tuple PROVE FALSE
    <3>1. tuple # NoTarget
      BY <1>1, <1>4, AssignedTarget, BridgeAssumption, <1>5 DEF Targets
    <3>2. Kind[y] = "client"
      BY <1>1, <1>3, <2>1, <3>1
    <3> QED BY <2>1, <3>2, <1>1 DEF Clients, LonePlayer
  <2> QED BY <2>1 DEF Holders
<1>8. WithClients({}) = {} /\ Without({}) = inst
  BY <1>2 DEF WithClients, Without
<1>9. /\ inst' = [Without(WithClients(Holders(x, tuple))) EXCEPT ![x] = tuple]
      /\ idle' = [y \in Sessions |-> IF y \in WithClients(Holders(x, tuple)) \cup {x} THEN 0 ELSE idle[y]]
      /\ UNCHANGED <<owners, stream>>
  BY <1>4, Zenon DEF Register
<1>10. tuple = [place |-> p, kind |-> "client", n |-> 1]
  BY <1>1, <1>6
<1>11. inst[Phys[x]] # NoTarget /\ inst[Phys[x]].place = p
  BY <1>1 DEF Ready
<1>12. inst' = [inst EXCEPT ![x] = tuple]
  BY <1>7, <1>8, <1>9
<1> HIDE DEF tuple
<1>13. idle' = [y \in Sessions |-> IF y = x THEN 0 ELSE idle[y]]
  BY <1>7, <1>8, <1>9
<1>14. idle' = [idle EXCEPT ![x] = 0]
  BY <1>1, <1>2, <1>13
<1>15. 1 \in 1..MaxClients
  BY <1>5, <1>6
<1> QED BY <1>9, <1>10, <1>11, <1>12, <1>14, <1>15

\* A server that registers leaves the other servers that stay registered, and
\* their clients, as they are.
LEMMA ServerEffect ==
    ASSUME BrokerTyped, NEW s \in Servers, ServerRegisters(s)
    PROVE  /\ inst'[s] # NoTarget => inst'[s].place = place[s]
           /\ UNCHANGED <<owners, stream>>
           /\ \A y \in Sessions \ {s} : inst'[y] = inst[y] \/ inst'[y] = NoTarget
           /\ \A t \in Servers \ {s} : \A y \in Group(t) :
                inst'[t] # NoTarget => inst'[y] = inst[y] /\ idle'[y] = idle[y]
<1>1. /\ inst \in [Sessions -> Targets \cup {NoTarget}] /\ idle \in [Sessions -> 0..2]
      /\ \A y \in Sessions : inst[y] # NoTarget => inst[y].kind = Kind[y]
  BY DEF BrokerTyped, Inv, Typed, TypeOK, KindsMatch, Registered
<1>2. s \in Sessions /\ s \in Physical /\ Kind[s] = "server" /\ 0 \in 0..MaxClients /\ place[s] \in Places
  BY BridgeAssumption DEF Servers, Physical, BrokerTyped, LinkTyped
<1>3. PICK n \in 0..MaxClients :
        Assigned(s, place[s], 0, n) /\ Register(s, [place |-> place[s], kind |-> Kind[s], n |-> n])
  BY Zenon DEF ServerRegisters, Ready
<1> DEFINE tuple == [place |-> place[s], kind |-> Kind[s], n |-> n]
           gone == WithClients(Holders(s, tuple))
<1>4. tuple \in Targets
  BY <1>2, <1>3, AssignedTarget DEF BrokerTyped, Inv
<1>5. /\ inst' = [Without(gone) EXCEPT ![s] = tuple]
      /\ idle' = [y \in Sessions |-> IF y \in gone \cup {s} THEN 0 ELSE idle[y]]
      /\ UNCHANGED <<owners, stream>>
  BY <1>3, Zenon DEF Register
<1>6. tuple.place = place[s] /\ tuple.kind = "server" /\ tuple # NoTarget
  BY <1>2, <1>4, BridgeAssumption
<1>7. ASSUME NEW y \in gone
      PROVE  y \in Sessions /\ Phys[y] \in gone /\ Phys[y] \in Sessions
  <2>1. ASSUME NEW h \in Holders(s, tuple) PROVE h \in Sessions /\ Phys[h] = h /\ h \in gone
    <3>1. h \in Sessions /\ Kind[h] = "server"
      BY <1>1, <1>6 DEF Holders
    <3> QED BY <3>1, SessionAssumption DEF WithClients
  <2> QED BY <2>1 DEF WithClients, Registered
<1> HIDE DEF tuple, gone
<1>8. \A y \in Sessions \ {s} : inst'[y] = IF y \in gone THEN NoTarget ELSE inst[y]
  BY <1>1, <1>5 DEF Without
<1>9. inst'[s] = tuple
  BY <1>1, <1>2, <1>5 DEF Without
<1>10. ASSUME NEW t \in Servers \ {s}, NEW y \in Group(t), inst'[t] # NoTarget
       PROVE  inst'[y] = inst[y] /\ idle'[y] = idle[y]
  <2>1. t \in Sessions /\ Phys[s] = s /\ y \in Sessions /\ Phys[y] = t
    BY <1>2 DEF Servers, Physical, Group
  <2>2. t \notin gone
    BY <1>8, <1>10, <2>1
  <2>3. y \notin gone /\ y # s
    BY <1>7, <2>1, <2>2
  <2> QED BY <1>5, <1>8, <2>1, <2>3
<1> QED BY <1>5, <1>6, <1>8, <1>9, <1>10

\* Only registrations of its own make a session registered, or as another.
LEMMA RegistrationSteps ==
    ASSUME BrokerTyped, [ClientNext]_clientVars, NEW y \in Sessions,
           inst'[y] # inst[y], inst'[y] # NoTarget
    PROVE  \/ y \in Servers /\ ServerRegisters(y)
           \/ \E i \in 1..MaxCalls : Taken(i)
           \/ \E c \in late : LateReady(c)
<1>1. \A S : Unregister(S) => inst'[y] \in {inst[y], NoTarget}
  BY DEF Unregister, Without
<1>2. Restart => inst'[y] = NoTarget
  BY DEF Restart
<1>3. ASSUME NEW s \in Servers, ServerRegisters(s)
      PROVE  y \in Servers /\ ServerRegisters(y)
  BY <1>3, ServerEffect
<1>4. \A s \in Servers : ServerOpens(s) \/ SocketCloses(s) => inst'[y] = inst[y]
  BY DEF ServerOpens, OpenStream, SocketCloses, CloseStream
<1>5. ASSUME NEW x \in Clients, Disconnects(x) PROVE FALSE
  BY <1>1, <1>5 DEF Disconnects, Disconnect, vars
<1>6. ASSUME BridgeFails \/ Cleans PROVE FALSE
  BY <1>1, <1>2, <1>6 DEF BridgeFails, Cleans, UnregisterPlace, CleanupStale
<1>7. ASSUME NEW s \in Servers,
             \/ HearsReady(s) \/ ServerSeesClose(s) \/ PlaytestEnds(s)
             \/ (\E p \in Places : ServerLoses(s, p)) \/ \E X \in SUBSET Group(s) : Ages(s, X)
      PROVE  FALSE
  BY <1>7 DEF HearsReady, ServerSeesClose, PlaytestEnds, ServerLoses, Ages, Leave, vars
<1>8. ASSUME NEW x \in Clients,
             \/ PlayerJoins(x) \/ PlayerLeaves(x) \/ RetryFires(x)
             \/ DisconnectReturns(x) \/ DisconnectLost(x) \/ DisconnectAgain(x)
      PROVE  FALSE
  BY <1>8 DEF PlayerJoins, PlayerLeaves, Leave, RetryFires, DisconnectReturns, DisconnectLost,
     DisconnectAgain, vars
<1>9. ASSUME NEW i \in 1..MaxCalls, PayloadReady(i) \/ Refused(i) \/ CallLost(i) \/ Returns(i)
      PROVE  FALSE
  BY <1>9 DEF PayloadReady, Refused, CallLost, Returns, vars
<1>10. CASE UNCHANGED clientVars
  BY <1>10 DEF clientVars, vars
<1> QED
  BY <1>3, <1>4, <1>5, <1>6, <1>7, <1>8, <1>9, <1>10 DEF ClientNext

\* Taken(i): the coroutine reads its number from the bridge.
LEMMA TakenGets ==
    ASSUME BrokerTyped, NumbersAreOne, LonePlayer, NEW i \in 1..MaxCalls, Taken(i)
    PROVE  LET c == calls[i] IN
           /\ i \in Flying(calls) /\ c.client \in Clients /\ c.place \in Places /\ c.ask \in {0, 1}
           /\ Ready(c.client, c.place, c.ask)
           /\ \A j \in Flying(calls') :
                /\ j \in Flying(calls)
                /\ calls'[j].client = calls[j].client /\ calls'[j].ask = calls[j].ask
                /\ calls'[j].place = calls[j].place /\ calls'[j].fresh = calls[j].fresh
                /\ j # i => calls'[j] = calls[j]
                /\ j = i => calls'[j].got = 1
<1> DEFINE c == calls[i]
<1>1. i \in Flying(calls) /\ Ready(c.client, c.place, c.ask)
  BY DEF Taken
<1>2. c \in Call
  BY <1>1, FlyingCall DEF BrokerTyped
<1>3. c.client \in Clients /\ c.place \in Places
  BY <1>2, CallFields
<1>4. c.ask \in {0, 1}
  BY <1>1 DEF NumbersAreOne
<1>5. inst'[c.client].n = 1
  <2>1. \A y \in Clients : inst[y] # NoTarget => inst[y].n = 1
    BY DEF NumbersAreOne
  <2>2. c.client \in Sessions /\ inst \in [Sessions -> Targets \cup {NoTarget}]
    BY <1>3 DEF Clients, BrokerTyped, Inv, Typed, TypeOK
  <2>3. inst' = [inst EXCEPT ![c.client] = [place |-> c.place, kind |-> "client", n |-> 1]]
    <3> HIDE DEF c
    <3> QED BY <1>1, <1>3, <1>4, <2>1, LoneReady DEF BrokerTyped
  <2> HIDE DEF c
  <2>4. inst'[c.client] = [place |-> c.place, kind |-> "client", n |-> 1]
    BY <2>2, <2>3
  <2> QED BY <2>4
<1>6. PICK d : d = [calls[i] EXCEPT !.at = "taken", !.got = 1]
  OBVIOUS
<1>7. calls' = [calls EXCEPT ![i] = d]
  BY <1>5, <1>6 DEF Taken
<1>8. d.client = c.client /\ d.ask = c.ask /\ d.place = c.place /\ d.fresh = c.fresh /\ d.got = 1
  BY <1>2, <1>6 DEF Call
<1>9. \A j \in 1..MaxCalls : calls'[j] = IF j = i THEN d ELSE calls[j]
  BY <1>7 DEF BrokerTyped, CallsTyped
<1>10. DOMAIN calls = 1..MaxCalls /\ DOMAIN calls' = 1..MaxCalls
  BY <1>7 DEF BrokerTyped, CallsTyped
<1>11. Flying(calls') \subseteq Flying(calls)
  BY <1>1, <1>9, <1>10 DEF Flying
<1>12. Flying(calls) \subseteq 1..MaxCalls
  BY <1>10 DEF Flying
<1> QED BY <1>1, <1>3, <1>4, <1>8, <1>9, <1>11, <1>12

\* The number is remembered when a coroutine ends, and late calls are lost ones.
LEMMA RoleSteps ==
    ASSUME [ClientNext]_clientVars
    PROVE  /\ (\E i \in 1..MaxCalls : Returns(i)) \/ role' = role
           /\ (\E i \in 1..MaxCalls : CallLost(i)) \/ late' \subseteq late
<1>1. ASSUME NEW s \in Servers,
             \/ ServerRegisters(s) \/ HearsReady(s) \/ ServerOpens(s) \/ ServerSeesClose(s)
             \/ SocketCloses(s) \/ PlaytestEnds(s)
             \/ (\E p \in Places : ServerLoses(s, p)) \/ \E X \in SUBSET Group(s) : Ages(s, X)
      PROVE  role' = role /\ late' = late
  BY <1>1 DEF ServerRegisters, HearsReady, ServerOpens, ServerSeesClose, SocketCloses, PlaytestEnds,
     ServerLoses, Ages, Leave, broker, entries
<1>2. ASSUME NEW x \in Clients,
             \/ PlayerJoins(x) \/ PlayerLeaves(x) \/ RetryFires(x) \/ Disconnects(x)
             \/ DisconnectReturns(x) \/ DisconnectLost(x) \/ DisconnectAgain(x)
      PROVE  role' = role /\ late' = late
  BY <1>2 DEF PlayerJoins, PlayerLeaves, Leave, RetryFires, Disconnects, DisconnectReturns, DisconnectLost,
     DisconnectAgain, entries
<1>3. ASSUME NEW i \in 1..MaxCalls, PayloadReady(i) \/ Taken(i) \/ Refused(i)
      PROVE  role' = role /\ late' = late
  BY <1>3 DEF PayloadReady, Taken, Refused, entries
<1>4. ASSUME NEW i \in 1..MaxCalls
      PROVE  (CallLost(i) => role' = role) /\ (Returns(i) => late' = late)
  BY DEF CallLost, Returns, entries
<1>5. ASSUME NEW c \in late, LateReady(c)
      PROVE  role' = role /\ late' \subseteq late
  BY <1>5 DEF LateReady, entries
<1>6. CASE BridgeFails \/ Cleans \/ UNCHANGED clientVars
  BY <1>6 DEF BridgeFails, Cleans, clientVars, broker, entries
<1> QED
  BY <1>1, <1>2, <1>3, <1>4, <1>5, <1>6 DEF ClientNext

LEMMA NumbersKept ==
    ASSUME LonePlayer, BrokerTyped, NumbersAreOne, [ClientNext]_clientVars
    PROVE  NumbersAreOne'
<1>1. inst \in [Sessions -> Targets \cup {NoTarget}] /\ Clients \subseteq Sessions
  BY DEF BrokerTyped, Inv, Typed, TypeOK, Clients
<1>2. \A y \in Clients : inst[y] # NoTarget => inst[y].n = 1
  BY DEF NumbersAreOne
<1>3. ASSUME NEW x \in Clients, inst'[x] # NoTarget
      PROVE  inst'[x].n = 1
  <2>1. ASSUME NEW y \in Clients, NEW p \in Places, NEW ask \in {0, 1}, Ready(y, p, ask)
        PROVE  inst'[x].n = 1
    <3>1. Inv /\ x = y
      BY DEF BrokerTyped, LonePlayer
    <3>2. inst' = [inst EXCEPT ![y] = [place |-> p, kind |-> "client", n |-> 1]]
      BY <1>2, <2>1, <3>1, LoneReady
    <3>3. inst'[x] = [place |-> p, kind |-> "client", n |-> 1]
      BY <1>1, <3>1, <3>2
    <3> QED BY <3>3
  <2>2. ASSUME NEW i \in 1..MaxCalls, Taken(i) PROVE inst'[x].n = 1
    BY <2>1, <2>2, TakenGets
  <2>3. ASSUME NEW c \in late, LateReady(c) PROVE inst'[x].n = 1
    <3>1. c.client \in Clients /\ c.place \in Places /\ c.ask \in {0, 1}
      BY DEF BrokerTyped, CallsTyped, NumbersAreOne
    <3> QED BY <2>1, <2>3, <3>1 DEF LateReady
  <2>4. x \notin Servers
    BY DEF Clients, Servers
  <2>5. inst'[x] = inst[x] \/ (\E i \in 1..MaxCalls : Taken(i)) \/ (\E c \in late : LateReady(c))
    BY <1>1, <1>3, <2>4, RegistrationSteps
  <2> QED BY <1>2, <1>3, <2>2, <2>3, <2>5
<1>4. ASSUME NEW x \in Clients PROVE role'[x] \in {0, 1}
  <2>1. ASSUME NEW i \in 1..MaxCalls, Returns(i) PROVE role'[x] \in {0, 1}
    <3>1. i \in Flying(calls) /\ (role' = role \/ (calls[i].at = "taken" /\ role' = [role EXCEPT ![calls[i].client] = calls[i].got]))
      BY <2>1 DEF Returns, Numbered
    <3> QED BY <3>1 DEF NumbersAreOne, BrokerTyped, EntriesTyped
  <2>2. (\E i \in 1..MaxCalls : Returns(i)) \/ role' = role
    BY RoleSteps
  <2> QED BY <2>1, <2>2 DEF NumbersAreOne
<1>5. ASSUME NEW j \in Flying(calls')
      PROVE  calls'[j].ask \in {0, 1} /\ (calls'[j].at = "taken" => calls'[j].got = 1)
  <2>1. ASSUME NEW i \in 1..MaxCalls, Taken(i)
        PROVE  calls'[j].ask \in {0, 1} /\ (calls'[j].at = "taken" => calls'[j].got = 1)
    BY <2>1, TakenGets DEF NumbersAreOne
  <2>2. CASE \A i \in 1..MaxCalls : ~Taken(i)
    <3>1. Went({})
      BY <2>2, StepsWent
    <3>2. CASE Begun(calls'[j])
      <4>1. CASE calls'[j].client \in Clients
        BY <3>2, <4>1 DEF Begun, NumbersAreOne
      <4>2. calls'[j].client \in Clients
        <5>1. calls' \in [1..MaxCalls -> Call \cup {NoCall}]
          BY BridgeKept, CallsKept DEF CallsTyped
        <5>2. calls'[j] \in Call
          BY <5>1 DEF Flying
        <5> QED BY <5>2, CallFields
      <4> QED BY <4>1, <4>2
    <3> QED BY <3>1, <3>2 DEF Went, NumbersAreOne
  <2> QED BY <2>1, <2>2
<1>6. \A c \in late' : c.ask \in {0, 1}
  <2>1. ASSUME NEW i \in 1..MaxCalls, CallLost(i) PROVE \A c \in late' : c.ask \in {0, 1}
    BY <2>1 DEF CallLost, NumbersAreOne
  <2>2. (\E i \in 1..MaxCalls : CallLost(i)) \/ late' \subseteq late
    BY RoleSteps
  <2> QED BY <2>1, <2>2 DEF NumbersAreOne
<1> QED BY <1>3, <1>4, <1>5, <1>6 DEF NumbersAreOne

LEMMA StagesKept ==
    ASSUME BrokerTyped, StagesFit, [ClientNext]_clientVars
    PROVE  StagesFit'
<1> USE DEF StagesFit
<1>1. CASE UNCHANGED <<entry, registered, disconnect>>
  BY <1>1
<1>2. ASSUME NEW s \in Servers, HearsReady(s)
      PROVE  StagesFit'
  BY <1>2 DEF HearsReady, Unconfirmed
<1>3. ASSUME NEW x \in Clients, PlayerJoins(x)
      PROVE  StagesFit'
  <2>1. entry[x] = "none" /\ entry' = [entry EXCEPT ![x] = "held"] /\ UNCHANGED <<registered, disconnect>>
    BY <1>3 DEF PlayerJoins
  <2> QED BY <2>1 DEF BrokerTyped, EntriesTyped
<1>4. ASSUME NEW X, Leave(X)
      PROVE  StagesFit'
  <2>1. /\ entry' = [x \in Clients |-> IF x \in X THEN "left" ELSE entry[x]]
        /\ Queued(X) /\ registered' = registered
    BY <1>4 DEF Leave
  <2> QED BY <2>1 DEF Queued
<1>5. ASSUME NEW i \in 1..MaxCalls, Returns(i)
      PROVE  StagesFit'
  <2> DEFINE x == calls[i].client
             X == IF calls[i].at = "taken" /\ entry[x] = "left" THEN {x} ELSE {}
  <2>1. /\ entry' = entry /\ Queued(X)
        /\ registered' \subseteq registered \cup {y \in {x} : entry[y] = "held"}
    BY <1>5 DEF Returns
  <2>2. \A y \in Clients : disconnect'[y] # "none" => disconnect[y] # "none" \/ entry[y] = "left"
    BY <2>1 DEF Queued
  <2> HIDE DEF x, X
  <2> QED BY <2>1, <2>2
<1>6. ASSUME NEW x \in Clients,
             Disconnects(x) \/ DisconnectReturns(x) \/ DisconnectLost(x) \/ DisconnectAgain(x)
      PROVE  StagesFit'
  <2>1. disconnect[x] # "none" /\ UNCHANGED entries /\ \E how : disconnect' = [disconnect EXCEPT ![x] = how]
    BY <1>6 DEF Disconnects, DisconnectReturns, DisconnectLost, DisconnectAgain
  <2> QED BY <2>1 DEF entries, BrokerTyped, LinkTyped
<1>7. ASSUME NEW s \in Servers,
             \/ ServerRegisters(s) \/ ServerOpens(s) \/ ServerSeesClose(s) \/ SocketCloses(s)
             \/ (\E p \in Places : ServerLoses(s, p)) \/ \E X \in SUBSET Group(s) : Ages(s, X)
      PROVE  StagesFit'
  BY <1>1, <1>7 DEF ServerRegisters, ServerOpens, ServerSeesClose, SocketCloses, ServerLoses, Ages, broker,
     entries
<1>8. ASSUME NEW i \in 1..MaxCalls, PayloadReady(i) \/ Taken(i) \/ Refused(i) \/ CallLost(i)
      PROVE  StagesFit'
  BY <1>1, <1>8 DEF PayloadReady, Taken, Refused, CallLost, entries
<1>9. ASSUME NEW x \in Clients, RetryFires(x)
      PROVE  StagesFit'
  BY <1>1, <1>9 DEF RetryFires
<1>10. ASSUME NEW c \in late, LateReady(c)
       PROVE  StagesFit'
  BY <1>1, <1>10 DEF LateReady, entries
<1>11. CASE BridgeFails \/ Cleans \/ UNCHANGED clientVars
  BY <1>1, <1>11 DEF BridgeFails, Cleans, clientVars, broker, entries
<1> QED
  BY <1>2, <1>3, <1>4, <1>5, <1>6, <1>7, <1>8, <1>9, <1>10, <1>11 DEF ClientNext, PlaytestEnds, PlayerLeaves

\* What a step does to the connection of one server.
LEMMA LinkSteps ==
    ASSUME BrokerTyped, [ClientNext]_clientVars, NEW s \in Servers
    PROVE  \/ link'[s] = link[s] /\ place'[s] = place[s]
           \/ link'[s] = "off"
           \/ ServerRegisters(s) /\ link'[s] = "taken" /\ place'[s] = place[s]
           \/ HearsReady(s) /\ link[s] = "taken" /\ place'[s] = place[s]
           \/ ServerOpens(s) /\ link[s] = "dial" /\ link'[s] = "open" /\ place'[s] = place[s]
<1> USE DEF BrokerTyped, LinkTyped
<1>1. CASE UNCHANGED <<link, place>>
  BY <1>1
<1>2. ASSUME NEW t \in Servers, ServerRegisters(t) \/ HearsReady(t) \/ ServerOpens(t)
      PROVE  \/ link'[s] = link[s] /\ place'[s] = place[s]
             \/ link'[s] = "off"
             \/ ServerRegisters(s) /\ link'[s] = "taken" /\ place'[s] = place[s]
             \/ HearsReady(s) /\ link[s] = "taken" /\ place'[s] = place[s]
             \/ ServerOpens(s) /\ link[s] = "dial" /\ link'[s] = "open" /\ place'[s] = place[s]
  <2>1. CASE t = s
    BY <1>2, <2>1 DEF ServerRegisters, HearsReady, ServerOpens
  <2>2. CASE t # s
    BY <1>2, <2>2 DEF ServerRegisters, HearsReady, ServerOpens
  <2> QED BY <2>1, <2>2
<1>3. ASSUME NEW t \in Servers, \E p \in Places : ServerLoses(t, p)
      PROVE  (link'[s] = link[s] /\ place'[s] = place[s]) \/ link'[s] = "off"
  BY <1>3 DEF ServerLoses
<1>4. ASSUME NEW t \in Servers, ServerSeesClose(t)
      PROVE  (link'[s] = link[s] /\ place'[s] = place[s]) \/ link'[s] = "off"
  BY <1>4 DEF ServerSeesClose
<1>5. ASSUME NEW t \in Servers, SocketCloses(t) \/ PlaytestEnds(t) \/ \E X \in SUBSET Group(t) : Ages(t, X)
      PROVE  UNCHANGED <<link, place>>
  BY <1>5 DEF SocketCloses, PlaytestEnds, Ages, Leave, broker
<1>6. ASSUME NEW x \in Clients,
             \/ PlayerJoins(x) \/ PlayerLeaves(x) \/ RetryFires(x) \/ Disconnects(x)
             \/ DisconnectReturns(x) \/ DisconnectLost(x) \/ DisconnectAgain(x)
      PROVE  UNCHANGED <<link, place>>
  BY <1>6 DEF PlayerJoins, PlayerLeaves, Leave, RetryFires, Disconnects, DisconnectReturns, DisconnectLost,
     DisconnectAgain
<1>7. ASSUME NEW i \in 1..MaxCalls, PayloadReady(i) \/ Taken(i) \/ Refused(i) \/ CallLost(i) \/ Returns(i)
      PROVE  UNCHANGED <<link, place>>
  BY <1>7 DEF PayloadReady, Taken, Refused, CallLost, Returns
<1>8. ASSUME NEW c \in late, LateReady(c)
      PROVE  UNCHANGED <<link, place>>
  BY <1>8 DEF LateReady
<1>9. BridgeFails \/ Cleans \/ UNCHANGED clientVars => UNCHANGED <<link, place>>
  BY DEF BridgeFails, Cleans, clientVars, broker
<1>10. CASE \E t \in Servers :
              \/ ServerRegisters(t) \/ HearsReady(t) \/ ServerOpens(t) \/ ServerSeesClose(t)
              \/ SocketCloses(t) \/ PlaytestEnds(t)
              \/ (\E p \in Places : ServerLoses(t, p)) \/ \E X \in SUBSET Group(t) : Ages(t, X)
  <2>1. PICK t \in Servers :
          \/ ServerRegisters(t) \/ HearsReady(t) \/ ServerOpens(t) \/ ServerSeesClose(t)
          \/ SocketCloses(t) \/ PlaytestEnds(t)
          \/ (\E p \in Places : ServerLoses(t, p)) \/ \E X \in SUBSET Group(t) : Ages(t, X)
    BY <1>10
  <2>2. CASE ServerRegisters(t) \/ HearsReady(t) \/ ServerOpens(t)
    BY <1>2, <2>2
  <2>3. CASE ServerSeesClose(t) \/ \E p \in Places : ServerLoses(t, p)
    BY <1>3, <1>4, <2>3
  <2>4. CASE SocketCloses(t) \/ PlaytestEnds(t) \/ \E X \in SUBSET Group(t) : Ages(t, X)
    BY <1>1, <1>5, <2>4
  <2> QED BY <2>1, <2>2, <2>3, <2>4
<1>11. ASSUME ~\E t \in Servers :
                 \/ ServerRegisters(t) \/ HearsReady(t) \/ ServerOpens(t) \/ ServerSeesClose(t)
                 \/ SocketCloses(t) \/ PlaytestEnds(t)
                 \/ (\E p \in Places : ServerLoses(t, p)) \/ \E X \in SUBSET Group(t) : Ages(t, X)
       PROVE  UNCHANGED <<link, place>>
  BY <1>6, <1>7, <1>8, <1>9, <1>11 DEF ClientNext
<1> QED BY <1>1, <1>10, <1>11

\* A registration of the only player leaves the servers as they are.
LEMMA LoneSteps ==
    ASSUME LonePlayer, BrokerTyped, NumbersAreOne,
           (\E i \in 1..MaxCalls : Taken(i)) \/ \E c \in late : LateReady(c)
    PROVE  /\ UNCHANGED <<link, place, entries, disconnect, owners, stream>>
           /\ \A s \in Servers : inst'[s] = inst[s] /\ idle'[s] = idle[s]
           /\ \A x \in Clients : /\ inst'[x] # NoTarget /\ inst[Phys[x]] # NoTarget
                                 /\ inst'[x].place = inst[Phys[x]].place
                                 /\ idle'[x] = 0
<1>1. UNCHANGED <<link, place, entries, disconnect>>
  <2>1. ASSUME NEW i \in 1..MaxCalls, Taken(i) PROVE UNCHANGED <<link, place, entries, disconnect>>
    BY <2>1, Zenon DEF Taken, entries
  <2>2. ASSUME NEW c \in late, LateReady(c) PROVE UNCHANGED <<link, place, entries, disconnect>>
    BY <2>2 DEF LateReady, entries
  <2> QED BY <2>1, <2>2
<1>2. PICK z \in Clients, p \in Places, ask \in {0, 1} : Ready(z, p, ask)
  <2>1. ASSUME NEW i \in 1..MaxCalls, Taken(i)
        PROVE  \E z \in Clients, p \in Places, ask \in {0, 1} : Ready(z, p, ask)
    BY <2>1, TakenGets
  <2>2. ASSUME NEW c \in late, LateReady(c)
        PROVE  \E z \in Clients, p \in Places, ask \in {0, 1} : Ready(z, p, ask)
    <3>1. c.client \in Clients /\ c.place \in Places /\ c.ask \in {0, 1}
      BY DEF BrokerTyped, CallsTyped, NumbersAreOne
    <3> QED BY <2>2, <3>1 DEF LateReady
  <2> QED BY <2>1, <2>2
<1>3. /\ inst' = [inst EXCEPT ![z] = [place |-> p, kind |-> "client", n |-> 1]]
      /\ idle' = [idle EXCEPT ![z] = 0]
      /\ 1 \in 1..MaxClients
      /\ inst[Phys[z]] # NoTarget /\ inst[Phys[z]].place = p
      /\ UNCHANGED <<owners, stream>>
  <2>1. \A y \in Clients : inst[y] # NoTarget => inst[y].n = 1
    BY DEF NumbersAreOne
  <2> QED BY <1>2, <2>1, LoneReady DEF BrokerTyped
<1>4. inst \in [Sessions -> Targets \cup {NoTarget}] /\ idle \in [Sessions -> 0..2] /\ z \in Sessions
  BY DEF BrokerTyped, Inv, Typed, TypeOK, Clients
<1>5. \A s \in Servers : s # z
  BY DEF Servers, Clients
<1>6. inst'[z] = [place |-> p, kind |-> "client", n |-> 1] /\ idle'[z] = 0
  BY <1>3, <1>4
<1>7. [place |-> p, kind |-> "client", n |-> 1] # NoTarget
  BY <1>3, BridgeAssumption DEF Targets
<1> QED BY <1>1, <1>3, <1>5, <1>6, <1>7 DEF LonePlayer

\* Only an entry that is held has a fresh coroutine.
LEMMA FreshIsHeld ==
    ASSUME CallsTyped, LoopInv, NEW i \in Flying(calls), calls[i].fresh
    PROVE  calls[i].client \in Clients /\ entry[calls[i].client] = "held"
<1>1. calls[i].client \in Clients
  BY FlyingCall, CallFields
<1>2. i \in Fresh(calls, calls[i].client)
  BY DEF Fresh
<1> QED BY <1>1, <1>2 DEF LoopInv

\* A server that does not register in this step keeps its registration, or loses it.
LEMMA ServerStays ==
    ASSUME LonePlayer, BrokerTyped, NumbersAreOne, [ClientNext]_clientVars,
           NEW s \in Servers, ~ServerRegisters(s), inst'[s] # NoTarget
    PROVE  inst'[s] = inst[s]
<1>1. s \in Sessions
  BY DEF Servers, Physical
<1>2. CASE (\E i \in 1..MaxCalls : Taken(i)) \/ \E c \in late : LateReady(c)
  BY <1>2, LoneSteps
<1>3. CASE ~((\E i \in 1..MaxCalls : Taken(i)) \/ \E c \in late : LateReady(c))
  BY <1>1, <1>3, RegistrationSteps
<1> QED BY <1>2, <1>3

LEMMA InPlaceKept ==
    ASSUME LonePlayer, BrokerTyped, NumbersAreOne, InPlace, LoopInv, [ClientNext]_clientVars
    PROVE  InPlace'
<1>1. ASSUME NEW s \in Servers, link'[s] # "off", inst'[s] # NoTarget
      PROVE  inst'[s].place = place'[s]
  <2>1. CASE ServerRegisters(s)
    <3>1. inst'[s].place = place[s]
      BY <1>1, <2>1, ServerEffect
    <3> QED BY <2>1, <3>1 DEF ServerRegisters
  <2>2. CASE ~ServerRegisters(s)
    <3>1. link[s] # "off" /\ place'[s] = place[s]
      BY <1>1, <2>2, LinkSteps
    <3>2. inst'[s] = inst[s]
      BY <1>1, <2>2, ServerStays
    <3> QED BY <1>1, <3>1, <3>2 DEF InPlace
  <2> QED BY <2>1, <2>2
<1>2. ASSUME NEW j \in Flying(calls'), calls'[j].fresh,
             link'[Phys[calls'[j].client]] \in {"dial", "open"}
      PROVE  calls'[j].place = place'[Phys[calls'[j].client]]
  <2>1. CallsTyped'
    BY BridgeKept, CallsKept
  <2>2. j \in 1..MaxCalls /\ calls'[j] \in Call
    BY <2>1 DEF CallsTyped, Flying
  <2>3. PICK s \in Servers : s = Phys[calls'[j].client]
    BY <2>2, CallFields, ClientsAssumption
  <2>4. CASE \E i \in 1..MaxCalls : Taken(i)
    <3>1. link' = link /\ place' = place
      BY <2>4, LoneSteps
    <3>2. /\ j \in Flying(calls) /\ calls'[j].client = calls[j].client
          /\ calls'[j].place = calls[j].place /\ calls'[j].fresh = calls[j].fresh
      BY <2>4, TakenGets
    <3> QED BY <1>2, <3>1, <3>2 DEF InPlace
  <2>5. CASE \A i \in 1..MaxCalls : ~Taken(i)
    <3>1. Went({}) /\ (HearsReady(s) => Went(Held(s)))
      BY <2>5, StepsWent
    <3>2. CASE HearsReady(s)
      <4>1. place'[s] = place[s]
        BY <3>2 DEF HearsReady
      <4>2. CASE Begun(calls'[j])
        BY <2>3, <4>1, <4>2 DEF Begun
      <4>3. CASE ~Begun(calls'[j])
        <5>1. /\ j \in Flying(calls) /\ calls'[j].client = calls[j].client
              /\ calls[j].fresh /\ calls[j].client \notin Held(s)
          BY <1>2, <3>1, <3>2, <4>3 DEF Went
        <5> QED BY <2>3, <5>1, FreshIsHeld DEF BrokerTyped, Held
      <4> QED BY <4>2, <4>3
    <3>3. CASE ~HearsReady(s)
      <4>1. link[s] \in {"dial", "open"} /\ place'[s] = place[s]
        BY <1>2, <2>3, <3>3, LinkSteps
      <4>2. CASE Begun(calls'[j])
        BY <2>3, <4>1, <4>2 DEF Begun
      <4>3. CASE ~Begun(calls'[j])
        <5>1. /\ j \in Flying(calls) /\ calls'[j].client = calls[j].client
              /\ calls'[j].place = calls[j].place /\ calls[j].fresh
          BY <1>2, <3>1, <4>3 DEF Went
        <5> QED BY <2>3, <4>1, <5>1 DEF InPlace
      <4> QED BY <4>2, <4>3
    <3> QED BY <3>2, <3>3
  <2> QED BY <2>4, <2>5
<1> QED BY <1>1, <1>2 DEF InPlace

\* What a step does to an entry, and to whether it counts as registered.
LEMMA EntrySteps ==
    ASSUME BrokerTyped, [ClientNext]_clientVars, NEW x \in Clients
    PROVE  /\ entry'[x] = "held" => entry[x] = "held" \/ PlayerJoins(x)
           /\ x \in registered' =>
                \/ x \in registered
                \/ \E i \in Flying(calls) :
                     calls[i].client = x /\ calls[i].fresh /\ calls[i].at = "taken"
<1> DEFINE Same == entry' = entry /\ registered' \subseteq registered
           Answered == \E i \in Flying(calls) :
                         calls[i].client = x /\ calls[i].fresh /\ calls[i].at = "taken"
<1>1. ASSUME NEW s \in Servers,
             \/ ServerRegisters(s) \/ HearsReady(s) \/ ServerOpens(s) \/ ServerSeesClose(s)
             \/ SocketCloses(s) \/ (\E p \in Places : ServerLoses(s, p))
             \/ \E X \in SUBSET Group(s) : Ages(s, X)
      PROVE  Same
  BY <1>1 DEF ServerRegisters, HearsReady, ServerOpens, ServerSeesClose, SocketCloses, ServerLoses, Ages,
     broker, entries, Unconfirmed
<1>2. ASSUME NEW X, Leave(X)
      PROVE  (entry'[x] = "held" => entry[x] = "held") /\ registered' = registered
  BY <1>2 DEF Leave
<1>3. ASSUME NEW y \in Clients, PlayerJoins(y)
      PROVE  (entry'[x] = "held" => entry[x] = "held" \/ PlayerJoins(x)) /\ registered' = registered
  <2>1. entry' = [entry EXCEPT ![y] = "held"] /\ registered' = registered
    BY <1>3 DEF PlayerJoins
  <2>2. y # x => entry'[x] = entry[x]
    BY <2>1 DEF BrokerTyped, EntriesTyped
  <2> QED BY <1>3, <2>1, <2>2
<1>4. ASSUME NEW y \in Clients,
             \/ RetryFires(y) \/ Disconnects(y) \/ DisconnectReturns(y) \/ DisconnectLost(y)
             \/ DisconnectAgain(y)
      PROVE  Same
  BY <1>4 DEF RetryFires, Disconnects, DisconnectReturns, DisconnectLost, DisconnectAgain, entries
<1>5. ASSUME NEW i \in 1..MaxCalls, PayloadReady(i) \/ Refused(i) \/ CallLost(i)
      PROVE  Same
  BY <1>5 DEF PayloadReady, Refused, CallLost, entries
<1>6. ASSUME NEW i \in 1..MaxCalls, Taken(i)
      PROVE  Same
  <2>1. UNCHANGED entries
    BY <1>6, Zenon DEF Taken
  <2> QED BY <2>1 DEF entries
<1>7. ASSUME NEW i \in 1..MaxCalls, Returns(i)
      PROVE  entry' = entry /\ (x \in registered' => x \in registered \/ Answered)
  <2>1. entry' = entry /\ i \in Flying(calls)
    BY <1>7 DEF Returns
  <2>2. \/ registered' \subseteq registered
        \/ /\ calls[i].fresh /\ calls[i].at = "taken"
           /\ registered' = registered \cup {calls[i].client}
    BY <1>7 DEF Returns
  <2> QED BY <2>1, <2>2
<1>8. ASSUME NEW c \in late, LateReady(c)
      PROVE  Same
  BY <1>8 DEF LateReady, entries
<1>9. BridgeFails \/ Cleans \/ UNCHANGED clientVars => Same
  BY DEF BridgeFails, Cleans, clientVars, broker, entries
<1>10. \A s : PlaytestEnds(s) => Leave(Held(s))
  BY DEF PlaytestEnds
<1>11. \A y : PlayerLeaves(y) => Leave({y})
  BY DEF PlayerLeaves
<1>12. CASE Same
  BY <1>12
<1>13. CASE \E X : Leave(X)
  BY <1>2, <1>13
<1>14. CASE \E y \in Clients : PlayerJoins(y)
  BY <1>3, <1>14
<1>15. CASE \E i \in 1..MaxCalls : Returns(i)
  BY <1>7, <1>15
<1> HIDE DEF Same
<1>16. CASE \E s \in Servers :
              \/ ServerRegisters(s) \/ HearsReady(s) \/ ServerOpens(s) \/ ServerSeesClose(s)
              \/ SocketCloses(s) \/ PlaytestEnds(s)
              \/ (\E p \in Places : ServerLoses(s, p)) \/ \E X \in SUBSET Group(s) : Ages(s, X)
  BY <1>1, <1>10, <1>12, <1>13, <1>16
<1>17. CASE \E y \in Clients :
              \/ PlayerJoins(y) \/ PlayerLeaves(y) \/ RetryFires(y)
              \/ Disconnects(y) \/ DisconnectReturns(y) \/ DisconnectLost(y) \/ DisconnectAgain(y)
  BY <1>4, <1>11, <1>12, <1>13, <1>14, <1>17
<1>18. CASE \E i \in 1..MaxCalls :
              PayloadReady(i) \/ Taken(i) \/ Refused(i) \/ CallLost(i) \/ Returns(i)
  BY <1>5, <1>6, <1>12, <1>15, <1>18
<1>19. CASE (\E c \in late : LateReady(c)) \/ BridgeFails \/ Cleans \/ UNCHANGED clientVars
  BY <1>8, <1>9, <1>12, <1>19
<1> QED BY <1>16, <1>17, <1>18, <1>19 DEF ClientNext

\* Only the bridge's answer makes a client one that was renewed, and of a server
\* that hears it is registered there is none left.
LEMMA RenewedSteps ==
    ASSUME BrokerTyped, StagesFit, LoopInv, [ClientNext]_clientVars,
           \A i \in 1..MaxCalls : ~Taken(i), NEW s \in Servers, NEW x \in Renewed(s)'
    PROVE  x \in Renewed(s) /\ ~HearsReady(s)
<1>1. /\ x \in Clients /\ Phys[x] = s /\ entry'[x] = "held"
      /\ \/ x \in registered'
         \/ \E j \in Flying(calls') :
              calls'[j].client = x /\ calls'[j].fresh /\ calls'[j].at = "taken"
  BY DEF Renewed, Held
<1>2. Went({}) /\ (HearsReady(s) => Went(Held(s)))
  BY StepsWent
<1>3. ASSUME NEW j \in Flying(calls'),
             calls'[j].client = x, calls'[j].fresh, calls'[j].at = "taken"
      PROVE  /\ j \in Flying(calls) /\ calls[j].client = x /\ calls[j].fresh /\ calls[j].at = "taken"
             /\ HearsReady(s) => x \notin Held(s)
  <2>1. ~Begun(calls'[j])
    BY <1>3 DEF Begun
  <2> QED BY <1>2, <1>3, <2>1 DEF Went
<1>4. entry[x] = "held"
  <2>1. CASE PlayerJoins(x)
    <3>1. entry[x] = "none" /\ registered' = registered
      BY <2>1 DEF PlayerJoins
    <3>2. x \notin registered'
      BY <1>1, <3>1 DEF StagesFit
    <3> QED BY <1>1, <1>3, <3>1, <3>2, FreshIsHeld DEF BrokerTyped
  <2>2. CASE ~PlayerJoins(x)
    BY <1>1, <2>2, EntrySteps
  <2> QED BY <2>1, <2>2
<1>5. x \in Held(s)
  BY <1>1, <1>4 DEF Held
<1>6. ~HearsReady(s)
  <2>1. SUFFICES ASSUME HearsReady(s) PROVE FALSE
    OBVIOUS
  <2>2. x \notin registered'
    BY <1>5, <2>1 DEF HearsReady, Unconfirmed
  <2> QED BY <1>1, <1>3, <1>5, <2>1, <2>2
<1>7. x \in registered \/ \E j \in Flying(calls) :
        calls[j].client = x /\ calls[j].fresh /\ calls[j].at = "taken"
  BY <1>1, <1>3, EntrySteps
<1> QED BY <1>5, <1>6, <1>7 DEF Renewed

\* An unregistration that spares the server spares every client it does not name.
LEMMA UnregisterSpares ==
    ASSUME BrokerTyped, NEW S, Unregister(S), NEW s \in Servers, inst[s] # NoTarget,
           inst'[s] # NoTarget, NEW x \in Clients, Phys[x] = s
    PROVE  /\ s \notin S
           /\ x \notin S => inst'[x] = inst[x] /\ idle'[x] = idle[x] /\ idle'[s] = idle[s]
<1>1. s \in Sessions /\ x \in Sessions
  BY DEF Servers, Physical, Clients
<1>2. /\ inst' = Without(WithClients(S))
      /\ idle' = [y \in Sessions |-> IF y \in WithClients(S) THEN 0 ELSE idle[y]]
  BY DEF Unregister
<1>3. s \notin WithClients(S)
  BY <1>1, <1>2 DEF Without
<1>4. s \notin S
  BY <1>3 DEF WithClients
<1>5. x \notin S => x \notin WithClients(S)
  BY <1>4 DEF WithClients
<1> QED BY <1>1, <1>2, <1>3, <1>4, <1>5 DEF Without

\* A step in which neither the server nor a client registers leaves alone what
\* stands, if it leaves the server.
LEMMA Undisturbed ==
    ASSUME LonePlayer, BrokerTyped, KnownInv, [ClientNext]_clientVars,
           \A i \in 1..MaxCalls : ~Taken(i), \A c \in late : ~LateReady(c),
           NEW s \in Servers, ~ServerRegisters(s), Live(s), inst'[s] # NoTarget,
           NEW x \in Renewed(s)
    PROVE  /\ inst'[x] = inst[x]
           /\ link[s] = "dial" => idle'[x] <= idle'[s]
<1> DEFINE Done == inst'[x] = inst[x] /\ (link[s] = "dial" => idle'[x] <= idle'[s])
<1>1. /\ s \in Sessions /\ s \in Physical /\ Phys[s] = s
      /\ x \in Clients /\ x \in Sessions /\ Phys[x] = s /\ x \in Group(s) /\ entry[x] = "held"
  BY DEF Servers, Physical, Clients, Renewed, Held, Group
<1>2. /\ inst[s] # NoTarget /\ inst[s].place = place[s]
      /\ link[s] = "dial" \/ (link[s] = "open" /\ s \in Open)
      /\ inst[x] # NoTarget /\ inst[x].place = place[s]
      /\ link[s] = "dial" => idle[x] <= idle[s]
  BY DEF KnownInv, Standing, InPlace, Live
<1>3. idle \in [Sessions -> 0..2] /\ (s \in Open => owners[s] # {})
  <2>1. owners[s] = {stream[s]} \ {NoGen}
    BY <1>1 DEF BrokerTyped, Inv, OwnersMatchStreams
  <2>2. s \in Open => stream[s] \in owners[s]
    BY <2>1 DEF Open
  <2> QED BY <2>2 DEF BrokerTyped, Inv, Typed, TypeOK
<1>4. ASSUME inst'[x] = inst[x], idle'[x] = idle[x], idle'[s] = idle[s]
      PROVE  Done
  BY <1>2, <1>4
<1>5. ASSUME inst'[x] = inst[x], idle'[x] = 0, idle'[s] = 0
      PROVE  Done
  BY <1>5
<1>6. ASSUME NEW t \in Servers, ServerRegisters(t)
      PROVE  Done
  <2>1. s \in Servers \ {t}
    BY <1>6
  <2>2. s \in Group(s)
    BY <1>1 DEF Group
  <2> QED BY <1>1, <1>4, <1>6, <2>1, <2>2, ServerEffect
<1>7. ASSUME NEW t \in Servers, ServerOpens(t) \/ SocketCloses(t)
      PROVE  Done
  <2>1. inst' = inst /\ Touch(t)
    BY <1>7 DEF ServerOpens, OpenStream, SocketCloses, CloseStream
  <2>2. CASE t = s
    BY <1>1, <1>2, <1>5, <2>1, <2>2 DEF Touch
  <2>3. CASE t # s
    BY <1>1, <1>4, <2>1, <2>3 DEF Touch
  <2> QED BY <2>2, <2>3
<1>8. ASSUME NEW t \in Servers, NEW X \in SUBSET Group(t), Ages(t, X)
      PROVE  Done
  <2>1. /\ inst' = inst
        /\ idle' = [y \in Sessions |-> IF y \in X THEN idle[y] + 1 ELSE idle[y]]
        /\ link[t] = "dial" => \A y \in Renewed(t) : idle'[y] <= idle'[t]
    BY <1>8 DEF Ages
  <2>2. CASE t = s
    BY <2>1, <2>2
  <2>3. CASE t # s
    <3>1. s \notin X /\ x \notin X
      BY <1>1, <2>3 DEF Group
    <3> QED BY <1>1, <1>4, <2>1, <3>1
  <2> QED BY <2>2, <2>3
<1>9. ASSUME NEW S, Unregister(S), x \notin S
      PROVE  Done
  BY <1>1, <1>2, <1>4, <1>9, UnregisterSpares
<1>10. ASSUME NEW y \in Clients, Disconnects(y)
       PROVE  Done
  <2>1. y = x /\ disconnect[y] # "none"
    BY <1>1, <1>10 DEF LonePlayer, Disconnects
  <2> QED BY <1>1, <2>1 DEF KnownInv, StagesFit
<1>11. ASSUME BridgeFails
       PROVE  Done
  <2>1. CASE Restart
    BY <1>1, <2>1 DEF Restart
  <2>2. ASSUME NEW p \in Places, UnregisterPlace(p)
        PROVE  Done
    <3>1. PICK S : S = {y \in Registered : inst[y].place = p} /\ Unregister(S)
      BY <2>2 DEF UnregisterPlace
    <3>2. s \notin S
      BY <1>1, <1>2, <3>1, UnregisterSpares
    <3>3. x \notin S
      BY <1>1, <1>2, <3>1, <3>2 DEF Registered
    <3> QED BY <1>9, <3>1, <3>3
  <2> QED BY <1>11, <2>1, <2>2 DEF BridgeFails
<1>12. ASSUME Cleans
       PROVE  Done
  <2>1. PICK S : S = {y \in Registered : Undelivered(y) /\ idle[y] = 2} /\ Unregister(S)
    BY <1>12 DEF Cleans, CleanupStale
  <2>2. s \notin S
    BY <1>1, <1>2, <2>1, UnregisterSpares
  <2>3. x \notin S
    <3>1. SUFFICES ASSUME Undelivered(x), idle[x] = 2 PROVE FALSE
      BY <2>1
    <3>2. Undelivered(s) /\ idle[s] # 2
      BY <1>1, <1>2, <2>1, <2>2, <3>1 DEF Undelivered, Registered
    <3>3. link[s] = "dial"
      BY <1>1, <1>2, <1>3, <3>2 DEF Undelivered
    <3> QED BY <1>1, <1>2, <1>3, <3>1, <3>2, <3>3
  <2> QED BY <1>9, <2>1, <2>3
<1>13. CASE UNCHANGED vars
  BY <1>4, <1>13 DEF vars
<1>14. ASSUME NEW t \in Servers,
              \/ HearsReady(t) \/ ServerSeesClose(t) \/ PlaytestEnds(t)
              \/ \E p \in Places : ServerLoses(t, p)
       PROVE  UNCHANGED vars
  BY <1>14 DEF HearsReady, ServerSeesClose, PlaytestEnds, ServerLoses, Leave
<1>15. ASSUME NEW y \in Clients,
              \/ PlayerJoins(y) \/ PlayerLeaves(y) \/ RetryFires(y)
              \/ DisconnectReturns(y) \/ DisconnectLost(y) \/ DisconnectAgain(y)
       PROVE  UNCHANGED vars
  BY <1>15 DEF PlayerJoins, PlayerLeaves, Leave, RetryFires, DisconnectReturns, DisconnectLost,
     DisconnectAgain
<1>16. ASSUME NEW i \in 1..MaxCalls, PayloadReady(i) \/ Refused(i) \/ CallLost(i) \/ Returns(i)
       PROVE  UNCHANGED vars
  BY <1>16 DEF PayloadReady, Refused, CallLost, Returns
<1>17. UNCHANGED clientVars => UNCHANGED vars
  BY DEF clientVars, vars
<1>18. CASE \E t \in Servers :
              \/ ServerRegisters(t) \/ HearsReady(t) \/ ServerOpens(t) \/ ServerSeesClose(t)
              \/ SocketCloses(t) \/ PlaytestEnds(t)
              \/ (\E p \in Places : ServerLoses(t, p)) \/ \E X \in SUBSET Group(t) : Ages(t, X)
  BY <1>6, <1>7, <1>8, <1>13, <1>14, <1>18
<1>19. CASE \E y \in Clients :
              \/ PlayerJoins(y) \/ PlayerLeaves(y) \/ RetryFires(y)
              \/ Disconnects(y) \/ DisconnectReturns(y) \/ DisconnectLost(y) \/ DisconnectAgain(y)
  BY <1>10, <1>13, <1>15, <1>19
<1>20. CASE \E i \in 1..MaxCalls :
              PayloadReady(i) \/ Taken(i) \/ Refused(i) \/ CallLost(i) \/ Returns(i)
  BY <1>13, <1>16, <1>20
<1>21. CASE BridgeFails \/ Cleans \/ UNCHANGED clientVars
  BY <1>11, <1>12, <1>13, <1>17, <1>21
<1> QED BY <1>18, <1>19, <1>20, <1>21 DEF ClientNext

\* A server gets an open stream by opening it.
LEMMA OpenSteps ==
    ASSUME LonePlayer, BrokerTyped, NumbersAreOne, [ClientNext]_clientVars,
           NEW s \in Servers, s \in Open'
    PROVE  s \in Open \/ ServerOpens(s)
<1>1. s \in Physical /\ s \in Sessions
  BY DEF Servers, Physical
<1>2. stream'[s] # NoGen
  BY DEF Open
<1>3. CASE stream'[s] = stream[s]
  BY <1>1, <1>2, <1>3 DEF Open
<1>4. ASSUME NEW t \in Servers, ServerOpens(t) \/ SocketCloses(t)
      PROVE  s \in Open \/ ServerOpens(s)
  <2>1. CASE t = s /\ ServerOpens(t)
    BY <2>1
  <2>2. CASE SocketCloses(t)
    <3>1. t \in Open /\ stream' = [stream EXCEPT ![t] = NoGen]
      BY <2>2 DEF SocketCloses, CloseStream
    <3>2. stream'[s] = stream[s] \/ s = t
      BY <3>1 DEF BrokerTyped, Inv, Typed, TypeOK
    <3> QED BY <1>3, <3>1, <3>2
  <2>3. CASE t # s /\ ServerOpens(t)
    <3>1. \E g : stream' = [stream EXCEPT ![t] = g]
      BY <2>3 DEF ServerOpens, OpenStream
    <3>2. stream'[s] = stream[s]
      BY <2>3, <3>1 DEF BrokerTyped, Inv, Typed, TypeOK
    <3> QED BY <1>3, <3>2
  <2> QED BY <1>4, <2>1, <2>2, <2>3
<1>5. ASSUME NEW S, Unregister(S)
      PROVE  stream'[s] = stream[s]
  <2>1. stream' = [t \in Physical |-> IF t \in WithClients(S) THEN NoGen ELSE stream[t]]
    BY <1>5 DEF Unregister
  <2> QED BY <1>1, <1>2, <2>1
<1>6. ASSUME NEW t \in Servers, ServerRegisters(t)
      PROVE  stream' = stream
  BY <1>6, ServerEffect
<1>7. CASE (\E i \in 1..MaxCalls : Taken(i)) \/ \E c \in late : LateReady(c)
  BY <1>3, <1>7, LoneSteps
<1>8. ASSUME NEW t \in Servers,
             \/ HearsReady(t) \/ ServerSeesClose(t) \/ PlaytestEnds(t)
             \/ (\E p \in Places : ServerLoses(t, p)) \/ \E X \in SUBSET Group(t) : Ages(t, X)
      PROVE  stream' = stream
  BY <1>8 DEF HearsReady, ServerSeesClose, PlaytestEnds, ServerLoses, Leave, Ages, vars, streams
<1>9. ASSUME NEW y \in Clients,
             \/ PlayerJoins(y) \/ PlayerLeaves(y) \/ RetryFires(y) \/ Disconnects(y)
             \/ DisconnectReturns(y) \/ DisconnectLost(y) \/ DisconnectAgain(y)
      PROVE  stream'[s] = stream[s]
  BY <1>5, <1>9 DEF PlayerJoins, PlayerLeaves, Leave, RetryFires, Disconnects, Disconnect,
     DisconnectReturns, DisconnectLost, DisconnectAgain, vars
<1>10. ASSUME NEW i \in 1..MaxCalls, PayloadReady(i) \/ Refused(i) \/ CallLost(i) \/ Returns(i)
       PROVE  stream' = stream
  BY <1>10 DEF PayloadReady, Refused, CallLost, Returns, vars
<1>11. CASE BridgeFails \/ Cleans
  <2>1. Restart => stream'[s] = NoGen
    BY <1>1 DEF Restart
  <2> QED BY <1>2, <1>3, <1>5, <1>11, <2>1 DEF BridgeFails, Cleans, UnregisterPlace, CleanupStale
<1>12. CASE UNCHANGED clientVars
  BY <1>3, <1>12 DEF clientVars, vars
<1>13. CASE \E t \in Servers :
              \/ ServerRegisters(t) \/ HearsReady(t) \/ ServerOpens(t) \/ ServerSeesClose(t)
              \/ SocketCloses(t) \/ PlaytestEnds(t)
              \/ (\E p \in Places : ServerLoses(t, p)) \/ \E X \in SUBSET Group(t) : Ages(t, X)
  BY <1>3, <1>4, <1>6, <1>8, <1>13
<1>14. CASE \E y \in Clients :
              \/ PlayerJoins(y) \/ PlayerLeaves(y) \/ RetryFires(y)
              \/ Disconnects(y) \/ DisconnectReturns(y) \/ DisconnectLost(y) \/ DisconnectAgain(y)
  BY <1>3, <1>9, <1>14
<1>15. CASE \E i \in 1..MaxCalls :
              PayloadReady(i) \/ Taken(i) \/ Refused(i) \/ CallLost(i) \/ Returns(i)
  BY <1>3, <1>7, <1>10, <1>15
<1> QED BY <1>7, <1>11, <1>12, <1>13, <1>14, <1>15 DEF ClientNext

LEMMA StandingKept ==
    ASSUME LonePlayer, BrokerTyped, LoopInv, KnownInv, [ClientNext]_clientVars, NEW s \in Servers
    PROVE  Standing(s)'
<1> SUFFICES ASSUME Live(s)', NEW x \in Renewed(s)'
             PROVE  /\ inst'[x] # NoTarget /\ inst'[x].place = place'[s]
                    /\ link'[s] = "dial" => idle'[x] <= idle'[s]
  BY DEF Standing
<1>1. /\ inst'[s] # NoTarget
      /\ link'[s] = "dial" \/ (link'[s] = "open" /\ s \in Open')
  BY DEF Live
<1>2. CASE (\E i \in 1..MaxCalls : Taken(i)) \/ \E c \in late : LateReady(c)
  <2>1. /\ UNCHANGED <<link, place>> /\ inst'[s] = inst[s] /\ idle'[s] = idle[s]
        /\ \A y \in Clients : /\ inst'[y] # NoTarget /\ inst'[y].place = inst[Phys[y]].place
                              /\ idle'[y] = 0
    BY <1>2, LoneSteps DEF KnownInv
  <2>2. x \in Clients /\ Phys[x] = s /\ s \in Sessions
    BY DEF Renewed, Held, Servers, Physical
  <2>3. inst[s].place = place[s]
    BY <1>1, <2>1 DEF KnownInv, InPlace
  <2>4. 0 <= idle[s]
    BY <2>2 DEF BrokerTyped, Inv, Typed, TypeOK
  <2> QED BY <2>1, <2>2, <2>3, <2>4
<1>3. CASE ~((\E i \in 1..MaxCalls : Taken(i)) \/ \E c \in late : LateReady(c))
  <2>1. x \in Renewed(s) /\ ~HearsReady(s)
    BY <1>3, RenewedSteps DEF KnownInv
  <2>2. /\ \/ link'[s] = link[s]
           \/ ServerOpens(s) /\ link[s] = "dial" /\ link'[s] = "open"
        /\ place'[s] = place[s] /\ ~ServerRegisters(s)
    <3>1. ~ServerRegisters(s)
      <4>1. ServerRegisters(s) => link'[s] = "taken"
        BY DEF ServerRegisters, BrokerTyped, LinkTyped
      <4> QED BY <1>1, <4>1
    <3> QED BY <1>1, <2>1, <3>1, LinkSteps
  <2>3. inst'[s] = inst[s]
    BY <1>1, <2>2, ServerStays DEF KnownInv
  <2>4. Live(s)
    <3>1. CASE ServerOpens(s) /\ link[s] = "dial"
      BY <1>1, <2>3, <3>1 DEF Live
    <3>2. CASE link'[s] = link[s] /\ link[s] # "dial"
      <4>1. ~ServerOpens(s)
        BY <3>2 DEF ServerOpens
      <4> QED BY <1>1, <2>3, <3>2, <4>1, OpenSteps DEF Live, KnownInv
    <3>3. CASE link'[s] = link[s] /\ link[s] = "dial"
      BY <1>1, <2>3, <3>3 DEF Live
    <3> QED BY <2>2, <3>1, <3>2, <3>3
  <2>5. inst'[x] = inst[x] /\ (link[s] = "dial" => idle'[x] <= idle'[s])
    BY <1>1, <1>3, <2>1, <2>2, <2>4, Undisturbed
  <2>6. inst[x] # NoTarget /\ inst[x].place = place[s]
    BY <2>1, <2>4 DEF KnownInv, Standing
  <2>7. link'[s] = "dial" => link[s] = "dial"
    BY <2>2
  <2> QED BY <2>2, <2>5, <2>6, <2>7
<1> QED BY <1>2, <1>3

\* With one player in the playtest, a client that its broker takes for registered
\* is one the bridge knows by the number the broker has for it, whenever the
\* server's stream is open: whatever is lost, late, restarted, unregistered or
\* forgotten, and however often the server registers anew (refreshAllLogicalRegistrations,
\* registerProxyEntry, cleanupStaleInstances).
THEOREM KnownToTheBridge ==
    ASSUME LonePlayer PROVE ClientSpec => []KnownWhileOpen
<1>1. ClientInit => KnownInv
  <2> SUFFICES ASSUME ClientInit PROVE KnownInv
    OBVIOUS
  <2>1. Flying(calls) = {} /\ late = {} /\ registered = {}
    BY DEF ClientInit, Flying
  <2>2. NumbersAreOne /\ StagesFit /\ InPlace
    BY <2>1 DEF NumbersAreOne, StagesFit, InPlace, ClientInit, Init, Clients
  <2>3. \A s \in Servers : ~Live(s)
    BY DEF Live, ClientInit
  <2> QED BY <2>2, <2>3 DEF KnownInv, Standing
<1>2. BrokerTyped /\ LoopInv /\ KnownInv /\ [ClientNext]_clientVars => KnownInv'
  <2> SUFFICES ASSUME BrokerTyped, LoopInv, KnownInv, [ClientNext]_clientVars PROVE KnownInv'
    OBVIOUS
  <2>1. NumbersAreOne' /\ StagesFit' /\ InPlace'
    BY NumbersKept, StagesKept, InPlaceKept DEF KnownInv
  <2>2. \A s \in Servers : Standing(s)'
    BY StandingKept
  <2> QED BY <2>1, <2>2 DEF KnownInv
<1>3. BrokerTyped /\ KnownInv => KnownWhileOpen
  <2> SUFFICES ASSUME BrokerTyped, KnownInv, NEW x \in registered,
                      entry[x] = "held", link[Phys[x]] = "open", Phys[x] \in Open
               PROVE  inst[x] # NoTarget /\ inst[x].n = role[x]
    BY DEF KnownWhileOpen
  <2>1. x \in Clients /\ role[x] # 0
    BY DEF BrokerTyped, EntriesTyped
  <2>2. PICK s \in Servers : s = Phys[x]
    BY <2>1, ClientsAssumption
  <2>3. Live(s) /\ x \in Renewed(s)
    BY <2>1, <2>2 DEF Live, Renewed, Held, BrokerTyped, Inv, CarriedByRegistered
  <2>4. inst[x] # NoTarget
    BY <2>3 DEF KnownInv, Standing
  <2> QED BY <2>1, <2>4 DEF KnownInv, NumbersAreOne
<1> QED
  BY BrokerTypedAlways, LoopAlways, <1>1, <1>2, <1>3, PTL DEF ClientSpec
=============================================================================
