------------------------- MODULE StudioBridgeProofs -------------------------
(***************************************************************************)
(* Proofs about StudioBridge, for every set of sessions, places, requests  *)
(* and generations and every limit on streams.                             *)
(***************************************************************************)
EXTENDS StudioBridge, TLAPS

-----------------------------------------------------------------------------
(* What pump does to the claims. *)

\* Whatever streams are pumped, a claim either stays as the caller left it or,
\* where there was none, is given to an open stream, and then the request waits.
LEMMA PumpEffect ==
    ASSUME NEW N, NEW c, NEW b, NEW frame,
           c \in [Requests -> Owners \cup {NoOwner}],
           b \in [Physical -> BOOLEAN],
           stream' \in [Physical -> Gens \cup {NoGen}],
           Pump(N, c, b, frame)
    PROVE  /\ claim' \in [Requests -> Owners \cup {NoOwner}]
           /\ blocked' \in [Physical -> BOOLEAN]
           /\ \A r \in Requests :
                \/ claim'[r] = c[r]
                \/ /\ c[r] = NoOwner
                   /\ status'[r] = "waiting"
                   /\ claim'[r] \in Owners
                   /\ stream'[claim'[r][1]] = claim'[r][2]
  <1> DEFINE live == {s \in N \cap Physical : Writable(s, b)}
             due == [s \in live |-> Deliverable(s, c)]
             carrier(r) == CHOOSE s \in live : r \in due[s]
  <1>1. PICK taken \in SUBSET UNION {due[s] : s \in live}, full \in SUBSET live :
          /\ claim' = [r \in Requests |->
                         IF r \in taken THEN <<carrier(r), stream'[carrier(r)]>> ELSE c[r]]
          /\ blocked' = [s \in Physical |-> b[s] \/ s \in full]
    BY Zenon DEF Pump
  <1>2. blocked' \in [Physical -> BOOLEAN]
    <2>1. \A s \in Physical : (b[s] \/ s \in full) \in BOOLEAN
      OBVIOUS
    <2> QED BY <1>1, <2>1, Zenon
  <1>3. ASSUME NEW r \in Requests, r \in taken
        PROVE  /\ claim'[r] \in Owners
               /\ stream'[claim'[r][1]] = claim'[r][2]
               /\ c[r] = NoOwner
               /\ status'[r] = "waiting"
    <2> DEFINE s == carrier(r)
    <2>1. PICK t \in live : r \in due[t]
      BY <1>3
    <2>2. s \in live /\ r \in due[s]
      BY <2>1
    <2>3. s \in Physical /\ stream'[s] \in Gens
      BY <2>2 DEF Writable
    <2>4. claim'[r] = <<s, stream'[s]>>
      BY <1>1, <1>3
    <2>5. r \in Deliverable(s, c)
      BY <2>2
    <2>6. c[r] = NoOwner /\ status'[r] = "waiting"
      BY <2>5 DEF Deliverable
    <2> HIDE DEF s
    <2> QED BY <2>3, <2>4, <2>6 DEF Owners
  <1>4. ASSUME NEW r \in Requests, r \notin taken
        PROVE  claim'[r] = c[r]
    BY <1>1, <1>4
  <1>5. claim' \in [Requests -> Owners \cup {NoOwner}]
    <2>1. \A r \in Requests : claim'[r] \in Owners \cup {NoOwner}
      BY <1>3, <1>4
    <2>2. claim' = [r \in Requests |-> claim'[r]]
      <3> HIDE DEF carrier
      <3> QED BY <1>1
    <2> QED BY <2>1, <2>2, Zenon
  <1> QED BY <1>2, <1>3, <1>4, <1>5

-----------------------------------------------------------------------------
(* Types. *)

\* A session is registered in the role it announced, so that a client keeps the
\* number of a client.
KindsMatch == \A x \in Registered : inst[x].kind = Kind[x]

\* A request that waits is addressed.
WaitingAddressed == \A r \in Waiting : target[r] # NoTarget

Typed == TypeOK /\ KindsMatch /\ WaitingAddressed

\* The helpers return what their names say.
LEMMA HelperTypes ==
    ASSUME TypeOK
    PROVE  /\ \A R : Unclaim(R) \in [Requests -> Owners \cup {NoOwner}]
           /\ \A R : Forget(R) \in [Requests -> Targets \cup {NoTarget}]
           /\ \A S : Without(S) \in [Sessions -> Targets \cup {NoTarget}]
           /\ \A R, how : Finish(R, how) /\ how \in Settled =>
                 status' \in [Requests -> {"new", "waiting"} \cup Settled]
           /\ \A s : Touch(s) => idle' \in [Sessions -> 0..2]
  BY DEF TypeOK, Unclaim, Forget, Without, Finish, Touch

\* Only a client's tuple has a number other than 0.
LEMMA AssignedTarget ==
    ASSUME Typed, NEW x \in Sessions, NEW p \in Places,
           NEW ask \in 0..MaxClients, NEW n \in 0..MaxClients,
           Assigned(x, p, ask, n)
    PROVE  [place |-> p, kind |-> Kind[x], n |-> n] \in Targets
  <1>1. CASE Kind[x] # "client"
    BY <1>1, SessionAssumption DEF Assigned, Targets
  <1>2. CASE Kind[x] = "client" /\ ask # 0
    BY <1>2, BridgeAssumption DEF Assigned, Targets
  <1>3. CASE Kind[x] = "client" /\ ask = 0 /\ inst[x] # NoTarget
    <2>1. inst[x] \in Targets /\ inst[x].kind = "client" /\ n = inst[x].n
      BY <1>3 DEF Assigned, Typed, TypeOK, KindsMatch, Registered
    <2>2. inst[x].n \in 1..MaxClients
      BY <2>1 DEF Targets
    <2> QED BY <1>3, <2>1, <2>2 DEF Targets
  <1>4. CASE Kind[x] = "client" /\ ask = 0 /\ inst[x] = NoTarget
    BY <1>4, BridgeAssumption DEF Assigned, Targets
  <1> QED BY <1>1, <1>2, <1>3, <1>4

\* A request that changes place with a session keeps a target.
LEMMA MovedTarget ==
    ASSUME NEW t \in Targets, NEW p \in Places
    PROVE  [t EXCEPT !.place = p] \in Targets
  BY DEF Targets

\* Registering x as a tuple keeps the types.
LEMMA RegisterTyped ==
    ASSUME Typed, NEW x \in Sessions, NEW tuple \in Targets, tuple.kind = Kind[x],
           Register(x, tuple)
    PROVE  Typed'
  <1> DEFINE gone == WithClients(Holders(x, tuple))
             rejected == IF Holders(x, tuple) = {} THEN {} ELSE Unhandled(Without(gone))
             moved == {r \in Waiting \ rejected :
                         /\ inst[x] # NoTarget
                         /\ target[r].place = inst[x].place}
  <1>1. /\ inst' = [Without(gone) EXCEPT ![x] = tuple]
        /\ idle' = [y \in Sessions |-> IF y \in gone \cup {x} THEN 0 ELSE idle[y]]
        /\ Finish(rejected, "disconnected")
        /\ target' = [r \in Requests |->
                        IF r \in moved THEN [target[r] EXCEPT !.place = tuple.place]
                                       ELSE Forget(rejected)[r]]
        /\ UNCHANGED <<owners, stream, arrivals>>
        /\ Pump({Phys[x]}, Unclaim(rejected), blocked, "last")
    BY Zenon DEF Register
  <1> HIDE DEF gone, rejected
  <1>2. inst' \in [Sessions -> Targets \cup {NoTarget}]
    BY <1>1, HelperTypes DEF Typed
  <1>3. idle' \in [Sessions -> 0..2]
    BY <1>1 DEF Typed, TypeOK
  <1>4. status' \in [Requests -> {"new", "waiting"} \cup Settled]
    BY <1>1, HelperTypes DEF Typed, Settled
  <1>5. target' \in [Requests -> Targets \cup {NoTarget}]
    <2>1. tuple.place \in Places
      BY DEF Targets
    <2>2. \A r \in Requests : target[r] \in Targets =>
            [target[r] EXCEPT !.place = tuple.place] \in Targets
      BY <2>1, MovedTarget
    <2>3. \A r \in moved : target[r] \in Targets
      BY DEF Typed, TypeOK, WaitingAddressed, Waiting
    <2> QED BY <1>1, <2>2, <2>3, HelperTypes DEF Typed
  <1>6. /\ owners' \in [Physical -> SUBSET Gens]
        /\ stream' \in [Physical -> Gens \cup {NoGen}]
        /\ arrivals' \in Seq(Requests)
    BY <1>1 DEF Typed, TypeOK
  <1>7. claim' \in [Requests -> Owners \cup {NoOwner}] /\ blocked' \in [Physical -> BOOLEAN]
    <2>1. /\ Unclaim(rejected) \in [Requests -> Owners \cup {NoOwner}]
          /\ blocked \in [Physical -> BOOLEAN]
      BY HelperTypes DEF Typed, TypeOK
    <2> QED BY <1>1, <1>6, <2>1, PumpEffect
  <1>8. TypeOK'
    BY <1>2, <1>3, <1>4, <1>5, <1>6, <1>7 DEF TypeOK
  <1>9. KindsMatch'
    BY <1>1 DEF Typed, TypeOK, KindsMatch, Registered, Without
  <1>10. WaitingAddressed'
    <2>1. ASSUME NEW r \in Requests, status'[r] = "waiting"
          PROVE  target'[r] # NoTarget
      <3>1. r \in Waiting \ rejected
        BY <1>1, <2>1 DEF Finish, Waiting
      <3>2. target[r] \in Targets
        BY <3>1 DEF Typed, TypeOK, WaitingAddressed, Waiting
      <3>3. [target[r] EXCEPT !.place = tuple.place] \in Targets
        BY <3>2, MovedTarget DEF Targets
      <3>4. target'[r] \in Targets
        BY <1>1, <3>1, <3>2, <3>3 DEF Forget
      <3> QED BY <3>4, BridgeAssumption
    <2> QED BY <2>1 DEF WaitingAddressed, Waiting
  <1> QED BY <1>8, <1>9, <1>10 DEF Typed

\* Unregistering sessions keeps the types.
LEMMA UnregisterTyped ==
    ASSUME Typed, NEW S \in SUBSET Sessions, Unregister(S)
    PROVE  Typed'
  <1> DEFINE gone == WithClients(S)
             freed == Released(gone \cap Physical)
             rejected == Unhandled(Without(gone))
             unblocked == [s \in Physical |-> blocked[s] /\ s \notin gone]
             woken == UNION {CarriersOf(r, Without(gone), target) : r \in freed}
  <1>1. /\ inst' = Without(gone)
        /\ idle' = [x \in Sessions |-> IF x \in gone THEN 0 ELSE idle[x]]
        /\ owners' = [s \in Physical |-> IF s \in gone THEN {} ELSE owners[s]]
        /\ stream' = [s \in Physical |-> IF s \in gone THEN NoGen ELSE stream[s]]
        /\ Finish(rejected, "disconnected")
        /\ target' = Forget(rejected)
        /\ UNCHANGED arrivals
        /\ Pump(woken, Unclaim(freed \cup rejected), unblocked, "none")
    BY Zenon DEF Unregister
  <1>2. unblocked \in [Physical -> BOOLEAN]
    <2>1. \A s \in Physical : (blocked[s] /\ s \notin gone) \in BOOLEAN
      OBVIOUS
    <2> HIDE DEF gone
    <2> QED BY <2>1, Zenon
  <1> HIDE DEF gone, freed, rejected, unblocked, woken
  <1>3. /\ inst' \in [Sessions -> Targets \cup {NoTarget}]
        /\ status' \in [Requests -> {"new", "waiting"} \cup Settled]
        /\ target' \in [Requests -> Targets \cup {NoTarget}]
    BY <1>1, HelperTypes DEF Typed, Settled
  <1>4. /\ idle' \in [Sessions -> 0..2]
        /\ owners' \in [Physical -> SUBSET Gens]
        /\ stream' \in [Physical -> Gens \cup {NoGen}]
        /\ arrivals' \in Seq(Requests)
    BY <1>1 DEF Typed, TypeOK
  <1>5. claim' \in [Requests -> Owners \cup {NoOwner}] /\ blocked' \in [Physical -> BOOLEAN]
    <2>1. Unclaim(freed \cup rejected) \in [Requests -> Owners \cup {NoOwner}]
      BY HelperTypes DEF Typed
    <2> QED BY <1>1, <1>2, <1>4, <2>1, PumpEffect
  <1>6. TypeOK'
    BY <1>3, <1>4, <1>5 DEF TypeOK
  <1>7. KindsMatch'
    BY <1>1 DEF Typed, TypeOK, KindsMatch, Registered, Without
  <1>8. WaitingAddressed'
    BY <1>1 DEF Typed, TypeOK, WaitingAddressed, Waiting, Finish, Forget
  <1> QED BY <1>6, <1>7, <1>8 DEF Typed

\* A step that changes neither registrations nor requests, other than by pumping.
LEMMA PumpOnlyTyped ==
    ASSUME Typed, NEW N, NEW c, NEW b, NEW frame,
           c \in [Requests -> Owners \cup {NoOwner}],
           b \in [Physical -> BOOLEAN],
           idle' \in [Sessions -> 0..2],
           owners' \in [Physical -> SUBSET Gens],
           stream' \in [Physical -> Gens \cup {NoGen}],
           UNCHANGED <<inst, arrivals, status, target>>,
           Pump(N, c, b, frame)
    PROVE  Typed'
  <1>1. claim' \in [Requests -> Owners \cup {NoOwner}] /\ blocked' \in [Physical -> BOOLEAN]
    BY PumpEffect
  <1>2. TypeOK'
    BY <1>1 DEF Typed, TypeOK
  <1>3. KindsMatch' /\ WaitingAddressed'
    BY DEF Typed, KindsMatch, Registered, WaitingAddressed, Waiting
  <1> QED BY <1>2, <1>3 DEF Typed

\* Opening and closing streams keeps the types.
LEMMA StreamsTyped ==
    ASSUME Typed, NEW s \in Physical, NEW g \in Gens, OpenStream(s, g) \/ CloseStream(s)
    PROVE  Typed'
  <1> DEFINE freed == Released({s})
             b == [blocked EXCEPT ![s] = FALSE]
  <1>1. b \in [Physical -> BOOLEAN]
    BY DEF Typed, TypeOK
  <1>2. Unclaim(freed) \in [Requests -> Owners \cup {NoOwner}]
    BY HelperTypes DEF Typed
  <1>3. Touch(s) => idle' \in [Sessions -> 0..2]
    BY HelperTypes DEF Typed
  <1>4. CASE OpenStream(s, g)
    <2> DEFINE N == {s} \cup UNION {CarriersOf(r, inst, target) : r \in freed}
    <2>1. /\ stream' = [stream EXCEPT ![s] = g]
          /\ owners' = [owners EXCEPT ![s] = HandedOver(s, g)]
          /\ Touch(s)
          /\ UNCHANGED <<inst, arrivals, status, target>>
          /\ Pump(N, Unclaim(freed), b, "first")
      BY <1>4, Zenon DEF OpenStream
    <2>2. stream' \in [Physical -> Gens \cup {NoGen}] /\ owners' \in [Physical -> SUBSET Gens]
      BY <2>1 DEF Typed, TypeOK, HandedOver
    <2> HIDE DEF N, b, freed
    <2> QED BY <1>1, <1>2, <1>3, <2>1, <2>2, PumpOnlyTyped
  <1>5. CASE CloseStream(s)
    <2> DEFINE N == UNION {CarriersOf(r, inst, target) : r \in freed}
    <2>1. /\ stream' = [stream EXCEPT ![s] = NoGen]
          /\ owners' = [owners EXCEPT ![s] = Disowned(s)]
          /\ Touch(s)
          /\ UNCHANGED <<inst, arrivals, status, target>>
          /\ Pump(N, Unclaim(freed), b, "none")
      BY <1>5, Zenon DEF CloseStream
    <2>2. stream' \in [Physical -> Gens \cup {NoGen}] /\ owners' \in [Physical -> SUBSET Gens]
      BY <2>1 DEF Typed, TypeOK, Disowned
    <2> HIDE DEF N, b, freed
    <2> QED BY <1>1, <1>2, <1>3, <2>1, <2>2, PumpOnlyTyped
  <1> QED BY <1>4, <1>5

\* The turns of an open stream keep the types.
LEMMA TurnsTyped ==
    ASSUME Typed,
           (\E s \in Physical : Drain(s) \/ Heartbeat(s)) \/ RefreshStatus
    PROVE  Typed'
  <1>1. /\ claim \in [Requests -> Owners \cup {NoOwner}]
        /\ blocked \in [Physical -> BOOLEAN]
        /\ idle \in [Sessions -> 0..2]
        /\ owners \in [Physical -> SUBSET Gens]
        /\ stream \in [Physical -> Gens \cup {NoGen}]
    BY DEF Typed, TypeOK
  <1>2. ASSUME NEW s \in Physical, Drain(s) PROVE Typed'
    <2> DEFINE b == [blocked EXCEPT ![s] = FALSE]
    <2>1. b \in [Physical -> BOOLEAN]
      BY <1>1
    <2>2. UNCHANGED <<inst, idle, owners, stream, arrivals, status, target>>
      BY <1>2 DEF Drain, peers
    <2>3. Pump({s}, claim, b, "first")
      BY <1>2, Zenon DEF Drain
    <2> HIDE DEF b
    <2> QED BY <1>1, <2>1, <2>2, <2>3, PumpOnlyTyped
  <1>3. ASSUME NEW s \in Physical, Heartbeat(s) PROVE Typed'
    <2>1. idle' \in [Sessions -> 0..2]
      BY <1>3, HelperTypes DEF Typed, Heartbeat
    <2>2. /\ UNCHANGED <<inst, owners, stream, arrivals, status, target>>
          /\ Pump({s}, claim, blocked, "first")
      BY <1>3, Zenon DEF Heartbeat
    <2> QED BY <1>1, <2>1, <2>2, PumpOnlyTyped
  <1>4. CASE RefreshStatus
    <2>1. UNCHANGED <<inst, idle, owners, stream, arrivals, status, target>>
      BY <1>4 DEF RefreshStatus, peers
    <2>2. Pump(Open, claim, blocked, "first")
      BY <1>4, Zenon DEF RefreshStatus
    <2> QED BY <1>1, <2>1, <2>2, PumpOnlyTyped
  <1> QED BY <1>2, <1>3, <1>4

\* Queueing and settling a request keeps the types.
LEMMA RequestsTyped ==
    ASSUME Typed, NEW r \in Requests
    PROVE  /\ \A tuple \in Targets : SendRequest(r, tuple) => Typed'
           /\ \A how \in Settled : Settle(r, how) => Typed'
  <1>1. ASSUME NEW tuple \in Targets, SendRequest(r, tuple) PROVE Typed'
    <2>1. /\ arrivals' = Append(arrivals, r)
          /\ status' = [status EXCEPT ![r] = "waiting"]
          /\ target' = [target EXCEPT ![r] = tuple]
          /\ UNCHANGED <<inst, idle, owners, stream>>
      BY <1>1 DEF SendRequest, peers
    <2>2. Pump(CarriersOf(r, inst, target'), claim, blocked, "none")
      BY <1>1, Zenon DEF SendRequest
    <2>3. /\ claim' \in [Requests -> Owners \cup {NoOwner}]
          /\ blocked' \in [Physical -> BOOLEAN]
      <3>1. /\ claim \in [Requests -> Owners \cup {NoOwner}]
            /\ blocked \in [Physical -> BOOLEAN]
            /\ stream' \in [Physical -> Gens \cup {NoGen}]
        BY <2>1 DEF Typed, TypeOK
      <3> DEFINE N == CarriersOf(r, inst, target')
      <3>2. Pump(N, claim, blocked, "none")
        BY <2>2
      <3> HIDE DEF N
      <3> QED BY <3>1, <3>2, PumpEffect
    <2>4. TypeOK'
      <3>1. arrivals' \in Seq(Requests)
        BY <2>1 DEF Typed, TypeOK
      <3>2. /\ status' \in [Requests -> {"new", "waiting"} \cup Settled]
            /\ target' \in [Requests -> Targets \cup {NoTarget}]
        BY <2>1 DEF Typed, TypeOK
      <3> QED BY <2>1, <2>3, <3>1, <3>2 DEF Typed, TypeOK
    <2>5. KindsMatch' /\ WaitingAddressed'
      BY <2>1, BridgeAssumption
      DEF Typed, TypeOK, KindsMatch, Registered, WaitingAddressed, Waiting
    <2> QED BY <2>4, <2>5 DEF Typed
  <1>2. ASSUME NEW how \in Settled, Settle(r, how) PROVE Typed'
    <2>1. TypeOK'
      BY <1>2, HelperTypes DEF Typed, TypeOK, Settle, peers, streams
    <2>2. KindsMatch' /\ WaitingAddressed'
      BY <1>2 DEF Typed, TypeOK, KindsMatch, Registered, WaitingAddressed, Waiting, Settle,
        Finish, Forget, peers, Settled
    <2> QED BY <2>1, <2>2 DEF Typed
  <1> QED BY <1>1, <1>2

\* A restart empties everything, which is well typed.
LEMMA RestartTyped ==
    ASSUME Typed, Restart
    PROVE  Typed'
  <1>1. TypeOK'
    <2>1. claim' \in [Requests -> Owners \cup {NoOwner}]
      BY HelperTypes DEF Typed, Restart
    <2>2. target' \in [Requests -> Targets \cup {NoTarget}]
      BY HelperTypes DEF Typed, Restart
    <2>3. status' \in [Requests -> {"new", "waiting"} \cup Settled]
      BY HelperTypes DEF Typed, Restart, Settled
    <2> QED BY <2>1, <2>2, <2>3 DEF Typed, TypeOK, Restart
  <1>2. KindsMatch' /\ WaitingAddressed'
    BY DEF Typed, TypeOK, KindsMatch, Registered, WaitingAddressed, Waiting, Restart, Finish,
      Settled
  <1> QED BY <1>1, <1>2 DEF Typed

\* Every step keeps the types.
LEMMA NextTyped ==
    ASSUME Typed, [Next]_vars
    PROVE  Typed'
  <1>1. ASSUME NEW x \in Sessions, NEW p \in Places,
               NEW ask \in 0..MaxClients, Ready(x, p, ask)
       PROVE Typed'
    <2>1. PICK n \in 0..MaxClients :
            Assigned(x, p, ask, n) /\ Register(x, [place |-> p, kind |-> Kind[x], n |-> n])
      BY <1>1, Zenon DEF Ready
    <2> DEFINE tuple == [place |-> p, kind |-> Kind[x], n |-> n]
    <2>2. tuple \in Targets /\ tuple.kind = Kind[x] /\ Register(x, tuple)
      BY <2>1, AssignedTarget
    <2> HIDE DEF tuple
    <2> QED BY <2>2, RegisterTyped
  <1>2. ASSUME NEW x \in Sessions, Disconnect(x) PROVE Typed'
    BY <1>2, UnregisterTyped DEF Disconnect
  <1>3. ASSUME NEW p \in Places, UnregisterPlace(p) PROVE Typed'
    <2> DEFINE S == {x \in Registered : inst[x].place = p}
    <2>1. S \in SUBSET Sessions /\ Unregister(S)
      BY <1>3 DEF UnregisterPlace, Registered
    <2> HIDE DEF S
    <2> QED BY <2>1, UnregisterTyped
  <1>4. ASSUME NEW x \in Sessions, Age(x) PROVE Typed'
    BY <1>4 DEF Typed, TypeOK, KindsMatch, Registered, WaitingAddressed, Waiting, Age, streams,
      queue
  <1>5. CASE CleanupStale
    <2> DEFINE S == {x \in Registered : Undelivered(x) /\ idle[x] = 2}
    <2>1. S \in SUBSET Sessions /\ Unregister(S)
      BY <1>5 DEF CleanupStale, Registered
    <2> HIDE DEF S
    <2> QED BY <2>1, UnregisterTyped
  <1>6. ASSUME NEW s \in Physical, NEW g \in Gens, OpenStream(s, g) PROVE Typed'
    BY <1>6, StreamsTyped
  <1>7. ASSUME NEW s \in Physical, CloseStream(s) PROVE Typed'
    <2>1. Gens # {}
      BY <1>7 DEF CloseStream, Open, Typed, TypeOK
    <2> QED BY <1>7, <2>1, StreamsTyped
  <1>8. ASSUME NEW r \in Requests, Respond(r) \/ TimeOut(r) PROVE Typed'
    BY <1>8, RequestsTyped DEF Respond, TimeOut, Settled
  <1>9. CASE UNCHANGED vars
    BY <1>9 DEF Typed, TypeOK, KindsMatch, Registered, WaitingAddressed, Waiting, vars
  <1> QED BY <1>1, <1>2, <1>3, <1>4, <1>5, <1>6, <1>7, <1>8, <1>9, TurnsTyped, RequestsTyped,
            RestartTyped DEF Next

\* An empty bridge is well typed.
LEMMA InitTyped == Init => Typed
  BY BridgeAssumption
  DEF Init, Typed, TypeOK, KindsMatch, Registered, WaitingAddressed, Waiting

\* Every reachable state is well typed: in particular a runtime client always
\* has a client's number and a claim always names a stream.
THEOREM TypeCorrect == Spec => []TypeOK
  <1>1. Spec => []Typed
    BY InitTyped, NextTyped, PTL DEF Spec
  <1>2. Typed => TypeOK
    BY DEF Typed
  <1> QED BY <1>1, <1>2, PTL

-----------------------------------------------------------------------------
(* Registrations, streams and claims agree. *)

Inv ==
    /\ Typed
    /\ OneSessionPerTarget
    /\ OwnersMatchStreams
    /\ NoStrandedClaim
    /\ CarriedByRegistered

\* The claims c that an operation keeps before it pumps: claims of streams that
\* stay open, on requests that stay pending.
Kept(c) ==
    \A r \in Requests : c[r] # NoOwner =>
        c[r] = claim[r] /\ status'[r] = "waiting" /\ stream'[c[r][1]] = c[r][2]

\* What a pump claims, it claims for a stream that is open after the step.
LEMMA PumpStrandsNothing ==
    ASSUME NEW N, NEW c, NEW b, NEW frame,
           c \in [Requests -> Owners \cup {NoOwner}],
           b \in [Physical -> BOOLEAN],
           stream' \in [Physical -> Gens \cup {NoGen}],
           Kept(c),
           Pump(N, c, b, frame)
    PROVE  NoStrandedClaim'
  <1>1. ASSUME NEW r \in Requests, claim'[r] # NoOwner
        PROVE  status'[r] = "waiting" /\ stream'[claim'[r][1]] = claim'[r][2]
    <2>1. CASE claim'[r] = c[r]
      BY <1>1, <2>1 DEF Kept
    <2>2. CASE claim'[r] # c[r]
      BY <2>2, PumpEffect
    <2> QED BY <2>1, <2>2
  <1> QED BY <1>1 DEF NoStrandedClaim, Waiting

\* A claim names a stream, and it is a waiting request's.
LEMMA ClaimShape ==
    ASSUME Inv, NEW r \in Requests, claim[r] # NoOwner
    PROVE  /\ r \in Waiting
           /\ claim[r][1] \in Physical /\ claim[r][2] \in Gens
           /\ claim[r] = <<claim[r][1], claim[r][2]>>
           /\ stream[claim[r][1]] = claim[r][2]
           /\ stream[claim[r][1]] # NoGen
  <1>1. claim[r] \in Owners
    BY DEF Inv, Typed, TypeOK
  <1>2. /\ claim[r][1] \in Physical /\ claim[r][2] \in Gens
        /\ claim[r] = <<claim[r][1], claim[r][2]>>
    BY <1>1 DEF Owners
  <1>3. r \in Waiting /\ stream[claim[r][1]] = claim[r][2]
    BY DEF Inv, NoStrandedClaim
  <1> QED BY <1>2, <1>3, BridgeAssumption

\* Closing the streams of S and releasing their claims leaves no claim behind.
LEMMA ReleasedKeeps ==
    ASSUME Inv, NEW S, NEW R \in SUBSET Requests,
           Released(S \cap Physical) \subseteq R,
           \A s \in Physical : s \notin S => stream'[s] = stream[s],
           \A r \in Waiting \ R : status'[r] = status[r]
    PROVE  Kept(Unclaim(R))
  <1>1. ASSUME NEW r \in Requests, Unclaim(R)[r] # NoOwner
        PROVE  /\ Unclaim(R)[r] = claim[r]
               /\ status'[r] = "waiting"
               /\ stream'[claim[r][1]] = claim[r][2]
    <2>1. r \notin R /\ Unclaim(R)[r] = claim[r]
      BY <1>1 DEF Unclaim
    <2>2. /\ r \in Waiting
          /\ claim[r][1] \in Physical
          /\ claim[r] = <<claim[r][1], claim[r][2]>>
          /\ stream[claim[r][1]] = claim[r][2]
          /\ stream[claim[r][1]] # NoGen
      BY <1>1, <2>1, ClaimShape
    <2>3. claim[r][1] \notin S
      BY <2>1, <2>2 DEF Released
    <2> QED BY <2>1, <2>2, <2>3 DEF Waiting
  <1> QED BY <1>1 DEF Kept

-----------------------------------------------------------------------------
\* A registration takes a tuple nobody else holds, and takes over only from a
\* session that has no stream to close.
LEMMA RegisterSafe ==
    ASSUME Inv, Typed', NEW x \in Sessions, NEW tuple \in Targets, tuple.kind = Kind[x],
           Phys[x] # x => inst[Phys[x]] # NoTarget,
           Register(x, tuple)
    PROVE  Inv'
  <1> DEFINE holders == Holders(x, tuple)
             gone == WithClients(holders)
             rejected == IF holders = {} THEN {} ELSE Unhandled(Without(gone))
  <1>1. /\ \A y \in holders : ~Protected(y)
        /\ inst' = [Without(gone) EXCEPT ![x] = tuple]
        /\ Finish(rejected, "disconnected")
        /\ UNCHANGED <<owners, stream>>
        /\ Pump({Phys[x]}, Unclaim(rejected), blocked, "last")
    BY Zenon DEF Register
  <1>2. tuple # NoTarget
    BY BridgeAssumption
  <1>3. gone \subseteq Sessions /\ x \notin gone /\ Phys[x] \notin holders
    <2>1. x \notin holders /\ holders \subseteq Sessions
      BY DEF Holders
    <2>2. Phys[x] \notin holders
      <3>1. CASE Phys[x] = x
        BY <2>1, <3>1
      <3>2. CASE Phys[x] # x
        <4>1. Kind[Phys[x]] # "client" /\ Kind[x] = "client"
          BY <3>2, SessionAssumption
        <4>2. \A y \in holders : Kind[y] = "client"
          BY <1>2, <4>1 DEF Holders, Inv, Typed, KindsMatch, Registered
        <4> QED BY <4>1, <4>2
      <3> QED BY <3>1, <3>2
    <2> HIDE DEF holders
    <2> QED BY <2>1, <2>2 DEF WithClients, Registered
  <1>4. \A y \in Sessions :
          inst'[y] = IF y = x THEN tuple ELSE IF y \in gone THEN NoTarget ELSE inst[y]
    BY <1>1, <1>3 DEF Without
  <1>5. OneSessionPerTarget'
    <2>1. \A y \in Sessions \ {x} : inst[y] = tuple => y \in gone
      BY DEF Holders, WithClients
    <2> HIDE DEF gone
    <2> QED BY <1>4, <1>2, <2>1 DEF OneSessionPerTarget, Registered, Inv
  <1>6. OwnersMatchStreams'
    BY <1>1 DEF Inv, OwnersMatchStreams
  <1>7. NoStrandedClaim'
    <2>1. rejected \in SUBSET Requests
      BY DEF Unhandled, Waiting
    <2>2. \A r \in Waiting \ rejected : status'[r] = status[r]
      BY <1>1 DEF Finish, Waiting
    <2>3. Released({} \cap Physical) \subseteq rejected
      BY DEF Released
    <2> HIDE DEF rejected
    <2>4. Kept(Unclaim(rejected))
      BY <1>1, <2>1, <2>2, <2>3, ReleasedKeeps
    <2>5. /\ Unclaim(rejected) \in [Requests -> Owners \cup {NoOwner}]
          /\ blocked \in [Physical -> BOOLEAN]
          /\ stream' \in [Physical -> Gens \cup {NoGen}]
      BY HelperTypes DEF Inv, Typed, TypeOK
    <2> QED BY <1>1, <2>4, <2>5, PumpStrandsNothing
  <1>8. ASSUME NEW s \in Physical, stream'[s] # NoGen
        PROVE  inst'[s] # NoTarget
    <2>1. inst[s] # NoTarget /\ owners[s] # {}
      <3>1. stream[s] # NoGen
        BY <1>1, <1>8
      <3>2. owners[s] = {stream[s]} \ {NoGen}
        BY DEF Inv, OwnersMatchStreams
      <3> HIDE DEF gone, holders
      <3>3. inst[s] # NoTarget
        BY <3>1 DEF Inv, CarriedByRegistered, Open
      <3> QED BY <3>1, <3>2, <3>3
    <2>2. s \notin holders
      BY <1>1, <2>1 DEF Protected, Undelivered, Physical
    <2>3. s \notin gone
      BY <2>2 DEF WithClients, Physical
    <2> HIDE DEF gone, holders
    <2> QED BY <1>4, <1>2, <2>1, <2>3 DEF Physical
  <1>9. ASSUME NEW y \in Sessions, inst'[y] # NoTarget
        PROVE  inst'[Phys[y]] # NoTarget
    <2>1. Phys[y] \in Sessions /\ Phys[Phys[y]] = Phys[y]
      BY SessionAssumption
    <2>2. CASE Phys[y] = x
      BY <1>4, <1>2, <2>1, <2>2
    <2>3. CASE Phys[y] # x
      <3>1. inst[Phys[y]] # NoTarget /\ Phys[y] \notin holders
        <4>1. CASE y = x
          BY <1>3, <2>3, <4>1
        <4>2. CASE y # x
          <5>1. inst[y] # NoTarget /\ y \notin gone
            BY <1>4, <1>9, <4>2
          <5> QED BY <5>1 DEF Inv, CarriedByRegistered, Registered, WithClients
        <4> QED BY <4>1, <4>2
      <3>2. Phys[y] \notin gone
        BY <2>1, <3>1 DEF WithClients
      <3> HIDE DEF gone
      <3> QED BY <1>4, <2>1, <2>3, <3>1, <3>2
    <2> QED BY <2>2, <2>3
  <1> QED BY <1>5, <1>6, <1>7, <1>8, <1>9 DEF Inv, CarriedByRegistered, Open, Registered

\* An unregistration takes the clients and the streams of its sessions along.
LEMMA UnregisterSafe ==
    ASSUME Inv, Typed', NEW S \in SUBSET Sessions, Unregister(S)
    PROVE  Inv'
  <1> DEFINE gone == WithClients(S)
             freed == Released(gone \cap Physical)
             rejected == Unhandled(Without(gone))
             unblocked == [s \in Physical |-> blocked[s] /\ s \notin gone]
             woken == UNION {CarriersOf(r, Without(gone), target) : r \in freed}
  <1>1. /\ inst' = Without(gone)
        /\ owners' = [s \in Physical |-> IF s \in gone THEN {} ELSE owners[s]]
        /\ stream' = [s \in Physical |-> IF s \in gone THEN NoGen ELSE stream[s]]
        /\ Finish(rejected, "disconnected")
        /\ Pump(woken, Unclaim(freed \cup rejected), unblocked, "none")
    BY Zenon DEF Unregister
  <1>2. /\ gone \subseteq Sessions
        /\ \A x \in Registered : Phys[x] \in gone => x \in gone
    BY SessionAssumption DEF WithClients, Registered
  <1>3. unblocked \in [Physical -> BOOLEAN]
    <2>1. \A s \in Physical : (blocked[s] /\ s \notin gone) \in BOOLEAN
      OBVIOUS
    <2> HIDE DEF gone
    <2> QED BY <2>1, Zenon
  <1>4. freed \cup rejected \in SUBSET Requests
    BY DEF Released, Unhandled, Waiting
  <1>5. Released(gone \cap Physical) \subseteq freed \cup rejected
    OBVIOUS
  <1> HIDE DEF gone, freed, rejected, unblocked, woken
  <1>6. OneSessionPerTarget'
    BY <1>1 DEF Inv, OneSessionPerTarget, Registered, Without
  <1>7. OwnersMatchStreams'
    BY <1>1 DEF Inv, OwnersMatchStreams
  <1>8. NoStrandedClaim'
    <2>1. \A s \in Physical : s \notin gone => stream'[s] = stream[s]
      BY <1>1
    <2>2. \A r \in Waiting \ (freed \cup rejected) : status'[r] = status[r]
      BY <1>1 DEF Finish, Waiting
    <2>3. Kept(Unclaim(freed \cup rejected))
      BY <1>4, <1>5, <2>1, <2>2, ReleasedKeeps
    <2>4. /\ Unclaim(freed \cup rejected) \in [Requests -> Owners \cup {NoOwner}]
          /\ stream' \in [Physical -> Gens \cup {NoGen}]
      BY HelperTypes DEF Inv, Typed, TypeOK
    <2> QED BY <1>1, <1>3, <2>3, <2>4, PumpStrandsNothing
  <1>9. CarriedByRegistered'
    <2>1. ASSUME NEW s \in Physical, stream'[s] # NoGen
          PROVE  inst'[s] # NoTarget
      BY <1>1, <2>1 DEF Inv, CarriedByRegistered, Open, Without, Physical
    <2>2. ASSUME NEW x \in Sessions, inst'[x] # NoTarget
          PROVE  inst'[Phys[x]] # NoTarget
      BY <1>1, <1>2, <2>2, SessionAssumption DEF Inv, CarriedByRegistered, Registered, Without
    <2> QED BY <2>1, <2>2 DEF CarriedByRegistered, Open, Registered
  <1> QED BY <1>6, <1>7, <1>8, <1>9 DEF Inv

\* A new stream takes the old one's place among the delivery owners, and a
\* closed one leaves them; either way the claims of the old one are released.
LEMMA StreamsSafe ==
    ASSUME Inv, Typed', NEW s \in Physical, NEW g \in Gens,
           OpenStream(s, g) \/ CloseStream(s)
    PROVE  Inv'
  <1> DEFINE freed == Released({s})
             b == [blocked EXCEPT ![s] = FALSE]
             N == UNION {CarriersOf(r, inst, target) : r \in freed}
  <1>1. \/ /\ stream' = [stream EXCEPT ![s] = g]
           /\ owners' = [owners EXCEPT ![s] = HandedOver(s, g)]
           /\ inst[s] # NoTarget /\ g # stream[s]
           /\ Pump({s} \cup N, Unclaim(freed), b, "first")
        \/ /\ stream' = [stream EXCEPT ![s] = NoGen]
           /\ owners' = [owners EXCEPT ![s] = Disowned(s)]
           /\ Pump(N, Unclaim(freed), b, "none")
    BY Zenon DEF OpenStream, CloseStream
  <1>2. UNCHANGED <<inst, status>>
    BY DEF OpenStream, CloseStream
  <1>3. /\ stream \in [Physical -> Gens \cup {NoGen}]
        /\ owners \in [Physical -> SUBSET Gens]
        /\ b \in [Physical -> BOOLEAN]
        /\ freed \in SUBSET Requests
        /\ Released({s} \cap Physical) \subseteq freed
    <2>1. {s} \cap Physical = {s}
      OBVIOUS
    <2> QED BY <2>1 DEF Inv, Typed, TypeOK, Released, Waiting
  <1> HIDE DEF freed, b, N
  <1>4. OneSessionPerTarget'
    BY <1>2 DEF Inv, OneSessionPerTarget, Registered
  <1>5. OwnersMatchStreams'
    <2>1. \A t \in Physical : t # s => owners'[t] = owners[t] /\ stream'[t] = stream[t]
      BY <1>1, <1>3
    <2>2. owners'[s] = {stream'[s]} \ {NoGen}
      <3>1. owners[s] = {stream[s]} \ {NoGen}
        BY DEF Inv, OwnersMatchStreams
      <3>2. \/ owners'[s] = HandedOver(s, g) /\ stream'[s] = g /\ g # stream[s]
            \/ owners'[s] = Disowned(s) /\ stream'[s] = NoGen
        BY <1>1, <1>3
      <3> QED BY <3>1, <3>2, BridgeAssumption DEF HandedOver, Disowned
    <2> QED BY <2>1, <2>2 DEF Inv, OwnersMatchStreams
  <1>6. NoStrandedClaim'
    <2>1. \A t \in Physical : t \notin {s} => stream'[t] = stream[t]
      BY <1>1, <1>3
    <2>2. Kept(Unclaim(freed))
      BY <1>2, <1>3, <2>1, ReleasedKeeps
    <2>3. /\ Unclaim(freed) \in [Requests -> Owners \cup {NoOwner}]
          /\ stream' \in [Physical -> Gens \cup {NoGen}]
      BY HelperTypes DEF Inv, Typed, TypeOK
    <2> QED BY <1>1, <1>3, <2>2, <2>3, PumpStrandsNothing
  <1>7. CarriedByRegistered'
    BY <1>1, <1>2, <1>3 DEF Inv, CarriedByRegistered, Open, Registered
  <1> QED BY <1>4, <1>5, <1>6, <1>7 DEF Inv

\* Pumping with the claims as they are disturbs nothing.
LEMMA PumpOnlySafe ==
    ASSUME Inv, Typed', NEW N, NEW b, NEW frame,
           b \in [Physical -> BOOLEAN],
           UNCHANGED <<inst, owners, stream>>,
           \A r \in Waiting : status'[r] = status[r],
           Pump(N, claim, b, frame)
    PROVE  Inv'
  <1>1. Kept(claim)
    BY DEF Inv, NoStrandedClaim, Kept, Waiting
  <1>2. NoStrandedClaim'
    <2>1. claim \in [Requests -> Owners \cup {NoOwner}] /\ stream' \in [Physical -> Gens \cup {NoGen}]
      BY DEF Inv, Typed, TypeOK
    <2> QED BY <1>1, <2>1, PumpStrandsNothing
  <1>3. OneSessionPerTarget' /\ OwnersMatchStreams' /\ CarriedByRegistered'
    BY DEF Inv, OneSessionPerTarget, OwnersMatchStreams, CarriedByRegistered, Open, Registered
  <1> QED BY <1>2, <1>3 DEF Inv

\* So the turns of the streams and a new request disturb nothing.
LEMMA TurnsSafe ==
    ASSUME Inv, Typed',
           \/ \E s \in Physical : Drain(s) \/ Heartbeat(s)
           \/ RefreshStatus
           \/ \E r \in Requests, tuple \in Targets : SendRequest(r, tuple)
    PROVE  Inv'
  <1>1. blocked \in [Physical -> BOOLEAN]
    BY DEF Inv, Typed, TypeOK
  <1>2. ASSUME NEW s \in Physical, Drain(s) PROVE Inv'
    <2> DEFINE b == [blocked EXCEPT ![s] = FALSE]
    <2>1. b \in [Physical -> BOOLEAN]
      BY <1>1
    <2>2. UNCHANGED <<inst, owners, stream, status>>
      BY <1>2 DEF Drain, peers
    <2>3. Pump({s}, claim, b, "first")
      BY <1>2, Zenon DEF Drain
    <2> HIDE DEF b
    <2> QED BY <2>1, <2>2, <2>3, PumpOnlySafe
  <1>3. ASSUME NEW s \in Physical, Heartbeat(s) PROVE Inv'
    <2>1. /\ UNCHANGED <<inst, owners, stream, arrivals, status, target>>
          /\ Pump({s}, claim, blocked, "first")
      BY <1>3, Zenon DEF Heartbeat
    <2> QED BY <1>1, <2>1, PumpOnlySafe
  <1>4. CASE RefreshStatus
    <2>1. UNCHANGED <<inst, owners, stream, status>>
      BY <1>4 DEF RefreshStatus, peers
    <2>2. Pump(Open, claim, blocked, "first")
      BY <1>4, Zenon DEF RefreshStatus
    <2> QED BY <1>1, <2>1, <2>2, PumpOnlySafe
  <1>5. ASSUME NEW r \in Requests, NEW tuple \in Targets, SendRequest(r, tuple) PROVE Inv'
    <2> DEFINE N == CarriersOf(r, inst, target')
    <2>1. UNCHANGED <<inst, owners, stream>>
      BY <1>5 DEF SendRequest, peers
    <2>2. \A q \in Waiting : status'[q] = status[q]
      BY <1>5 DEF SendRequest, Waiting, Inv, Typed, TypeOK
    <2>3. Pump(N, claim, blocked, "none")
      BY <1>5, Zenon DEF SendRequest
    <2> HIDE DEF N
    <2> QED BY <1>1, <2>1, <2>2, <2>3, PumpOnlySafe
  <1> QED BY <1>2, <1>3, <1>4, <1>5

\* A settled request gives its claim up, and a restart gives up everything.
LEMMA SettleSafe ==
    ASSUME Inv, Typed', NEW r \in Requests, NEW how, Settle(r, how)
    PROVE  Inv'
  <1>1. OneSessionPerTarget' /\ OwnersMatchStreams' /\ CarriedByRegistered'
    BY DEF Inv, OneSessionPerTarget, OwnersMatchStreams, CarriedByRegistered, Open, Registered,
      Settle, peers, streams
  <1>2. NoStrandedClaim'
    BY DEF Inv, NoStrandedClaim, Waiting, Settle, Finish, Unclaim, peers, streams
  <1> QED BY <1>1, <1>2 DEF Inv

\* A restart leaves no registration, stream or claim to disagree.
LEMMA RestartSafe ==
    ASSUME Inv, Typed', Restart
    PROVE  Inv'
  <1>1. OneSessionPerTarget' /\ OwnersMatchStreams'
    BY DEF OneSessionPerTarget, OwnersMatchStreams, Registered, Restart
  <1>2. CarriedByRegistered'
    BY DEF CarriedByRegistered, Open, Registered, Restart
  <1>3. NoStrandedClaim'
    BY DEF Inv, NoStrandedClaim, Waiting, Restart, Unclaim
  <1> QED BY <1>1, <1>2, <1>3 DEF Inv

\* Every step keeps the inductive invariant.
LEMMA NextSafe ==
    ASSUME Inv, [Next]_vars
    PROVE  Inv'
  <1>1. Typed'
    BY NextTyped DEF Inv
  <1>2. ASSUME NEW x \in Sessions, NEW p \in Places,
               NEW ask \in 0..MaxClients, Ready(x, p, ask)
       PROVE Inv'
    <2>1. PICK n \in 0..MaxClients :
            /\ Phys[x] # x => inst[Phys[x]] # NoTarget
            /\ Assigned(x, p, ask, n)
            /\ Register(x, [place |-> p, kind |-> Kind[x], n |-> n])
      BY <1>2, Zenon DEF Ready
    <2> DEFINE tuple == [place |-> p, kind |-> Kind[x], n |-> n]
    <2>2. tuple \in Targets /\ tuple.kind = Kind[x] /\ Register(x, tuple)
      BY <2>1, AssignedTarget DEF Inv
    <2> HIDE DEF tuple
    <2> QED BY <1>1, <2>1, <2>2, RegisterSafe
  <1>3. ASSUME NEW x \in Sessions, Disconnect(x) PROVE Inv'
    BY <1>1, <1>3, UnregisterSafe DEF Disconnect
  <1>4. ASSUME NEW p \in Places, UnregisterPlace(p) PROVE Inv'
    <2> DEFINE S == {x \in Registered : inst[x].place = p}
    <2>1. S \in SUBSET Sessions /\ Unregister(S)
      BY <1>4 DEF UnregisterPlace, Registered
    <2> HIDE DEF S
    <2> QED BY <1>1, <2>1, UnregisterSafe
  <1>5. ASSUME NEW x \in Sessions, Age(x) PROVE Inv'
    BY <1>1, <1>5 DEF Inv, OneSessionPerTarget, OwnersMatchStreams, NoStrandedClaim,
      CarriedByRegistered, Open, Registered, Waiting, Age, streams, queue
  <1>6. CASE CleanupStale
    <2> DEFINE S == {x \in Registered : Undelivered(x) /\ idle[x] = 2}
    <2>1. S \in SUBSET Sessions /\ Unregister(S)
      BY <1>6 DEF CleanupStale, Registered
    <2> HIDE DEF S
    <2> QED BY <1>1, <2>1, UnregisterSafe
  <1>7. ASSUME NEW s \in Physical, NEW g \in Gens, OpenStream(s, g) PROVE Inv'
    BY <1>1, <1>7, StreamsSafe
  <1>8. ASSUME NEW s \in Physical, CloseStream(s) PROVE Inv'
    <2>1. Gens # {}
      BY <1>8 DEF CloseStream, Open, Inv, Typed, TypeOK
    <2> QED BY <1>1, <1>8, <2>1, StreamsSafe
  <1>9. ASSUME NEW r \in Requests, Respond(r) \/ TimeOut(r) PROVE Inv'
    BY <1>1, <1>9, SettleSafe DEF Respond, TimeOut
  <1>10. CASE UNCHANGED vars
    BY <1>1, <1>10 DEF Inv, OneSessionPerTarget, OwnersMatchStreams, NoStrandedClaim,
      CarriedByRegistered, Open, Registered, Waiting, vars
  <1> QED BY <1>1, <1>2, <1>3, <1>4, <1>5, <1>6, <1>7, <1>8, <1>9, <1>10, TurnsSafe, RestartSafe
          DEF Next

\* An empty bridge satisfies the inductive invariant.
LEMMA InitSafe == Init => Inv
  <1> SUFFICES ASSUME Init PROVE Inv
    OBVIOUS
  <1>1. Typed
    BY InitTyped
  <1>2. OneSessionPerTarget /\ OwnersMatchStreams /\ NoStrandedClaim /\ CarriedByRegistered
    BY DEF Init, OneSessionPerTarget, OwnersMatchStreams, NoStrandedClaim, CarriedByRegistered,
      Open, Registered
  <1> QED BY <1>1, <1>2 DEF Inv

\* The inductive invariant holds in every state.
LEMMA InvHolds == Spec => []Inv
  BY InitSafe, NextSafe, PTL DEF Spec

\* No two sessions ever hold the same routing tuple.
THEOREM RoutingIsUnambiguous == Spec => []OneSessionPerTarget
  <1>1. Inv => OneSessionPerTarget
    BY DEF Inv
  <1> QED BY <1>1, InvHolds, PTL

\* The delivery owners that protect a session from takeover and cleanup are the
\* streams it has open, always and exactly.
THEOREM ProtectionIsExact == Spec => []OwnersMatchStreams
  <1>1. Inv => OwnersMatchStreams
    BY DEF Inv
  <1> QED BY <1>1, InvHolds, PTL

\* A claimed request waits, and the stream that claimed it is open.
THEOREM ClaimsAreHeld == Spec => []NoStrandedClaim
  <1>1. Inv => NoStrandedClaim
    BY DEF Inv
  <1> QED BY <1>1, InvHolds, PTL

\* No open stream and no logical client outlives the registration it depends on.
THEOREM NothingIsOrphaned == Spec => []CarriedByRegistered
  <1>1. Inv => CarriedByRegistered
    BY DEF Inv
  <1> QED BY <1>1, InvHolds, PTL

-----------------------------------------------------------------------------
(* What a step never does. *)

\* Pumping leaves alone the claims it was not told to release.
LEMMA PumpKeepsClaims ==
    ASSUME Inv, NEW N, NEW R, NEW b, NEW frame,
           b \in [Physical -> BOOLEAN],
           stream' \in [Physical -> Gens \cup {NoGen}],
           Pump(N, Unclaim(R), b, frame),
           NEW r \in Requests, r \notin R, claim[r] # NoOwner
    PROVE  claim'[r] = claim[r]
  <1>1. Unclaim(R) \in [Requests -> Owners \cup {NoOwner}]
    BY HelperTypes DEF Inv, Typed
  <1>2. Unclaim(R)[r] = claim[r]
    BY DEF Unclaim
  <1> QED BY <1>1, <1>2, PumpEffect

\* A released claim is one of a stream that its step closes or replaces.
LEMMA ReleasedIsClosed ==
    ASSUME Inv, NEW S \in SUBSET Physical, NEW r \in Released(S),
           \A s \in S : stream[s] # NoGen => stream'[s] # stream[s]
    PROVE  stream'[claim[r][1]] # claim[r][2]
  <1>1. PICK s \in S : stream[s] # NoGen /\ claim[r] = <<s, stream[s]>>
    BY DEF Released
  <1> QED BY <1>1

\* No step moves a claim away from a stream that it leaves open.
LEMMA NextKeepsClaims ==
    ASSUME Inv, [Next]_vars, NEW r \in Requests, status'[r] = "waiting",
           claim[r] # NoOwner, claim'[r] # claim[r]
    PROVE  stream'[claim[r][1]] # claim[r][2]
  <1>1. blocked \in [Physical -> BOOLEAN] /\ stream \in [Physical -> Gens \cup {NoGen}]
    BY DEF Inv, Typed, TypeOK
  <1>2. stream' \in [Physical -> Gens \cup {NoGen}]
    BY NextTyped DEF Inv, Typed, TypeOK
  <1>3. \A N, frame : ~Pump(N, claim, blocked, frame)
    <2>1. claim \in [Requests -> Owners \cup {NoOwner}]
      BY DEF Inv, Typed, TypeOK
    <2> QED BY <1>1, <1>2, <2>1, PumpEffect
  <1>4. ASSUME NEW x \in Sessions, NEW tuple, Register(x, tuple) PROVE FALSE
    <2> DEFINE gone == WithClients(Holders(x, tuple))
               R == IF Holders(x, tuple) = {} THEN {} ELSE Unhandled(Without(gone))
    <2>1. Finish(R, "disconnected") /\ Pump({Phys[x]}, Unclaim(R), blocked, "last")
      BY <1>4, Zenon DEF Register
    <2> HIDE DEF R
    <2>2. r \notin R
      BY <2>1 DEF Finish
    <2> QED BY <1>1, <1>2, <2>1, <2>2, PumpKeepsClaims
  <1>5. ASSUME NEW S, Unregister(S) PROVE stream'[claim[r][1]] # claim[r][2]
    <2> DEFINE gone == WithClients(S)
               freed == Released(gone \cap Physical)
               R == freed \cup Unhandled(Without(gone))
               b == [s \in Physical |-> blocked[s] /\ s \notin gone]
               N == UNION {CarriersOf(q, Without(gone), target) : q \in freed}
    <2>1. /\ stream' = [s \in Physical |-> IF s \in gone THEN NoGen ELSE stream[s]]
          /\ Finish(Unhandled(Without(gone)), "disconnected")
          /\ Pump(N, Unclaim(R), b, "none")
      BY <1>5, Zenon DEF Unregister
    <2>2. b \in [Physical -> BOOLEAN]
      <3>1. \A s \in Physical : (blocked[s] /\ s \notin gone) \in BOOLEAN
        OBVIOUS
      <3> HIDE DEF gone
      <3> QED BY <3>1, Zenon
    <2>3. r \notin Unhandled(Without(gone))
      BY <2>1 DEF Finish
    <2>4. r \in R
      <3> HIDE DEF R, b, N, gone
      <3> QED BY <1>2, <2>1, <2>2, PumpKeepsClaims
    <2>5. r \in Released(gone \cap Physical)
      BY <2>3, <2>4
    <2> HIDE DEF gone, freed, R, b, N
    <2>6. \A s \in gone \cap Physical : stream[s] # NoGen => stream'[s] # stream[s]
      BY <2>1
    <2> QED BY <2>5, <2>6, ReleasedIsClosed
  <1>6. ASSUME NEW s \in Physical, CloseStream(s) \/ \E g \in Gens : OpenStream(s, g)
        PROVE  stream'[claim[r][1]] # claim[r][2]
    <2> DEFINE freed == Released({s})
               b == [blocked EXCEPT ![s] = FALSE]
    <2>1. \E N, frame : Pump(N, Unclaim(freed), b, frame)
      BY <1>6, Zenon DEF OpenStream, CloseStream
    <2>2. stream[s] # NoGen => stream'[s] # stream[s]
      BY <1>1, <1>6 DEF OpenStream, CloseStream
    <2>3. b \in [Physical -> BOOLEAN]
      BY <1>1
    <2>4. r \in freed
      <3> HIDE DEF freed, b
      <3> QED BY <1>2, <2>1, <2>3, PumpKeepsClaims
    <2> QED BY <2>2, <2>4, ReleasedIsClosed
  <1>7. ASSUME NEW s \in Physical PROVE ~Drain(s) /\ ~Heartbeat(s)
    <2> DEFINE b == [blocked EXCEPT ![s] = FALSE]
    <2>1. b \in [Physical -> BOOLEAN] /\ claim \in [Requests -> Owners \cup {NoOwner}]
      BY <1>1 DEF Inv, Typed, TypeOK
    <2>2. ~Pump({s}, claim, b, "first")
      <3> HIDE DEF b
      <3> QED BY <1>2, <2>1, PumpEffect
    <2> QED BY <1>3, <2>2, Zenon DEF Drain, Heartbeat
  <1>8. ~RefreshStatus /\ \A q \in Requests, tuple \in Targets : ~SendRequest(q, tuple)
    BY <1>3, Zenon DEF RefreshStatus, SendRequest
  <1>9. \A q \in Requests, how \in Settled : ~Settle(q, how)
    BY DEF Settle, Finish, Unclaim, Settled
  <1>10. ~Restart
    BY DEF Restart, Finish, Waiting
  <1>11. \A q \in Requests : ~Respond(q) /\ ~TimeOut(q)
    BY <1>9 DEF Respond, TimeOut, Settled
  <1>12. ~UNCHANGED vars /\ \A x \in Sessions : ~Age(x)
    BY DEF vars, Age, queue
  <1> QED
    BY <1>4, <1>5, <1>6, <1>7, <1>8, <1>10, <1>11, <1>12, Zenon
    DEF Next, Ready, Disconnect, UnregisterPlace, CleanupStale

\* A delivered request goes to no second stream while the first one is open.
THEOREM DeliveredOnce == Spec => NoSecondDelivery
  <1>1. Inv /\ [Next]_vars =>
          [\A r \in Waiting' :
             claim[r] # NoOwner /\ claim'[r] # claim[r] =>
               stream'[claim[r][1]] # claim[r][2]]_vars
    BY NextKeepsClaims DEF Waiting
  <1> QED BY <1>1, InvHolds, PTL DEF Spec, NoSecondDelivery

\* Only a registration gives a session a tuple it did not have.
LEMMA OnlyRegisterAssigns ==
    ASSUME [Next]_vars, NEW y \in Sessions, inst'[y] # inst[y], inst'[y] # NoTarget
    PROVE  \E tuple : Register(y, tuple)
  <1>1. \A S : ~Unregister(S)
    BY DEF Unregister, Without
  <1>2. \A x \in Sessions : \A tuple : Register(x, tuple) => x = y
    BY DEF Register, Without
  <1>3. \A s \in Physical :
          ~Drain(s) /\ ~Heartbeat(s) /\ ~CloseStream(s) /\ \A g \in Gens : ~OpenStream(s, g)
    BY DEF Drain, Heartbeat, CloseStream, OpenStream, peers
  <1>4. \A r \in Requests :
          ~Respond(r) /\ ~TimeOut(r) /\ \A tuple \in Targets : ~SendRequest(r, tuple)
    BY DEF Respond, TimeOut, Settle, SendRequest, peers
  <1>5. ~RefreshStatus /\ ~Restart /\ ~UNCHANGED vars /\ \A x \in Sessions : ~Age(x)
    BY DEF RefreshStatus, Restart, vars, peers, Age
  <1> QED
    BY <1>1, <1>2, <1>3, <1>4, <1>5, Zenon
    DEF Next, Ready, Disconnect, UnregisterPlace, CleanupStale

\* A step that gives one session's tuple to another rejects its requests.
LEMMA TakeoverRejects ==
    ASSUME Inv, [Next]_vars, NEW x \in Sessions, NEW y \in Sessions,
           x # y, inst[x] # NoTarget, inst'[y] = inst[x], inst[y] # inst[x],
           NEW r \in Waiting, target[r] = inst[x]
    PROVE  status'[r] = "disconnected"
  <1>1. PICK tuple : Register(y, tuple)
    BY OnlyRegisterAssigns
  <1> DEFINE gone == WithClients(Holders(y, tuple))
             rejected == IF Holders(y, tuple) = {} THEN {} ELSE Unhandled(Without(gone))
  <1>2. inst' = [Without(gone) EXCEPT ![y] = tuple] /\ Finish(rejected, "disconnected")
    BY <1>1, Zenon DEF Register
  <1>3. tuple = inst[x]
    <2> HIDE DEF gone
    <2> QED BY <1>2 DEF Without
  <1>4. x \in Holders(y, tuple) /\ x \in gone
    BY <1>3 DEF Holders, WithClients
  <1>5. \A z \in Sessions : Without(gone)[z] # target[r]
    <2> HIDE DEF gone
    <2> QED BY <1>4 DEF Without, Inv, OneSessionPerTarget, Registered
  <1>6. r \in rejected
    BY <1>4, <1>5 DEF Unhandled
  <1> HIDE DEF rejected
  <1> QED BY <1>2, <1>6 DEF Finish, Waiting

\* Whoever takes over a tuple inherits none of its requests.
THEOREM TakeoverIsClean == Spec => TakeoverInheritsNothing
  <1>1. Inv /\ [Next]_vars =>
          [\A x, y \in Sessions :
             (x # y /\ inst[x] # NoTarget /\ inst'[y] = inst[x] /\ inst[y] # inst[x]) =>
               \A r \in Waiting : target[r] = inst[x] => status'[r] = "disconnected"]_vars
    BY TakeoverRejects
  <1> QED BY <1>1, InvHolds, PTL DEF Spec, TakeoverInheritsNothing
-----------------------------------------------------------------------------
(* No lost wakeup. *)

\* A stream that a pump leaves able to write beside a request it could take was
\* not pumped: it was able to write before, and nobody held the request.
LEMMA PumpWakes ==
    ASSUME NEW N, NEW c, NEW b, NEW frame,
           c \in [Requests -> Owners \cup {NoOwner}],
           stream' \in [Physical -> Gens \cup {NoGen}],
           Pump(N, c, b, frame),
           NEW r \in Requests, status'[r] = "waiting", claim'[r] = NoOwner,
           NEW x \in Sessions, inst'[x] = target'[r], Phys[x] \in Physical,
           stream'[Phys[x]] # NoGen, ~blocked'[Phys[x]]
    PROVE  Phys[x] \notin N /\ ~b[Phys[x]] /\ c[r] = NoOwner
  <1> DEFINE live == {s \in N \cap Physical : Writable(s, b)}
             due == [s \in live |-> Deliverable(s, c)]
             carrier(q) == CHOOSE s \in live : q \in due[s]
  <1>1. PICK taken \in SUBSET UNION {due[s] : s \in live}, full \in SUBSET live :
          /\ \A s \in live :
               /\ \A q, o \in due[s] : q \in taken /\ Older(o, q) => o \in taken
               /\ ~(due[s] \subseteq taken) => s \in full
               /\ s \in full => \/ due[s] \cap taken # {}
                                \/ frame = "first"
                                \/ frame = "last" /\ due[s] = {}
          /\ claim' = [q \in Requests |->
                         IF q \in taken THEN <<carrier(q), stream'[carrier(q)]>> ELSE c[q]]
          /\ blocked' = [s \in Physical |-> b[s] \/ s \in full]
    BY Zenon DEF Pump
  <1>2. r \notin taken
    <2> SUFFICES ASSUME r \in taken PROVE FALSE
      OBVIOUS
    <2> DEFINE s == carrier(r)
    <2>1. PICK t \in live : r \in due[t]
      OBVIOUS
    <2>2. s \in live /\ r \in due[s]
      BY <2>1
    <2>3. s \in Physical /\ stream'[s] \in Gens
      BY <2>2 DEF Writable
    <2>4. claim'[r] = <<s, stream'[s]>>
      BY <1>1
    <2> HIDE DEF s
    <2> QED BY <2>3, <2>4, BridgeAssumption DEF Owners
  <1>3. c[r] = NoOwner
    BY <1>1, <1>2
  <1>4. ~b[Phys[x]] /\ Phys[x] \notin full
    BY <1>1
  <1>5. Phys[x] \notin N
    <2> SUFFICES ASSUME Phys[x] \in N PROVE FALSE
      OBVIOUS
    <2>1. Phys[x] \in live
      BY <1>4 DEF Writable
    <2>2. r \in due[Phys[x]]
      BY <1>3, <2>1 DEF Deliverable, Group
    <2> QED BY <1>1, <1>2, <1>4, <2>1, <2>2
  <1> QED BY <1>3, <1>4, <1>5

\* The streams that carry a target are among those woken for its requests.
LEMMA CarriersWoken ==
    ASSUME NEW freed, NEW i, NEW tgt, NEW r \in freed, NEW x \in Sessions, i[x] = tgt[r]
    PROVE  Phys[x] \in UNION {CarriersOf(q, i, tgt) : q \in freed}
  <1>1. Phys[x] \in CarriersOf(r, i, tgt)
    BY DEF CarriersOf
  <1> QED BY <1>1

\* A request a step leaves overlooked was overlooked before, or has been moved
\* to another place.
LEMMA NextWakes ==
    ASSUME Inv, [Next]_vars, NEW r \in Requests, Overlooked(r)'
    PROVE  Overlooked(r) \/ (r \in Waiting /\ target'[r].place # target[r].place)
  <1>1. PICK x \in Sessions :
          /\ inst'[x] # NoTarget
          /\ inst'[x] = target'[r]
          /\ stream'[Phys[x]] # NoGen
          /\ ~blocked'[Phys[x]]
    BY DEF Overlooked, Registered, Open
  <1>2. status'[r] = "waiting" /\ claim'[r] = NoOwner
    BY DEF Overlooked, Waiting
  <1>3. Phys[x] \in Physical
    BY SessionAssumption DEF Physical
  <1>4. /\ claim \in [Requests -> Owners \cup {NoOwner}]
        /\ \A R : Unclaim(R) \in [Requests -> Owners \cup {NoOwner}]
        /\ blocked \in [Physical -> BOOLEAN]
        /\ stream' \in [Physical -> Gens \cup {NoGen}]
    BY NextTyped, HelperTypes DEF Inv, Typed, TypeOK
  <1>5. ASSUME NEW N, NEW c, NEW b, NEW frame,
               c \in [Requests -> Owners \cup {NoOwner}], Pump(N, c, b, frame)
        PROVE  Phys[x] \notin N /\ ~b[Phys[x]] /\ c[r] = NoOwner
    BY <1>1, <1>2, <1>3, <1>4, <1>5, PumpWakes
  <1>6. ASSUME r \in Waiting, claim[r] = NoOwner, inst[x] = inst'[x], target'[r] = target[r],
               stream[Phys[x]] # NoGen, ~blocked[Phys[x]]
        PROVE  Overlooked(r)
    BY <1>1, <1>3, <1>6 DEF Overlooked, Registered, Open
  <1>7. ASSUME NEW y \in Sessions, NEW tuple \in Targets, Register(y, tuple)
        PROVE  Overlooked(r) \/ (r \in Waiting /\ target'[r].place # target[r].place)
    <2> DEFINE gone == WithClients(Holders(y, tuple))
               R == IF Holders(y, tuple) = {} THEN {} ELSE Unhandled(Without(gone))
               moved == {q \in Waiting \ R :
                           /\ inst[y] # NoTarget
                           /\ target[q].place = inst[y].place}
    <2>1. /\ inst' = [Without(gone) EXCEPT ![y] = tuple]
          /\ Finish(R, "disconnected")
          /\ target' = [q \in Requests |->
                          IF q \in moved THEN [target[q] EXCEPT !.place = tuple.place]
                                         ELSE Forget(R)[q]]
          /\ UNCHANGED <<owners, stream, arrivals>>
          /\ Pump({Phys[y]}, Unclaim(R), blocked, "last")
      BY <1>7, Zenon DEF Register
    <2> HIDE DEF gone, R
    <2>2. Phys[x] # Phys[y] /\ ~blocked[Phys[x]] /\ Unclaim(R)[r] = NoOwner
      BY <1>4, <1>5, <2>1
    <2>3. r \in Waiting \ R
      BY <1>2, <2>1 DEF Finish, Waiting
    <2>4. claim[r] = NoOwner
      BY <2>2, <2>3 DEF Unclaim
    <2>5. inst[x] = inst'[x]
      BY <1>1, <2>1, <2>2 DEF Without
    <2>6. target'[r] = target[r] \/ target'[r].place # target[r].place
      <3>1. target[r] \in Targets
        BY <2>3 DEF Inv, Typed, TypeOK, WaitingAddressed, Waiting
      <3>2. target'[r] = target[r] \/ target'[r] = [target[r] EXCEPT !.place = tuple.place]
        BY <2>1, <2>3 DEF Forget
      <3>3. [target[r] EXCEPT !.place = tuple.place].place = target[r].place =>
              [target[r] EXCEPT !.place = tuple.place] = target[r]
        BY <3>1 DEF Targets
      <3> QED BY <3>2, <3>3
    <2> QED BY <1>1, <1>6, <2>1, <2>2, <2>3, <2>4, <2>5, <2>6
  <1>8. ASSUME NEW S, Unregister(S) PROVE Overlooked(r)
    <2> DEFINE gone == WithClients(S)
               freed == Released(gone \cap Physical)
               R == freed \cup Unhandled(Without(gone))
               b == [s \in Physical |-> blocked[s] /\ s \notin gone]
               N == UNION {CarriersOf(q, Without(gone), target) : q \in freed}
    <2>1. /\ inst' = Without(gone)
          /\ stream' = [s \in Physical |-> IF s \in gone THEN NoGen ELSE stream[s]]
          /\ Finish(Unhandled(Without(gone)), "disconnected")
          /\ target' = Forget(Unhandled(Without(gone)))
          /\ Pump(N, Unclaim(R), b, "none")
      BY <1>8, Zenon DEF Unregister
    <2>2. Phys[x] \notin N /\ ~b[Phys[x]] /\ Unclaim(R)[r] = NoOwner
      <3> HIDE DEF gone, freed, R, b, N
      <3> QED BY <1>4, <1>5, <2>1
    <2>3. Phys[x] \notin gone /\ stream[Phys[x]] # NoGen
      <3> HIDE DEF gone
      <3> QED BY <1>1, <1>3, <2>1
    <2>4. ~blocked[Phys[x]]
      <3> HIDE DEF gone
      <3> QED BY <1>3, <2>2, <2>3
    <2> HIDE DEF gone, b
    <2>5. r \in Waiting /\ r \notin Unhandled(Without(gone)) /\ target'[r] = target[r]
      BY <1>2, <2>1 DEF Finish, Forget, Waiting
    <2>6. inst[x] = inst'[x]
      BY <1>1, <2>1 DEF Without
    <2>7. r \notin freed
      <3> SUFFICES ASSUME r \in freed PROVE FALSE
        OBVIOUS
      <3>1. Without(gone)[x] = target[r]
        BY <1>1, <2>1, <2>5
      <3> HIDE DEF freed
      <3> QED BY <2>2, <3>1, CarriersWoken
    <2>8. claim[r] = NoOwner
      <3> HIDE DEF freed
      <3> QED BY <2>2, <2>5, <2>7 DEF Unclaim
    <2> QED BY <1>6, <2>3, <2>4, <2>5, <2>6, <2>8
  <1>9. ASSUME NEW s \in Physical, NEW g, NEW M, NEW frame,
               stream' = [stream EXCEPT ![s] = g],
               s \in M \/ g = NoGen,
               UNION {CarriersOf(q, inst, target) : q \in Released({s})} \subseteq M,
               UNCHANGED <<inst, status, target>>,
               Pump(M, Unclaim(Released({s})), [blocked EXCEPT ![s] = FALSE], frame)
        PROVE  Overlooked(r)
    <2> DEFINE freed == Released({s})
               b == [blocked EXCEPT ![s] = FALSE]
    <2>1. Phys[x] \notin M /\ ~b[Phys[x]] /\ Unclaim(freed)[r] = NoOwner
      <3>1. Pump(M, Unclaim(freed), b, frame)
        BY <1>9
      <3> HIDE DEF freed, b
      <3> QED BY <1>4, <1>5, <3>1
    <2>2. Phys[x] # s /\ stream[Phys[x]] # NoGen
      BY <1>1, <1>3, <1>9, <2>1, NextTyped DEF Inv, Typed, TypeOK
    <2>3. ~blocked[Phys[x]]
      BY <1>3, <1>4, <2>1, <2>2
    <2>4. r \notin freed
      <3> SUFFICES ASSUME r \in freed PROVE FALSE
        OBVIOUS
      <3>1. UNION {CarriersOf(q, inst, target) : q \in freed} \subseteq M
        BY <1>9
      <3>2. inst[x] = target[r]
        BY <1>1, <1>9
      <3> HIDE DEF freed
      <3> QED BY <2>1, <3>1, <3>2, CarriersWoken
    <2>5. claim[r] = NoOwner
      <3> HIDE DEF freed
      <3> QED BY <2>1, <2>4 DEF Unclaim
    <2> QED BY <1>1, <1>2, <1>6, <1>9, <2>2, <2>3, <2>5 DEF Waiting
  <1>10. ASSUME NEW s \in Physical, NEW g \in Gens, OpenStream(s, g) PROVE Overlooked(r)
    <2> DEFINE W == UNION {CarriersOf(q, inst, target) : q \in Released({s})}
    <2>1. /\ stream' = [stream EXCEPT ![s] = g]
          /\ UNCHANGED <<inst, arrivals, status, target>>
          /\ Pump({s} \cup W, Unclaim(Released({s})), [blocked EXCEPT ![s] = FALSE], "first")
      BY <1>10, Zenon DEF OpenStream
    <2> HIDE DEF W
    <2>2. s \in {s} \cup W /\ W \subseteq {s} \cup W
      OBVIOUS
    <2> QED BY <1>9, <2>1, <2>2 DEF W
  <1>11. ASSUME NEW s \in Physical, CloseStream(s) PROVE Overlooked(r)
    <2> DEFINE W == UNION {CarriersOf(q, inst, target) : q \in Released({s})}
    <2>1. /\ stream' = [stream EXCEPT ![s] = NoGen]
          /\ UNCHANGED <<inst, arrivals, status, target>>
          /\ Pump(W, Unclaim(Released({s})), [blocked EXCEPT ![s] = FALSE], "none")
      BY <1>11, Zenon DEF CloseStream
    <2> QED BY <1>9, <2>1
  <1>12. ASSUME UNCHANGED <<inst, stream, status, target>>,
                NEW M, NEW b, Pump(M, claim, b, "first"),
                Phys[x] \notin M => (b[Phys[x]] <=> blocked[Phys[x]])
         PROVE  Overlooked(r)
    <2>1. Phys[x] \notin M /\ ~b[Phys[x]] /\ claim[r] = NoOwner
      BY <1>4, <1>5, <1>12
    <2> QED BY <1>1, <1>2, <1>6, <1>12, <2>1 DEF Waiting
  <1>13. ASSUME NEW s \in Physical, Drain(s) \/ Heartbeat(s) PROVE Overlooked(r)
    <2>1. CASE Drain(s)
      <3> DEFINE b == [blocked EXCEPT ![s] = FALSE]
      <3>1. Pump({s}, claim, b, "first")
        BY <2>1, Zenon DEF Drain
      <3>2. UNCHANGED <<inst, stream, status, target>>
        BY <2>1 DEF Drain, peers
      <3>3. Phys[x] \notin {s} => (b[Phys[x]] <=> blocked[Phys[x]])
        BY <1>3, <1>4
      <3> HIDE DEF b
      <3> QED BY <1>12, <3>1, <3>2, <3>3
    <2>2. CASE Heartbeat(s)
      <3>1. Pump({s}, claim, blocked, "first") /\ UNCHANGED <<inst, stream, status, target>>
        BY <2>2, Zenon DEF Heartbeat
      <3> QED BY <1>12, <3>1
    <2> QED BY <1>13, <2>1, <2>2
  <1>14. CASE RefreshStatus
    <2>1. Pump(Open, claim, blocked, "first") /\ UNCHANGED <<inst, stream, status, target>>
      BY <1>14, Zenon DEF RefreshStatus, peers
    <2> QED BY <1>12, <2>1
  <1>15. ASSUME NEW q \in Requests, NEW tuple \in Targets, SendRequest(q, tuple)
         PROVE  Overlooked(r)
    <2>1. /\ status' = [status EXCEPT ![q] = "waiting"]
          /\ target' = [target EXCEPT ![q] = tuple]
          /\ UNCHANGED <<inst, stream>>
      BY <1>15 DEF SendRequest, peers
    <2> DEFINE N == CarriersOf(q, inst, target')
    <2>2. Pump(N, claim, blocked, "none")
      BY <1>15, Zenon DEF SendRequest
    <2>3. Phys[x] \notin N /\ ~blocked[Phys[x]] /\ claim[r] = NoOwner
      <3> HIDE DEF N
      <3> QED BY <1>4, <1>5, <2>2
    <2>4. r # q
      BY <1>1, <2>1, <2>3 DEF CarriersOf
    <2>5. r \in Waiting /\ target'[r] = target[r]
      BY <1>2, <2>1, <2>4 DEF Waiting
    <2> QED BY <1>1, <1>6, <2>1, <2>3, <2>5
  <1>16. ASSUME NEW q \in Requests, Respond(q) \/ TimeOut(q) PROVE Overlooked(r)
    <2>1. PICK how \in Settled : Settle(q, how)
      BY <1>16 DEF Respond, TimeOut, Settled
    <2>2. r # q
      BY <1>2, <2>1 DEF Settle, Finish, Settled
    <2>3. /\ status'[r] = status[r] /\ target'[r] = target[r] /\ claim'[r] = claim[r]
          /\ UNCHANGED <<inst, stream, blocked>>
      BY <2>1, <2>2 DEF Settle, Finish, Forget, Unclaim, peers, streams
    <2> QED BY <1>1, <1>2, <1>6, <2>3 DEF Waiting
  <1>17. ASSUME UNCHANGED <<inst, stream, blocked, status, target, claim>> PROVE Overlooked(r)
    BY <1>1, <1>2, <1>6, <1>17 DEF Waiting
  <1>18. (UNCHANGED vars \/ \E y \in Sessions : Age(y)) => Overlooked(r)
    BY <1>17 DEF vars, Age, streams, queue
  <1>19. ~Restart
    BY <1>1 DEF Restart
  <1>20. ASSUME NEW y \in Sessions, NEW p \in Places, NEW ask \in 0..MaxClients, Ready(y, p, ask)
         PROVE  Overlooked(r) \/ (r \in Waiting /\ target'[r].place # target[r].place)
    <2>1. PICK n \in 0..MaxClients :
            Assigned(y, p, ask, n) /\ Register(y, [place |-> p, kind |-> Kind[y], n |-> n])
      BY <1>20, Zenon DEF Ready
    <2> DEFINE tuple == [place |-> p, kind |-> Kind[y], n |-> n]
    <2>2. tuple \in Targets /\ Register(y, tuple)
      BY <2>1, AssignedTarget DEF Inv
    <2> HIDE DEF tuple
    <2> QED BY <2>2, <1>7
  <1> QED
    BY <1>8, <1>10, <1>11, <1>13, <1>14, <1>15, <1>16, <1>18, <1>19, <1>20, Zenon
    DEF Next, Disconnect, UnregisterPlace, CleanupStale

\* Whatever makes a request deliverable also pumps the stream that can take it,
\* but for a request that a place change moves onto another session's tuple.
THEOREM NothingIsOverlooked == Spec => NoLostWakeup
  <1>1. Inv /\ [Next]_vars =>
          [\A r \in Requests :
             Overlooked(r)' =>
                \/ Overlooked(r)
                \/ r \in Waiting /\ target'[r].place # target[r].place]_vars
    BY NextWakes
  <1> QED BY <1>1, InvHolds, PTL DEF Spec, NoLostWakeup
=============================================================================
