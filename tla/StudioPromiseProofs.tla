------------------------ MODULE StudioPromiseProofs ------------------------
(***************************************************************************)
(* Proof that StudioLink implements RequestPromise, for any number of      *)
(* plugins, requests, streams and failures, under the two presumptions     *)
(* that the comment on PromiseKept names.                                  *)
(***************************************************************************)
EXTENDS StudioLinkProofs

-----------------------------------------------------------------------------
(* The presumptions. *)

\* The kind of physical session that runs a request for the role k.
CarrierKind(k) == IF k = "client" THEN "server" ELSE k

\* One VM at most can run requests for the role k.
Alone(k) == \A u, v \in Physical : Kind[u] = CarrierKind(k) /\ Kind[v] = CarrierKind(k) => u = v

\* A place change takes along a request of another session only where no second
\* VM plays the role the request is for (migratePendingRequests asks for neither).
MovesOwn(r) ==
    \/ target'[r] \in {target[r], NoTarget}
    \/ Alone(target[r].kind)
    \/ \E x \in Sessions : inst[x] = target[r] /\ inst'[x] = target'[r]
OwnRequestsMove == \A r \in Waiting : MovesOwn(r)

\* A frame is read before its request leaves the last MaxTerminal answered ones.
FramesReadInTime ==
    \A v \in Physical : \A r \in Elements(wire[v]) \cap Answering(v) :
        r \in Answering(v)' \/ phase'[v] = "gone"

-----------------------------------------------------------------------------
(* Who runs a request. *)

\* v has been given request r: by a claim that stands, a frame it has not read
\* yet, or by having started its handler.
HasHad(v, r) ==
    \/ \E g \in Gens : claim[r] = <<v, g>>
    \/ r \in Elements(wire[v])
    \/ v \in Elements(runs[r])

\* No other VM than v can be given request r while it waits: v alone plays the
\* role, or v carries the session the request is for, or nobody is registered for
\* it and v is the play server whose clients could be.
Serves(v, r) ==
    \/ Alone(target[r].kind) /\ Kind[v] = CarrierKind(target[r].kind)
    \/ \E x \in Sessions : Phys[x] = v /\ inst[x] = target[r]
    \/ /\ \A x \in Sessions : inst[x] # target[r]
       /\ target[r].kind = "client"
       /\ inst[v] = [place |-> target[r].place, kind |-> "server", n |-> 0]

\* Only a play server carries clients.
Carriers == \A x \in Registered : Phys[x] # x => Kind[Phys[x]] = "server"

\* A plugin has unread frames only while it listens, and listens only while open.
Listening ==
    \A v \in Physical :
        /\ attached[v] # NoGen => phase[v] = "open"
        /\ attached[v] = NoGen => Elements(wire[v]) = {}

OneTaker == \A r \in Requests : \A u, v \in Physical : HasHad(u, r) /\ HasHad(v, r) => u = v
Reserved == \A r \in Waiting : \A v \in Physical : HasHad(v, r) => Serves(v, r)

\* What a plugin has started it still knows, unless its VM is gone or it can
\* never be given the request again.
Recalled ==
    \A v \in Physical : \A r \in Requests :
        v \in Elements(runs[r]) =>
            \/ phase[v] = "gone"
            \/ r \in Seen(v)
            \/ r \notin Elements(wire[v]) /\ status[r] \in Settled

StartedOnce == \A r \in Requests : Len(runs[r]) <= 1

PromiseInv ==
    HandInv /\ Ran /\ Carriers /\ Listening /\ OneTaker /\ Reserved /\ Recalled /\ StartedOnce
-----------------------------------------------------------------------------
(* What the bridge gives to whom. *)

\* r is claimed for the open stream of a session that it is addressed to.
Given(r) ==
    \E x \in Sessions :
        /\ inst'[x] = target'[r]
        /\ stream'[Phys[x]] \in Gens
        /\ claim'[r] = <<Phys[x], stream'[Phys[x]]>>

GiveStep == \A r \in Requests : claim'[r] \in {claim[r], NoOwner} \/ Given(r)

LEMMA PumpGives ==
    ASSUME NEW N, NEW c, NEW b, NEW frame, Pump(N, c, b, frame),
           stream' \in [Physical -> Gens \cup {NoGen}],
           \A r \in Requests : c[r] \in {claim[r], NoOwner}
    PROVE  GiveStep
<1> DEFINE live == {s \in N \cap Physical : Writable(s, b)}
           due == [s \in live |-> Deliverable(s, c)]
           carrier(r) == CHOOSE s \in live : r \in due[s]
<1>1. PICK taken \in SUBSET UNION {due[s] : s \in live} :
        claim' = [r \in Requests |->
                    IF r \in taken THEN <<carrier(r), stream'[carrier(r)]>> ELSE c[r]]
  BY Zenon DEF Pump
<1>2. ASSUME NEW r \in Requests, r \in taken
      PROVE  Given(r)
  <2>1. PICK s : s = carrier(r)
    OBVIOUS
  <2>2. \E t \in live : r \in due[t]
    BY <1>2
  <2>3. s \in live /\ r \in due[s]
    BY <2>1, <2>2
  <2>4. s \in Physical /\ stream'[s] \in Gens
    BY <2>3 DEF Writable
  <2>5. claim'[r] = <<s, stream'[s]>>
    <3> HIDE DEF carrier
    <3> QED BY <1>1, <1>2, <2>1
  <2>6. r \in Deliverable(s, c)
    BY <2>3
  <2>7. PICK x \in Group(s) : inst'[x] = target'[r]
    BY <2>6 DEF Deliverable
  <2> HIDE DEF live, due, carrier
  <2> QED BY <2>4, <2>5, <2>7 DEF Group, Given
<1>3. ASSUME NEW r \in Requests, r \notin taken
      PROVE  claim'[r] \in {claim[r], NoOwner}
  <2> HIDE DEF live, due, carrier
  <2> QED BY <1>1, <1>3
<1> QED BY <1>2, <1>3 DEF GiveStep

LEMMA UnclaimOnlyFrees == ASSUME NEW R PROVE \A r \in Requests : Unclaim(R)[r] \in {claim[r], NoOwner}
BY DEF Unclaim

LEMMA GiveSteps ==
    ASSUME Typed, [Next]_vars
    PROVE  GiveStep
<1>1. stream' \in [Physical -> Gens \cup {NoGen}]
  BY NextTyped DEF Typed, TypeOK
<1>2. ASSUME NEW R, claim' = Unclaim(R) PROVE GiveStep
  BY <1>2, UnclaimOnlyFrees DEF GiveStep
<1>3. ASSUME claim' = claim PROVE GiveStep
  BY <1>3 DEF GiveStep
<1>4. ASSUME NEW N, NEW R, NEW b, NEW frame, Pump(N, Unclaim(R), b, frame)
      PROVE  GiveStep
  <2>1. PICK c : c = Unclaim(R) /\ Pump(N, c, b, frame)
    BY <1>4
  <2> QED BY <1>1, <2>1, UnclaimOnlyFrees, PumpGives
<1>5. ASSUME NEW N, NEW b, NEW frame, Pump(N, claim, b, frame)
      PROVE  GiveStep
  BY <1>1, <1>5, PumpGives
<1>6. ASSUME NEW x, NEW p, NEW ask, Ready(x, p, ask)
      PROVE  GiveStep
  <2>1. PICK tuple : Register(x, tuple)
    BY <1>6, Zenon DEF Ready
  <2>2. PICK N, R, b, frame : Pump(N, Unclaim(R), b, frame)
    BY <2>1, Zenon DEF Register
  <2> QED BY <1>4, <2>2
<1>7. ASSUME NEW S, Unregister(S)
      PROVE  GiveStep
  <2>1. PICK N, R, b, frame : Pump(N, Unclaim(R), b, frame)
    BY <1>7, Zenon DEF Unregister
  <2> QED BY <1>4, <2>1
<1>8. ASSUME NEW x, Disconnect(x)
      PROVE  GiveStep
  BY <1>7, <1>8, Zenon DEF Disconnect
<1>9. ASSUME NEW x, Age(x)
      PROVE  GiveStep
  BY <1>3, <1>9, Zenon DEF Age, queue
<1>10. CASE CleanupStale \/ \E p \in Places : UnregisterPlace(p)
  BY <1>7, <1>10, Zenon DEF CleanupStale, UnregisterPlace
<1>11. ASSUME NEW s, CloseStream(s) \/ \E g \in Gens : OpenStream(s, g)
       PROVE  GiveStep
  <2>1. PICK N, R, b, frame : Pump(N, Unclaim(R), b, frame)
    BY <1>11, Zenon DEF CloseStream, OpenStream
  <2> QED BY <1>4, <2>1
<1>12. ASSUME NEW s, Drain(s) \/ Heartbeat(s)
       PROVE  GiveStep
  BY <1>5, <1>12, Zenon DEF Drain, Heartbeat
<1>13. CASE RefreshStatus
  BY <1>5, <1>13, Zenon DEF RefreshStatus
<1>14. ASSUME NEW r, NEW tuple, SendRequest(r, tuple)
       PROVE  GiveStep
  BY <1>5, <1>14, Zenon DEF SendRequest
<1>15. ASSUME NEW r, Respond(r) \/ TimeOut(r)
       PROVE  GiveStep
  BY <1>2, <1>15, Zenon DEF Respond, TimeOut, Settle
<1>16. CASE Restart
  BY <1>2, <1>16, Zenon DEF Restart
<1>17. CASE UNCHANGED vars
  BY <1>3, <1>17 DEF vars
<1> QED
  BY <1>6, <1>8, <1>9, <1>10, <1>11, <1>12, <1>13, <1>14, <1>15, <1>16, <1>17, Zenon DEF Next

-----------------------------------------------------------------------------
(* Registrations and the requests addressed to them. *)

\* A registration, the end of some, the end of all of them, or nothing that
\* changes a registration or the target of a request that goes on waiting.
RegistrationStep ==
    \/ \E x \in Sessions, p \in Places, ask \in 0..MaxClients : Ready(x, p, ask)
    \/ \E S \in SUBSET Sessions : Unregister(S)
    \/ inst' = [x \in Sessions |-> NoTarget] /\ \A r \in Waiting : status'[r] = "closed"
    \/ inst' = inst /\ \A r \in Waiting : target'[r] = target[r] \/ status'[r] # "waiting"

LEMMA RegistrationSteps ==
    ASSUME Typed, [Next]_vars
    PROVE  RegistrationStep
<1>1. ASSUME inst' = inst, target' = target
      PROVE  RegistrationStep
  BY <1>1 DEF RegistrationStep
<1>2. ASSUME NEW S \in SUBSET Sessions, Unregister(S)
      PROVE  RegistrationStep
  BY <1>2, Zenon DEF RegistrationStep
<1>3. ASSUME NEW x \in Sessions, Disconnect(x)
      PROVE  RegistrationStep
  BY <1>2, <1>3 DEF Disconnect
<1>4. CASE CleanupStale \/ \E p \in Places : UnregisterPlace(p)
  <2>1. /\ {x \in Registered : Undelivered(x) /\ idle[x] = 2} \in SUBSET Sessions
        /\ \A p \in Places : {x \in Registered : inst[x].place = p} \in SUBSET Sessions
    BY Zenon DEF Registered
  <2> QED BY <1>2, <1>4, <2>1, Zenon DEF CleanupStale, UnregisterPlace
<1>5. ASSUME NEW s, \/ \E g \in Gens : OpenStream(s, g)
                    \/ CloseStream(s) \/ Drain(s) \/ Heartbeat(s) \/ RefreshStatus \/ Age(s)
      PROVE  RegistrationStep
  BY <1>1, <1>5, Zenon DEF OpenStream, CloseStream, Drain, Heartbeat, RefreshStatus, Age, queue, peers
<1>6. ASSUME NEW r \in Requests, NEW tuple \in Targets, SendRequest(r, tuple)
      PROVE  RegistrationStep
  <2>1. inst' = inst /\ status[r] = "new" /\ target' = [target EXCEPT ![r] = tuple]
    BY <1>6 DEF SendRequest, peers
  <2> QED BY <2>1 DEF RegistrationStep, Waiting, Typed, TypeOK
<1>7. ASSUME NEW r \in Requests, NEW how \in Settled, Settle(r, how)
      PROVE  RegistrationStep
  <2>1. inst' = inst /\ Finish({r}, how) /\ target' = Forget({r})
    BY <1>7 DEF Settle, peers
  <2>2. \A q \in Requests : IF q = r THEN status'[q] = how ELSE target'[q] = target[q]
    BY <2>1 DEF Finish, Forget
  <2> QED BY <2>1, <2>2 DEF RegistrationStep, Waiting, Settled
<1>8. ASSUME NEW r \in Requests, Respond(r) \/ TimeOut(r)
      PROVE  RegistrationStep
  BY <1>7, <1>8 DEF Respond, TimeOut, Settled
<1>9. CASE Restart
  BY <1>9 DEF Restart, Finish, RegistrationStep, Waiting
<1>10. CASE UNCHANGED vars
  BY <1>1, <1>10 DEF vars
<1>11. ASSUME NEW x \in Sessions, NEW p \in Places, NEW ask \in 0..MaxClients, Ready(x, p, ask)
       PROVE  RegistrationStep
  BY <1>11, Zenon DEF RegistrationStep
<1> QED
  BY <1>3, <1>4, <1>5, <1>6, <1>8, <1>9, <1>10, <1>11, Zenon DEF Next
LEMMA TargetsAre ==
    /\ \A t \in Targets : t = [place |-> t.place, kind |-> t.kind, n |-> t.n]
    /\ \A t \in Targets : t.kind # "client" => t.n = 0
    /\ \A t, u \in Targets : t.place = u.place /\ t.kind = u.kind /\ t.n = u.n => t = u
    /\ \A t \in Targets : \A p : /\ [t EXCEPT !.place = p].place = p
                                 /\ [t EXCEPT !.place = p].kind = t.kind
                                 /\ [t EXCEPT !.place = p].n = t.n
BY DEF Targets

\* What a registration does: to the sessions, to the requests that go on waiting.
Registering(x, tuple) ==
    /\ tuple \in Targets /\ tuple.kind = Kind[x]
    /\ Phys[x] # x =>
         inst[Phys[x]] # NoTarget /\ inst[Phys[x]].kind = "server" /\ inst[Phys[x]].place = tuple.place
    /\ inst'[x] = tuple
    /\ \A y \in Sessions : y # x => inst'[y] \in {inst[y], NoTarget}
    /\ \A r \in Waiting : status'[r] = "waiting" =>
         /\ \/ \A y \in Sessions : inst[y] # tuple \/ y = x
            \/ \E y \in Sessions : inst[y] = target[r] /\ (y = x \/ inst'[y] = inst[y])
         /\ target'[r] = IF inst[x] # NoTarget /\ target[r].place = inst[x].place
                           THEN [target[r] EXCEPT !.place = tuple.place] ELSE target[r]
    /\ \A y \in Sessions : y # x =>
         inst'[y] = inst[y] \/ \E h \in {y, Phys[y]} : h # x /\ inst[h] = tuple

LEMMA RegisteringSteps ==
    ASSUME Typed, NEW x \in Sessions, NEW p \in Places, NEW ask \in 0..MaxClients, Ready(x, p, ask)
    PROVE  \E tuple : Registering(x, tuple)
<1>1. PICK n \in 0..MaxClients :
        /\ Assigned(x, p, ask, n)
        /\ Register(x, [place |-> p, kind |-> Kind[x], n |-> n])
  BY Zenon DEF Ready
<1>2. PICK tuple : tuple = [place |-> p, kind |-> Kind[x], n |-> n]
  OBVIOUS
<1>3. tuple \in Targets /\ tuple.kind = Kind[x] /\ tuple.place = p
  BY <1>1, <1>2, AssignedTarget
<1>4. Phys[x] # x =>
        inst[Phys[x]] # NoTarget /\ inst[Phys[x]].kind = "server" /\ inst[Phys[x]].place = p
  BY Zenon DEF Ready
<1> DEFINE gone == WithClients(Holders(x, tuple))
           rejected == IF Holders(x, tuple) = {} THEN {} ELSE Unhandled(Without(gone))
           moved == {r \in Waiting \ rejected :
                       /\ inst[x] # NoTarget
                       /\ target[r].place = inst[x].place}
<1>5. /\ inst' = [Without(gone) EXCEPT ![x] = tuple]
      /\ Finish(rejected, "disconnected")
      /\ target' = [r \in Requests |->
                      IF r \in moved THEN [target[r] EXCEPT !.place = tuple.place]
                                     ELSE Forget(rejected)[r]]
  BY <1>1, <1>2, Zenon DEF Register
<1>6. inst'[x] = tuple /\ \A y \in Sessions : y # x => inst'[y] = Without(gone)[y]
  BY <1>5 DEF Without
<1>7. \A y \in Sessions : Without(gone)[y] = IF y \in gone THEN NoTarget ELSE inst[y]
  BY DEF Without
<1>8. \A y \in gone : \E h \in {y, Phys[y]} : h # x /\ inst[h] = tuple
  BY DEF Holders, WithClients
<1>9. ASSUME NEW r \in Waiting, status'[r] = "waiting"
      PROVE  /\ r \notin rejected
             /\ \/ \A y \in Sessions : inst[y] # tuple \/ y = x
                \/ \E y \in Sessions : inst[y] = target[r] /\ (y = x \/ inst'[y] = inst[y])
             /\ target'[r] = IF inst[x] # NoTarget /\ target[r].place = inst[x].place
                               THEN [target[r] EXCEPT !.place = tuple.place] ELSE target[r]
  <2>1. r \notin rejected
    BY <1>5, <1>9 DEF Finish, Waiting
  <2>2. Holders(x, tuple) = {} => \A y \in Sessions : inst[y] # tuple \/ y = x
    BY DEF Holders
  <2>3. ASSUME Holders(x, tuple) # {}
        PROVE  \E y \in Sessions : inst[y] = target[r] /\ (y = x \/ inst'[y] = inst[y])
    <3>1. \E y \in Sessions : Without(gone)[y] = target[r]
      BY <2>1, <2>3 DEF Unhandled
    <3>2. target[r] # NoTarget
      BY DEF Typed, WaitingAddressed
    <3>3. PICK y \in Sessions : Without(gone)[y] = target[r]
      BY <3>1
    <3>4. inst[y] = target[r] /\ Without(gone)[y] = inst[y]
      BY <1>7, <3>2, <3>3
    <3> HIDE DEF gone, rejected, moved
    <3> QED BY <1>6, <3>4
  <2>4. target'[r] = IF r \in moved THEN [target[r] EXCEPT !.place = tuple.place] ELSE Forget(rejected)[r]
    BY <1>5 DEF Waiting
  <2>5. Forget(rejected)[r] = target[r]
    BY <2>1 DEF Forget, Waiting
  <2>6. r \in moved <=> inst[x] # NoTarget /\ target[r].place = inst[x].place
    BY <2>1
  <2> QED BY <2>1, <2>2, <2>3, <2>4, <2>5, <2>6
<1> HIDE DEF gone, rejected, moved
<1> QED BY <1>3, <1>4, <1>6, <1>7, <1>8, <1>9 DEF Registering

\* What unregistering does.
LEMMA Unregistering ==
    ASSUME Typed, NEW S, Unregister(S)
    PROVE  /\ \A y \in Sessions : inst'[y] \in {inst[y], NoTarget}
           /\ \A r \in Waiting : status'[r] = "waiting" =>
                target'[r] = target[r] /\ \E y \in Sessions : inst'[y] = target[r]
<1>1. PICK R, gone : /\ R = Unhandled(Without(gone)) /\ inst' = Without(gone)
                     /\ Finish(R, "disconnected") /\ target' = Forget(R)
  BY Zenon DEF Unregister
<1>2. \A y \in Sessions : inst'[y] \in {inst[y], NoTarget}
  BY <1>1 DEF Without
<1>3. ASSUME NEW r \in Waiting, status'[r] = "waiting"
      PROVE  target'[r] = target[r] /\ \E y \in Sessions : inst'[y] = target[r]
  <2>1. r \notin R
    BY <1>1, <1>3 DEF Finish, Waiting
  <2> QED BY <1>1, <2>1 DEF Unhandled, Forget, Waiting
<1> QED BY <1>2, <1>3
LEMMA CarriersKept ==
    ASSUME Typed, Typed', Carriers, RegistrationStep
    PROVE  Carriers'
<1>1. ASSUME NEW x \in Sessions, NEW tuple, Registering(x, tuple)
      PROVE  Carriers'
  <2>1. Phys[x] # x => Kind[Phys[x]] = "server"
    BY <1>1, SessionAssumption DEF Registering, Typed, KindsMatch, Registered
  <2> QED BY <1>1, <2>1 DEF Registering, Carriers, Registered
<1>2. ASSUME \A y \in Sessions : inst'[y] \in {inst[y], NoTarget}
      PROVE  Carriers'
  BY <1>2 DEF Carriers, Registered
<1> QED BY <1>1, <1>2, RegisteringSteps, Unregistering DEF RegistrationStep

\* While a request goes on waiting, the VM that serves it goes on serving it.
LEMMA ServesKept ==
    ASSUME Typed, Typed', OneSessionPerTarget, Carriers, RegistrationStep,
           NEW r \in Waiting, status'[r] = "waiting", MovesOwn(r),
           NEW v \in Physical, Serves(v, r)
    PROVE  Serves(v, r)'
<1>1. /\ target[r] \in Targets /\ target'[r] \in Targets /\ v \in Sessions /\ Phys[v] = v
      /\ \A x \in Sessions : inst[x] \in Targets => inst[x].kind = Kind[x]
  BY BridgeAssumption DEF Typed, TypeOK, WaitingAddressed, Waiting, KindsMatch, Registered, Physical
<1>2. ASSUME NEW k, Alone(k), Kind[v] = CarrierKind(k), target'[r].kind = k
      PROVE  Serves(v, r)'
  <2>1. Alone(target'[r].kind) /\ Kind[v] = CarrierKind(target'[r].kind)
    BY <1>2
  <2> QED BY <2>1 DEF Serves
<1>3. ASSUME NEW x \in Sessions, inst[x] = target[r], Phys[x] = v
      PROVE  /\ \A y \in Sessions : inst[y] = target[r] => y = x
             /\ Kind[v] = CarrierKind(target[r].kind)
  <2>1. inst[x] # NoTarget /\ Kind[x] = target[r].kind
    BY <1>1, <1>3, BridgeAssumption
  <2>2. \A y \in Sessions : inst[y] = target[r] => y = x
    BY <1>3, <2>1 DEF OneSessionPerTarget, Registered
  <2>3. Kind[v] = CarrierKind(target[r].kind)
    BY <1>1, <1>3, <2>1, SessionAssumption DEF Carriers, Registered, CarrierKind
  <2> QED BY <2>2, <2>3
<1>4. ASSUME target'[r] = target[r], \A y \in Sessions : inst'[y] \in {inst[y], NoTarget},
             inst' = inst \/ \E y \in Sessions : inst'[y] = target[r]
      PROVE  Serves(v, r)'
  <2>1. ASSUME NEW x \in Sessions, Phys[x] = v, inst[x] = target[r]
        PROVE  inst'[x] = target'[r]
    BY <1>1, <1>3, <1>4, <2>1, BridgeAssumption
  <2>2. ASSUME \A x \in Sessions : inst[x] # target[r]
        PROVE  inst' = inst
    BY <1>1, <1>4, <2>2, BridgeAssumption
  <2>3. CASE Alone(target[r].kind) /\ Kind[v] = CarrierKind(target[r].kind)
    BY <1>2, <1>4, <2>3
  <2>4. CASE \E x \in Sessions : Phys[x] = v /\ inst[x] = target[r]
    BY <2>1, <2>4 DEF Serves
  <2>5. ASSUME \A x \in Sessions : inst[x] # target[r], target[r].kind = "client",
               inst[v] = [place |-> target[r].place, kind |-> "server", n |-> 0]
        PROVE  Serves(v, r)'
    BY <1>4, <2>2, <2>5 DEF Serves
  <2> QED BY <2>3, <2>4, <2>5 DEF Serves
<1>5. ASSUME NEW y \in Sessions, NEW tuple, Registering(y, tuple)
      PROVE  Serves(v, r)'
  <2>1. /\ tuple \in Targets /\ tuple.kind = Kind[y] /\ inst'[y] = tuple
        /\ Phys[y] # y =>
             inst[Phys[y]] # NoTarget /\ inst[Phys[y]].kind = "server" /\ inst[Phys[y]].place = tuple.place
        /\ \A z \in Sessions : z # y => inst'[z] \in {inst[z], NoTarget}
        /\ \/ \A z \in Sessions : inst[z] # tuple \/ z = y
           \/ \E z \in Sessions : inst[z] = target[r] /\ (z = y \/ inst'[z] = inst[z])
        /\ target'[r] = IF inst[y] # NoTarget /\ target[r].place = inst[y].place
                          THEN [target[r] EXCEPT !.place = tuple.place] ELSE target[r]
        /\ \A z \in Sessions : z # y =>
             inst'[z] = inst[z] \/ \E h \in {z, Phys[z]} : h # y /\ inst[h] = tuple
    BY <1>5 DEF Registering
  <2>2. target'[r].kind = target[r].kind /\ target'[r].n = target[r].n
        /\ (target'[r] # target[r] => target'[r].place = tuple.place)
        /\ (inst[y] # NoTarget /\ target[r].place = inst[y].place => target'[r].place = tuple.place)
    BY <1>1, <2>1, TargetsAre
  <2> DEFINE moved == target'[r] # target[r]
  <2>3. ASSUME moved, Kind[v] = CarrierKind(target[r].kind),
               \A x \in Sessions : inst[x] = target[r] => inst'[x] # target'[r]
        PROVE  Serves(v, r)'
    <3>1. Alone(target[r].kind)
      BY <1>1, <2>3, BridgeAssumption DEF MovesOwn
    <3> QED BY <1>2, <2>2, <2>3, <3>1
  <2>4. ASSUME NEW x \in Sessions, Phys[x] = v, inst[x] = target[r]
        PROVE  Serves(v, r)'
    <3>1. CASE inst'[x] = target'[r]
      BY <2>4, <3>1 DEF Serves
    <3>2. CASE inst'[x] # target'[r] /\ moved
      BY <1>3, <2>3, <2>4, <3>2
    <3>3. ASSUME inst'[x] # target'[r], ~moved
          PROVE  Serves(v, r)'
      <4>1. x = y
        BY <1>1, <1>3, <2>1, <2>4, <3>3
      <4>2. tuple # target[r] /\ inst[y] = target[r]
        BY <2>1, <2>4, <3>3, <4>1
      <4>3. inst[y] # NoTarget /\ tuple.place = target[r].place /\ tuple.kind = target[r].kind
        BY <1>1, <2>1, <2>2, <3>3, <4>2, BridgeAssumption
      <4>4. tuple.n # target[r].n
        BY <1>1, <2>1, <4>2, <4>3, TargetsAre
      <4>5. target[r].kind = "client"
        BY <1>1, <2>1, <4>3, <4>4, TargetsAre
      <4>6. Phys[y] # y /\ v # y
        <5>1. Kind[y] = "client"
          BY <2>1, <4>3, <4>5
        <5> QED BY <1>1, <5>1, SessionAssumption
      <4>7. inst[v] # NoTarget /\ inst[v].kind = "server" /\ inst[v].place = target[r].place
        BY <2>1, <2>4, <4>1, <4>3, <4>6
      <4>8. inst[v] \in Targets
        BY <1>1, <4>7 DEF Typed, TypeOK
      <4>9. inst[v] = [place |-> target[r].place, kind |-> "server", n |-> 0]
        BY <4>7, <4>8, TargetsAre
      <4>10. inst[v] # tuple
        BY <4>3, <4>5, <4>7
      <4>11. inst'[v] = inst[v]
        BY <1>1, <2>1, <4>6, <4>10
      <4>12. \A z \in Sessions : inst'[z] # target[r]
        BY <1>1, <1>3, <2>1, <2>4, <4>1, <4>2, BridgeAssumption
      <4> QED BY <3>3, <4>5, <4>9, <4>11, <4>12 DEF Serves
    <3> QED BY <3>1, <3>2, <3>3
  <2>5. ASSUME \A x \in Sessions : inst[x] # target[r], target[r].kind = "client",
               inst[v] = [place |-> target[r].place, kind |-> "server", n |-> 0]
        PROVE  Serves(v, r)'
    <3>1. \A z \in Sessions : z # y => inst'[z] = inst[z]
      <4>1. \A z \in Sessions : inst[z] # tuple \/ z = y
        BY <2>1, <2>5
      <4>2. \A z \in Sessions : Phys[z] \in Sessions
        BY SessionAssumption
      <4> QED BY <2>1, <4>1, <4>2
    <3>2. Kind[v] = "server" /\ inst[v] # NoTarget /\ inst[v].place = target[r].place
      <4>1. inst[v] # NoTarget
        <5>1. target[r].place \in Places
          BY <1>1 DEF Targets
        <5>2. inst[v] \in Targets
          BY <2>5, <5>1 DEF Targets
        <5> QED BY <5>2, BridgeAssumption
      <4> QED BY <1>1, <2>5, <4>1 DEF Typed, TypeOK
    <3>3. CASE moved
      BY <2>3, <2>5, <3>2, <3>3 DEF CarrierKind
    <3>4. ASSUME ~moved
          PROVE  Serves(v, r)'
      <4>1. CASE tuple = target[r]
        <5>1. Kind[y] = "client"
          BY <2>1, <2>5, <4>1
        <5>2. Phys[y] # y /\ Phys[y] \in Sessions
          BY <5>1, SessionAssumption
        <5>3. inst[Phys[y]] \in Targets
          BY <2>1, <5>2 DEF Typed, TypeOK
        <5>4. inst[v] \in Targets
          BY <3>2, <1>1 DEF Typed, TypeOK
        <5>5. inst[Phys[y]] = inst[v]
          BY <2>1, <2>5, <4>1, <5>2, <5>3, <5>4, TargetsAre
        <5>6. Phys[y] = v
          BY <1>1, <3>2, <5>2, <5>5 DEF OneSessionPerTarget, Registered
        <5> QED BY <2>1, <3>4, <4>1, <5>6 DEF Serves
      <4>2. CASE tuple # target[r]
        <5>1. \A z \in Sessions : inst'[z] # target[r]
          BY <2>1, <2>5, <3>1, <4>2
        <5>2. inst'[v] = inst[v]
          <6>1. CASE v = y
            <7>1. tuple.place = target[r].place
              BY <2>2, <3>2, <3>4, <6>1
            <7>2. inst[v] \in Targets
              BY <3>2, <1>1 DEF Typed, TypeOK
            <7> QED BY <2>1, <2>5, <3>2, <6>1, <7>1, <7>2, TargetsAre
          <6>2. CASE v # y
            BY <1>1, <3>1, <6>2
          <6> QED BY <6>1, <6>2
        <5> QED BY <2>5, <3>4, <5>1, <5>2 DEF Serves
      <4> QED BY <4>1, <4>2
    <3> QED BY <3>3, <3>4
  <2>6. CASE Alone(target[r].kind) /\ Kind[v] = CarrierKind(target[r].kind)
    BY <1>2, <2>2, <2>6
  <2> QED BY <2>4, <2>5, <2>6 DEF Serves
<1>6. CASE inst' = inst /\ (target'[r] = target[r] \/ status'[r] # "waiting")
  BY <1>4, <1>6
<1>7. ASSUME NEW S, Unregister(S)
      PROVE  Serves(v, r)'
  BY <1>4, <1>7, Unregistering
<1> QED BY <1>5, <1>6, <1>7, RegisteringSteps DEF RegistrationStep
\* One VM at a time can be given a request.
LEMMA ServesIsUnique ==
    Typed /\ OneSessionPerTarget /\ Carriers =>
        \A r \in Waiting : \A u, v \in Physical : Serves(u, r) /\ Serves(v, r) => u = v
<1> SUFFICES ASSUME Typed, OneSessionPerTarget, Carriers, NEW r \in Waiting,
                    NEW u \in Physical, NEW v \in Physical, Serves(u, r), Serves(v, r)
             PROVE  u = v
  OBVIOUS
<1>1. target[r] \in Targets /\ target[r] # NoTarget
  BY BridgeAssumption DEF Typed, TypeOK, WaitingAddressed, Waiting
<1>2. ASSUME NEW w \in Physical, NEW x \in Sessions, Phys[x] = w, inst[x] = target[r]
      PROVE  Kind[w] = CarrierKind(target[r].kind)
  <2>1. Kind[x] = target[r].kind
    BY <1>1, <1>2 DEF Typed, KindsMatch, Registered
  <2> QED BY <1>1, <1>2, <2>1, SessionAssumption DEF Carriers, Registered, CarrierKind
<1>3. ASSUME NEW w \in Physical, target[r].kind = "client",
             inst[w] = [place |-> target[r].place, kind |-> "server", n |-> 0]
      PROVE  Kind[w] = CarrierKind(target[r].kind) /\ inst[w] # NoTarget
  <2>1. target[r].place \in Places
    BY <1>1 DEF Targets
  <2>2. inst[w] \in Targets
    BY <1>3, <2>1 DEF Targets
  <2>3. inst[w] # NoTarget /\ w \in Sessions
    BY <2>2, BridgeAssumption DEF Physical
  <2> QED BY <1>3, <2>3 DEF Typed, KindsMatch, Registered, CarrierKind
<1>4. ASSUME NEW w \in Physical, Serves(w, r)
      PROVE  Kind[w] = CarrierKind(target[r].kind)
  BY <1>2, <1>3, <1>4 DEF Serves
<1>5. CASE Alone(target[r].kind)
  BY <1>4, <1>5 DEF Alone
<1>6. CASE ~Alone(target[r].kind) /\ \E x \in Sessions : inst[x] = target[r]
  <2>1. PICK x \in Sessions : inst[x] = target[r]
    BY <1>6
  <2>2. \A y \in Sessions : inst[y] = target[r] => y = x
    BY <1>1, <2>1 DEF OneSessionPerTarget, Registered
  <2> QED BY <1>6, <2>2 DEF Serves
<1>7. CASE ~Alone(target[r].kind) /\ \A x \in Sessions : inst[x] # target[r]
  <2>1. inst[u] = inst[v] /\ inst[u] # NoTarget /\ inst[v] # NoTarget
    BY <1>3, <1>7 DEF Serves
  <2> QED BY <2>1 DEF OneSessionPerTarget, Registered, Physical
<1> QED BY <1>5, <1>6, <1>7

-----------------------------------------------------------------------------
(* The plugins' side. *)

LEMMA GoneStays ==
    ASSUME LinkTyped, [LinkNext]_linkVars, NEW v \in Physical, phase[v] = "gone"
    PROVE  phase'[v] = "gone"
<1> USE DEF LinkTyped, ConnectionsTyped
<1>1. ASSUME NEW u \in Physical, NEW ph, u # v, Enter(u, ph)
      PROVE  phase'[v] = "gone"
  BY <1>1 DEF Enter
<1>2. CASE phase' = phase
  BY <1>2
<1>3. ASSUME NEW u \in Physical,
             \/ Start(u) \/ Registers(u) \/ RefusedDuplicate(u) \/ Opens(u) \/ RefusedStream(u) \/ GivesUp(u)
             \/ Reconnects(u) \/ SeesClose(u) \/ LosesStream(u) \/ Stop(u) \/ Killed(u)
             \/ \E p \in Places : Refreshes(u, p)
      PROVE  phase'[v] = "gone"
  <2>1. u # v
    BY <1>3 DEF Start, Registers, RefusedDuplicate, Opens, RefusedStream, GivesUp, Reconnects, SeesClose,
       LosesStream, Stop, Killed, Refreshes, Active
  <2>2. \E ph : Enter(u, ph)
    BY <1>3, Zenon DEF Start, Registers, RefusedDuplicate, Opens, RefusedStream, GivesUp, Reconnects, SeesClose,
       LosesStream, Stop, Killed, Refreshes
  <2> QED BY <1>1, <2>1, <2>2
<1> QED
  BY <1>2, <1>3 DEF LinkNext, linkVars, plugin, LateEvents, LateDisconnect, LateLost, Reads, Discards, PeerLeft, StreamBreaks,
     Ticks, LateReady, Finishes, PostsAnswer, AcknowledgementLost, ClientJoins, ClientLeaves, Ages, Submits,
     Expires, Cleans, Fails, Refreshed

LEMMA ListeningKept ==
    ASSUME LinkTyped, LinkTyped', Listening, [LinkNext]_linkVars, WireStep
    PROVE  Listening'
<1>1. /\ attached \in [Physical -> Gens \cup {NoGen}] /\ wire \in [Physical -> Seq(Requests)]
      /\ phase \in [Physical -> {"off", "ready", "dial", "open", "backoff", "gone"}]
      /\ arrivals' \in Seq(Requests)
  BY DEF LinkTyped, ConnectionsTyped, WireTyped, Inv, Typed, TypeOK
<1>2. ASSUME NEW v \in Physical, attached'[v] = NoGen
      PROVE  Elements(wire'[v]) = {}
  <2>1. CASE attached[v] # NoGen
    BY <1>2, <2>1, ElementsOfNone DEF WireStep
  <2>2. ASSUME attached[v] = NoGen
        PROVE  Elements(wire'[v]) = {}
    <3>1. Elements(wire[v]) = {}
      BY <2>2 DEF Listening
    <3> QED BY <1>1, <1>2, <3>1, FrameSteps
  <2> QED BY <2>1, <2>2
<1>3. ASSUME attached' = attached, phase' = phase
      PROVE  \A v \in Physical : attached'[v] # NoGen => phase'[v] = "open"
  BY <1>3 DEF Listening
<1>4. ASSUME NEW u \in Physical,
             Start(u) \/ Registers(u) \/ RefusedDuplicate(u) \/ RefusedStream(u) \/ GivesUp(u) \/ Reconnects(u)
      PROVE  \A v \in Physical : attached'[v] # NoGen => phase'[v] = "open"
  <2>1. phase[u] # "open" /\ attached' = attached /\ \E ph : Enter(u, ph)
    BY <1>4, Zenon DEF Start, Registers, RefusedDuplicate, RefusedStream, GivesUp, Reconnects
  <2> QED BY <1>1, <2>1 DEF Listening, Enter
<1>5. ASSUME NEW u \in Physical, Opens(u)
      PROVE  \A v \in Physical : attached'[v] # NoGen => phase'[v] = "open"
  <2>1. Enter(u, "open") /\ \E g \in Gens : attached' = [attached EXCEPT ![u] = g]
    BY <1>5, Zenon DEF Opens
  <2> QED BY <1>1, <2>1 DEF Listening, Enter
<1>6. ASSUME NEW u \in Physical,
             \/ SeesClose(u) \/ LosesStream(u) \/ Stop(u) \/ Killed(u)
             \/ \E p \in Places : Refreshes(u, p)
      PROVE  \A v \in Physical : attached'[v] # NoGen => phase'[v] = "open"
  <2>1. attached' = [attached EXCEPT ![u] = NoGen] /\ \E ph : Enter(u, ph)
    BY <1>6, Zenon DEF SeesClose, LosesStream, Stop, Killed, Refreshes, Detach
  <2> QED BY <1>1, <2>1 DEF Listening, Enter
<1>7. \A v \in Physical : attached'[v] # NoGen => phase'[v] = "open"
  BY <1>3, <1>4, <1>5, <1>6 DEF LinkNext, linkVars, plugin, LateEvents, LateDisconnect, LateLost, Reads, Discards, PeerLeft,
     StreamBreaks, Ticks, LateReady, Finishes, PostsAnswer, AcknowledgementLost, ClientJoins, ClientLeaves,
     Ages, Submits, Expires, Cleans, Fails, Refreshed
<1> QED BY <1>2, <1>7 DEF Listening

\* A handler starts by reading a frame, when the plugin has not seen the request.
LEMMA StartSteps ==
    ASSUME LinkTyped, [LinkNext]_linkVars
    PROVE  \/ runs' = runs
           \/ \E v \in Physical : \E q \in Elements(wire[v]) :
                /\ q \in Requests /\ q \notin Seen(v)
                /\ phase' = phase /\ phase[v] = "open" /\ UNCHANGED vars
                /\ runs' = [runs EXCEPT ![q] = Append(@, v)]
                /\ q \in busy'[v]
<1>1. ASSUME NEW v \in Physical, Reads(v), runs' # runs
      PROVE  \E q \in Elements(wire[v]) :
                /\ q \in Requests /\ q \notin Seen(v)
                /\ phase' = phase /\ phase[v] = "open" /\ UNCHANGED vars
                /\ runs' = [runs EXCEPT ![q] = Append(@, v)]
                /\ q \in busy'[v]
  <2>1. PICK q : q = Head(wire[v])
    OBVIOUS
  <2>2. q \in Requests /\ q \in Elements(wire[v])
    BY <1>1, <2>1, ElementsOfTail DEF Reads, LinkTyped, WireTyped
  <2>3. /\ q \notin Seen(v)
        /\ runs' = [runs EXCEPT ![q] = Append(@, v)]
        /\ busy' = [busy EXCEPT ![v] = @ \cup {q}]
    BY <1>1, <2>1 DEF Reads
  <2>4. q \in busy'[v]
    BY <2>3 DEF LinkTyped, WorkTyped
  <2>5. phase' = phase /\ phase[v] = "open" /\ UNCHANGED vars
    BY <1>1 DEF Reads
  <2> QED BY <2>2, <2>3, <2>4, <2>5
<1> QED
  BY <1>1 DEF LinkNext, linkVars, plugin, Start, Registers, RefusedDuplicate,
     Opens, RefusedStream, GivesUp, Reconnects, SeesClose, LosesStream, Stop, Killed, LateEvents,
     LateDisconnect, LateLost, Discards, PeerLeft, StreamBreaks, Ticks, Refreshes, LateReady, Finishes, PostsAnswer,
     AcknowledgementLost, ClientJoins, ClientLeaves, Ages, Submits, Expires, Cleans, Fails, Refreshed

\* A plugin that runs a request or holds its answer goes on knowing it.
LEMMA HandedIsSeen ==
    ASSUME LinkTyped, [LinkNext]_linkVars, NEW v \in Physical, NEW r \in Handed(v)
    PROVE  r \in Seen(v)' \/ phase'[v] = "gone"
<1>1. CASE UNCHANGED <<busy, answers, terminal>>
  BY <1>1 DEF Handed, Seen, Answering
<1>2. ASSUME NEW u \in Physical, Reads(u)
      PROVE  r \in Handed(v)'
  BY <1>2 DEF Reads, Handed, LinkTyped, WorkTyped
<1>3. ASSUME NEW u \in Physical, NEW q \in Requests, Finishes(u, q)
      PROVE  r \in Handed(v)'
  BY <1>3 DEF Finishes, Handed, LinkTyped, WorkTyped
<1>4. ASSUME NEW u \in Physical, NEW q \in Requests, PostsAnswer(u, q)
      PROVE  r \in Seen(v)'
  <2>1. q \in Answering(u)'
    BY <1>4, RememberAdds DEF PostsAnswer, LinkTyped
  <2>2. busy' = busy /\ answers' = [answers EXCEPT ![u] = @ \ {q}]
    BY <1>4 DEF PostsAnswer
  <2>3. r \in Handed(v)' \/ (v = u /\ r = q)
    BY <2>2 DEF Handed, LinkTyped, WorkTyped
  <2> QED BY <2>1, <2>3 DEF Handed, Seen
<1>5. ASSUME NEW u \in Physical, Killed(u)
      PROVE  r \in Handed(v)' \/ phase'[v] = "gone"
  BY <1>5 DEF Killed, Enter, Handed, LinkTyped, WorkTyped, ConnectionsTyped
<1> QED
  BY <1>1, <1>2, <1>3, <1>4, <1>5 DEF LinkNext, linkVars, plugin, Start, Registers, RefusedDuplicate,
     Opens, RefusedStream, GivesUp, Reconnects, SeesClose, LosesStream, Stop, LateEvents, LateDisconnect,
     LateLost, Discards, PeerLeft, StreamBreaks, Ticks, Refreshes, LateReady, AcknowledgementLost, ClientJoins,
     ClientLeaves, Ages, Submits, Expires, Cleans, Fails, Refreshed, Handed, Seen
-----------------------------------------------------------------------------
(* The invariant. *)

\* Whoever has had a request had it before, or is given it by this step.
LEMMA HadSteps ==
    ASSUME LinkTyped, Typed', [LinkNext]_linkVars, GiveStep, WireStep,
           NEW v \in Physical, NEW r \in Requests, HasHad(v, r)', ~HasHad(v, r)
    PROVE  /\ \E x \in Sessions : Phys[x] = v /\ inst'[x] = target'[r]
           /\ claim'[r] # NoOwner
<1>1. \A g \in Gens : <<v, g>> \in Owners /\ <<v, g>> # NoOwner
  BY BridgeAssumption DEF Owners
<1>2. ASSUME NEW g \in Gens, claim'[r] = <<v, g>>
      PROVE  /\ \E x \in Sessions : Phys[x] = v /\ inst'[x] = target'[r]
             /\ claim'[r] # NoOwner
  <2>1. claim'[r] # NoOwner /\ claim'[r] # claim[r]
    BY <1>1, <1>2 DEF HasHad
  <2>2. PICK x \in Sessions, h \in Gens : inst'[x] = target'[r] /\ claim'[r] = <<Phys[x], h>>
    BY <2>1 DEF GiveStep, Given
  <2>3. Phys[x] = v
    <3>1. <<Phys[x], h>> = <<v, g>>
      BY <1>2, <2>2
    <3> QED BY <3>1
  <2> QED BY <2>1, <2>2, <2>3
<1>3. ASSUME r \in Elements(wire'[v])
      PROVE  \E g \in Gens : claim'[r] = <<v, g>>
  <2>1. arrivals' \in Seq(Requests) /\ stream'[v] \in Gens \cup {NoGen}
    BY DEF Typed, TypeOK
  <2>2. stream'[v] # NoGen /\ r \in Elements(NewFrames(v))
    BY <1>3, <2>1, FrameSteps DEF HasHad
  <2>3. claim'[r] = <<v, stream'[v]>>
    BY <2>1, <2>2, NewFramesAre
  <2> QED BY <2>1, <2>2, <2>3
<1>4. v \notin Elements(runs'[r])
  <2>1. ASSUME NEW u \in Physical, NEW q \in Elements(wire[u]), q \in Requests,
               runs' = [runs EXCEPT ![q] = Append(@, u)], v \in Elements(runs'[r])
        PROVE  FALSE
    <3>1. PICK s : s = runs[q] /\ s \in Seq(Physical)
      BY <2>1 DEF LinkTyped, WorkTyped
    <3>2. Elements(Append(s, u)) = Elements(s) \cup {u}
      BY <3>1, ElementsOfAppend
    <3>3. runs'[r] = IF r = q THEN Append(s, u) ELSE runs[r]
      BY <2>1, <3>1 DEF LinkTyped, WorkTyped
    <3>4. v \notin Elements(runs[r]) /\ r \notin Elements(wire[v])
      BY DEF HasHad
    <3> QED BY <2>1, <3>1, <3>2, <3>3, <3>4
  <2>2. CASE runs' = runs
    BY <2>2 DEF HasHad
  <2>3. ASSUME v \in Elements(runs'[r]), runs' # runs PROVE FALSE
    BY <2>1, <2>3, StartSteps
  <2> QED BY <2>2, <2>3
<1> QED BY <1>2, <1>3, <1>4 DEF HasHad

\* Nobody has had a request that the bridge does not know.
LEMMA HadIsKnown ==
    ASSUME HandInv, Ran, NEW v \in Physical, NEW r \in Requests, HasHad(v, r)
    PROVE  status[r] # "new"
<1>1. ASSUME NEW g \in Gens, claim[r] = <<v, g>>
      PROVE  status[r] # "new"
  <2>1. claim[r] # NoOwner
    <3>1. <<v, g>> \in Owners
      BY DEF Owners
    <3> QED BY <1>1, <3>1, BridgeAssumption
  <2> QED BY <2>1 DEF HandInv, LinkTyped, Inv, NoStrandedClaim, Waiting
<1>2. v \in Elements(runs[r]) => runs[r] # <<>>
  BY ElementsOfNone
<1> QED BY <1>1, <1>2 DEF HasHad, HandInv, Known, Ran

LEMMA TakersKept ==
    ASSUME PromiseInv, [LinkNext]_linkVars, OwnRequestsMove,
           LinkTyped', Carriers', WireStep, GiveStep, QueuedOrSettled, RegistrationStep
    PROVE  OneTaker' /\ Reserved'
<1>1. /\ Typed /\ Typed' /\ OneSessionPerTarget /\ OneSessionPerTarget' /\ NoStrandedClaim'
      /\ LinkTyped /\ HandInv /\ Ran /\ Carriers /\ OneTaker /\ Reserved
  BY DEF PromiseInv, HandInv, LinkTyped, Inv
<1>2. ASSUME NEW r \in Requests, status'[r] = "waiting", NEW v \in Physical, HasHad(v, r)'
      PROVE  Serves(v, r)'
  <2>1. CASE ~HasHad(v, r)
    BY <1>1, <1>2, <2>1, HadSteps DEF Serves
  <2>2. CASE HasHad(v, r)
    <3>1. status[r] # "new"
      BY <1>1, <2>2, HadIsKnown
    <3>2. r \in Waiting
      BY <1>1, <1>2, <3>1, StatusGoesOn DEF Waiting
    <3>3. Serves(v, r) /\ MovesOwn(r)
      BY <1>1, <2>2, <3>2 DEF Reserved, OwnRequestsMove
    <3> QED BY <1>1, <1>2, <3>2, <3>3, ServesKept
  <2> QED BY <2>1, <2>2
<1>3. Reserved'
  BY <1>2 DEF Reserved, Waiting
<1>5. (Typed /\ OneSessionPerTarget /\ Carriers =>
         \A r \in Waiting : \A u, v \in Physical : Serves(u, r) /\ Serves(v, r) => u = v)'
  BY ServesIsUnique, PTL
<1>4. ASSUME NEW r \in Requests, NEW u \in Physical, NEW v \in Physical, HasHad(u, r)', HasHad(v, r)'
      PROVE  u = v
  <2>1. CASE status'[r] = "waiting"
    <3>1. Serves(u, r)' /\ Serves(v, r)' /\ r \in Waiting'
      BY <1>2, <1>4, <2>1 DEF Waiting
    <3> QED BY <1>1, <1>5, <3>1
  <2>2. CASE status'[r] # "waiting"
    <3>1. claim'[r] = NoOwner
      BY <1>1, <2>2 DEF NoStrandedClaim, Waiting
    <3>2. HasHad(u, r) /\ HasHad(v, r)
      BY <1>1, <1>4, <3>1, HadSteps
    <3> QED BY <1>1, <3>2 DEF OneTaker
  <2> QED BY <2>1, <2>2
<1> QED BY <1>3, <1>4 DEF OneTaker

LEMMA RecalledKept ==
    ASSUME PromiseInv, [LinkNext]_linkVars, FramesReadInTime,
           LinkTyped', WireStep, WorkStep, GiveStep, QueuedOrSettled
    PROVE  Recalled'
<1>1. /\ Typed /\ Typed' /\ NoStrandedClaim' /\ LinkTyped /\ HandInv /\ Recalled
      /\ arrivals' \in Seq(Requests)
  BY DEF PromiseInv, HandInv, LinkTyped, Inv, Typed, TypeOK
<1>2. ASSUME NEW v \in Physical, NEW r \in Requests, r \notin Elements(wire[v]), status[r] \in Settled
      PROVE  r \notin Elements(wire'[v]) /\ status'[r] \in Settled
  <2>1. status'[r] \in Settled
    BY <1>1, <1>2, StatusGoesOn
  <2>2. claim'[r] = NoOwner
    BY <1>1, <2>1 DEF NoStrandedClaim, Waiting, Settled
  <2>3. claim[r] = NoOwner
    BY <1>1, <1>2 DEF HandInv, LinkTyped, Inv, NoStrandedClaim, Waiting, Settled
  <2>4. r \notin Elements(NewFrames(v))
    BY <1>1, <2>2, <2>3, NewFramesAre
  <2> QED BY <1>1, <1>2, <2>1, <2>4, FrameSteps
<1>3. ASSUME NEW v \in Physical, NEW r \in Requests, v \in Elements(runs[r])
      PROVE  \/ phase'[v] = "gone"
             \/ r \in Seen(v)'
             \/ r \notin Elements(wire'[v]) /\ status'[r] \in Settled
  <2>1. CASE phase[v] = "gone"
    BY <1>1, <2>1, GoneStays
  <2>2. CASE r \in Handed(v)
    BY <1>1, <2>2, HandedIsSeen
  <2>3. CASE r \in Answering(v) /\ r \in Elements(wire[v])
    BY <2>3 DEF FramesReadInTime, Seen
  <2>4. CASE r \in Answering(v) /\ r \notin Elements(wire[v])
    BY <1>1, <1>2, <2>4 DEF HandInv, Remembered
  <2>5. CASE r \notin Elements(wire[v]) /\ status[r] \in Settled
    BY <1>2, <2>5
  <2> QED BY <1>1, <1>3, <2>1, <2>2, <2>3, <2>4, <2>5 DEF Recalled, Seen, Handed
<1>4. ASSUME NEW v \in Physical, NEW r \in Requests, v \in Elements(runs'[r]), v \notin Elements(runs[r])
      PROVE  r \in Seen(v)'
  <2>1. PICK u \in Physical, q \in Requests : runs' = [runs EXCEPT ![q] = Append(@, u)] /\ q \in busy'[u]
    BY <1>1, <1>4, StartSteps
  <2>2. PICK s : s = runs[q] /\ s \in Seq(Physical)
    BY <1>1 DEF LinkTyped, WorkTyped
  <2>3. Elements(Append(s, u)) = Elements(s) \cup {u}
    BY <2>2, ElementsOfAppend
  <2>4. runs'[r] = IF r = q THEN Append(s, u) ELSE runs[r]
    BY <1>1, <2>1, <2>2 DEF LinkTyped, WorkTyped
  <2>5. r = q /\ v = u
    BY <1>4, <2>2, <2>3, <2>4
  <2> QED BY <2>1, <2>5 DEF Seen
<1> QED BY <1>3, <1>4 DEF Recalled

LEMMA StartedOnceKept ==
    ASSUME PromiseInv, [LinkNext]_linkVars
    PROVE  /\ StartedOnce'
           /\ \A r \in Requests : runs'[r] # runs[r] => runs[r] = <<>> /\ Len(runs'[r]) = 1
<1>1. LinkTyped /\ OneTaker /\ Recalled /\ StartedOnce
  BY DEF PromiseInv, HandInv
<1>2. ASSUME NEW v \in Physical, NEW q \in Elements(wire[v]), q \in Requests, q \notin Seen(v), phase[v] = "open",
             runs' = [runs EXCEPT ![q] = Append(@, v)]
      PROVE  /\ StartedOnce'
             /\ \A r \in Requests : runs'[r] # runs[r] => runs[r] = <<>> /\ Len(runs'[r]) = 1
  <2>1. PICK s : s = runs[q] /\ s \in Seq(Physical)
    BY <1>1, <1>2 DEF LinkTyped, WorkTyped
  <2>2. ASSUME s # <<>>
        PROVE  FALSE
    <3>1. Head(s) \in Elements(s) /\ Head(s) \in Physical
      BY <2>1, <2>2, ElementsOfTail
    <3>2. PICK u \in Physical : u \in Elements(runs[q])
      BY <2>1, <3>1
    <3>3. HasHad(u, q) /\ HasHad(v, q)
      BY <1>2, <3>2 DEF HasHad
    <3>4. u = v
      BY <1>1, <1>2, <3>3 DEF OneTaker
    <3> QED BY <1>1, <1>2, <3>2, <3>4 DEF Recalled
  <2>3. s = <<>>
    BY <2>2
  <2>4. PICK t : t = Append(s, v)
    OBVIOUS
  <2>5. Len(t) = 1
    BY <2>1, <2>3, <2>4
  <2>6. \A r \in Requests : runs'[r] = IF r = q THEN t ELSE runs[r]
    BY <1>1, <1>2, <2>1, <2>4 DEF LinkTyped, WorkTyped
  <2>7. \A r \in Requests : runs'[r] # runs[r] => runs[r] = <<>> /\ Len(runs'[r]) = 1
    BY <2>1, <2>3, <2>5, <2>6
  <2>8. ASSUME NEW r \in Requests
        PROVE  Len(runs'[r]) <= 1
    <3>1. CASE r = q
      <4>1. runs'[r] = t
        BY <2>6, <3>1
      <4> QED BY <2>5, <4>1
    <3>2. CASE r # q
      <4>1. runs'[r] = runs[r]
        BY <2>6, <3>2
      <4> QED BY <1>1, <4>1 DEF StartedOnce
    <3> QED BY <3>1, <3>2
  <2> QED BY <2>7, <2>8 DEF StartedOnce
<1>3. CASE runs' = runs
  BY <1>1, <1>3 DEF StartedOnce
<1> QED BY <1>1, <1>2, <1>3, StartSteps
LEMMA PromiseInvInit == LinkInit => PromiseInv
<1> SUFFICES ASSUME LinkInit PROVE PromiseInv
  OBVIOUS
<1>1. HandInv /\ Ran
  BY HandInvInit, RanInit
<1>2. (\A v \in Physical : Elements(wire[v]) = {}) /\ (\A r \in Requests : Elements(runs[r]) = {} /\ runs[r] = <<>>)
  BY ElementsOfNone DEF LinkInit
<1>3. \A r \in Requests : claim[r] = NoOwner /\ r \notin Waiting
  BY DEF LinkInit, Init, Waiting
<1>4. \A v \in Physical : \A g \in Gens : <<v, g>> # NoOwner
  BY BridgeAssumption DEF Owners
<1>5. \A v \in Physical : \A r \in Requests : ~HasHad(v, r)
  BY <1>2, <1>3, <1>4 DEF HasHad
<1>6. OneTaker /\ Reserved /\ Recalled
  <2>1. OneTaker
    BY <1>5 DEF OneTaker
  <2>2. Waiting = {}
    BY <1>3 DEF Waiting
  <2>3. Recalled
    BY <1>2 DEF Recalled
  <2> QED BY <2>1, <2>2, <2>3 DEF Reserved
<1>7. Carriers
  BY DEF LinkInit, Init, Carriers, Registered
<1>8. Listening
  BY <1>2 DEF LinkInit, Listening
<1>9. StartedOnce
  <2>1. Len(<<>>) <= 1
    OBVIOUS
  <2> QED BY <1>2, <2>1 DEF StartedOnce
<1> QED BY <1>1, <1>6, <1>7, <1>8, <1>9 DEF PromiseInv

LEMMA PromiseInvKept ==
    PromiseInv /\ [LinkNext]_linkVars /\ OwnRequestsMove /\ FramesReadInTime => PromiseInv'
<1> SUFFICES ASSUME PromiseInv, [LinkNext]_linkVars, OwnRequestsMove, FramesReadInTime
             PROVE  PromiseInv'
  OBVIOUS
<1>1. HandInv /\ LinkTyped /\ Typed /\ Ran /\ Carriers /\ Listening
  BY DEF PromiseInv, HandInv, LinkTyped, Inv
<1>2. HandInv' /\ Ran' /\ LinkTyped' /\ Typed'
  BY <1>1, HandInvKept, RanKept DEF HandInv, LinkTyped, Inv
<1>3. [Next]_vars
  BY <1>1, BridgeSteps DEF LinkTyped, ConnectionsTyped
<1>4. QueuedOrSettled /\ GiveStep /\ RegistrationStep
  BY <1>1, <1>3, StatusSteps, GiveSteps, RegistrationSteps
<1>5. WireStep /\ WorkStep
  BY <1>1, WireSteps, WorkSteps
<1>6. Carriers'
  BY <1>1, <1>2, <1>4, CarriersKept
<1>7. Listening'
  BY <1>1, <1>2, <1>5, ListeningKept
<1>8. OneTaker' /\ Reserved'
  BY <1>2, <1>4, <1>5, <1>6, TakersKept
<1>9. Recalled'
  BY <1>2, <1>4, <1>5, RecalledKept
<1>10. StartedOnce'
  BY StartedOnceKept
<1> QED BY <1>2, <1>6, <1>7, <1>8, <1>9, <1>10 DEF PromiseInv

-----------------------------------------------------------------------------
(* Every step of the link is a step of the promise, or none of its. *)

LEMMA PromiseInits == LinkInit => Promise!Init
BY DEF LinkInit, Init, Promise!Init, CallerState, StartCount

LEMMA PromiseSteps ==
    ASSUME PromiseInv, [LinkNext]_linkVars
    PROVE  [Promise!Next]_<<CallerState, StartCount>>
<1>1. LinkTyped /\ Typed /\ HandInv /\ Ran /\ StartedOnce
  BY DEF PromiseInv, HandInv, LinkTyped, Inv
<1>2. QueuedOrSettled
  BY <1>1, BridgeSteps, StatusSteps DEF LinkTyped, ConnectionsTyped
<1>3. \A r \in Requests :
        /\ status[r] \in {"new", "waiting"} \cup Settled
        /\ CallerState[r] = IF status[r] \in {"new", "waiting", "answered"} THEN status[r] ELSE "failed"
        /\ CallerState'[r] = IF status'[r] \in {"new", "waiting", "answered"} THEN status'[r] ELSE "failed"
        /\ StartCount[r] = Len(runs[r]) /\ StartCount'[r] = Len(runs'[r])
  BY <1>1 DEF CallerState, StartCount, Typed, TypeOK
<1>4. /\ CallerState = [r \in Requests |-> CallerState[r]] /\ CallerState' = [r \in Requests |-> CallerState'[r]]
      /\ StartCount = [r \in Requests |-> StartCount[r]] /\ StartCount' = [r \in Requests |-> StartCount'[r]]
  BY DEF CallerState, StartCount
<1> HIDE DEF CallerState, StartCount
<1>5. ASSUME NEW v \in Physical, NEW q \in Elements(wire[v]), q \in Requests, status' = status,
             runs' = [runs EXCEPT ![q] = Append(@, v)]
      PROVE  Promise!Start(q) \/ UNCHANGED <<CallerState, StartCount>>
  <2>1. CallerState' = CallerState
    BY <1>3, <1>4, <1>5
  <2>2. CallerState[q] # "new"
    BY <1>1, <1>3, <1>5 DEF HandInv, Known
  <2>3. \A r \in Requests : runs'[r] # runs[r] => r = q /\ runs[r] = <<>> /\ Len(runs'[r]) = 1
    BY <1>1, <1>5, StartedOnceKept DEF LinkTyped, WorkTyped
  <2>4. CASE runs'[q] = runs[q]
    BY <1>3, <1>4, <2>1, <2>3, <2>4
  <2>5. CASE runs'[q] # runs[q]
    <3>1. StartCount[q] = 0 /\ StartCount'[q] = 1
      BY <1>3, <1>5, <2>3, <2>5
    <3>2. \A r \in Requests : r # q => StartCount'[r] = StartCount[r]
      BY <1>3, <2>3
    <3>3. StartCount' = [StartCount EXCEPT ![q] = 1]
      BY <1>4, <3>1, <3>2
    <3> QED BY <2>1, <2>2, <3>1, <3>3 DEF Promise!Start
  <2> QED BY <2>4, <2>5
<1>6. CASE runs' = runs
  <2>1. StartCount' = StartCount
    BY <1>3, <1>4, <1>6
  <2>2. ASSUME NEW q \in Requests, status[q] = "new", status'[q] = "waiting",
               \A r \in Requests \ {q} : status'[r] = status[r]
        PROVE  Promise!Submit(q)
    <3>1. CallerState[q] = "new" /\ CallerState'[q] = "waiting"
      BY <1>3, <2>2
    <3>2. \A r \in Requests : r # q => CallerState'[r] = CallerState[r]
      BY <1>3, <2>2
    <3>3. CallerState' = [CallerState EXCEPT ![q] = "waiting"]
      BY <1>4, <3>1, <3>2
    <3> QED BY <2>1, <3>1, <3>3 DEF Promise!Submit
  <2>3. ASSUME NoneAnswered,
               \A r \in Requests : status'[r] = status[r] \/ (status[r] = "waiting" /\ status'[r] \in Settled)
        PROVE  \E R \in SUBSET Requests : Promise!Fail(R)
    <3>1. PICK R : R = {r \in Requests : status'[r] # status[r]}
      OBVIOUS
    <3>2. \A r \in R : CallerState[r] = "waiting" /\ CallerState'[r] = "failed"
      BY <1>3, <2>3, <3>1 DEF NoneAnswered, Settled
    <3>3. \A r \in Requests : r \notin R => CallerState'[r] = CallerState[r]
      BY <1>3, <3>1
    <3>4. CallerState' = [r \in Requests |-> IF r \in R THEN "failed" ELSE CallerState[r]]
      BY <1>4, <3>2, <3>3
    <3> QED BY <2>1, <3>1, <3>2, <3>4 DEF Promise!Fail
  <2>4. ASSUME NEW v \in Physical, NEW q \in answers[v], q \in Requests, Delivered(q)
        PROVE  Promise!Answer(q) \/ UNCHANGED <<CallerState, StartCount>>
    <3>1. CASE status' = status
      BY <1>3, <1>4, <2>1, <3>1
    <3>2. CASE q \in Waiting /\ Respond(q)
      <4>1. status[q] = "waiting" /\ status'[q] = "answered" /\ \A r \in Requests : r # q => status'[r] = status[r]
        BY <3>2 DEF Waiting, Respond, Settle, Finish
      <4>2. CallerState[q] = "waiting" /\ CallerState'[q] = "answered"
        BY <1>3, <2>4, <4>1
      <4>3. \A r \in Requests : r # q => CallerState'[r] = CallerState[r]
        BY <1>3, <4>1
      <4>4. CallerState' = [CallerState EXCEPT ![q] = "answered"]
        BY <1>4, <4>2, <4>3
      <4>5. runs[q] # <<>> /\ runs[q] \in Seq(Physical) /\ Len(runs[q]) <= 1
        BY <1>1, <2>4 DEF Ran, Handed, StartedOnce, LinkTyped, WorkTyped
      <4>6. StartCount[q] = 1
        <5>1. PICK s \in Seq(Physical) : s = runs[q]
          BY <4>5
        <5>2. s # <<>> /\ Len(s) <= 1
          BY <4>5, <5>1
        <5>3. Len(s) \in Nat /\ Len(s) # 0
          BY <5>1, <5>2
        <5>4. Len(s) = 1
          BY <5>2, <5>3
        <5> QED BY <1>3, <2>4, <5>1, <5>4
      <4> QED BY <2>1, <4>2, <4>4, <4>6 DEF Promise!Answer
    <3> QED BY <2>4, <3>1, <3>2 DEF Delivered, vars
  <2>5. CASE NoneAnswered
    BY <1>2, <2>2, <2>3, <2>5 DEF QueuedOrSettled, Promise!Next
  <2> QED BY <1>1, <2>4, <2>5, AnswersAreDelivered DEF Promise!Next
<1> QED BY <1>1, <1>5, <1>6, StartSteps DEF Promise!Next, vars

\* The link implements the promise (dispatchRequest, settleRequest): a handler
\* starts at most once, and a caller gets the answer of the handler that ran, so
\* long as a place change moves no request into the hands of a second VM and a
\* frame is read before its request is forgotten.
THEOREM LinkKeepsPromise ==
    LinkSpec /\ [][OwnRequestsMove]_linkVars /\ [][FramesReadInTime]_linkVars => PromiseKept
<1>1. LinkInit => PromiseInv /\ Promise!Init
  BY PromiseInvInit, PromiseInits
<1>2. PromiseInv /\ [LinkNext]_linkVars /\ [OwnRequestsMove]_linkVars /\ [FramesReadInTime]_linkVars
        => PromiseInv' /\ [Promise!Next]_<<CallerState, StartCount>>
  <2> SUFFICES ASSUME PromiseInv, [LinkNext]_linkVars,
                      [OwnRequestsMove]_linkVars, [FramesReadInTime]_linkVars
               PROVE  PromiseInv' /\ [Promise!Next]_<<CallerState, StartCount>>
    OBVIOUS
  <2>1. UNCHANGED linkVars => OwnRequestsMove /\ FramesReadInTime
    BY DEF linkVars, vars, plugin, OwnRequestsMove, MovesOwn, FramesReadInTime, Answering
  <2> QED BY <2>1, PromiseInvKept, PromiseSteps
<1> QED BY <1>1, <1>2, PTL DEF LinkSpec, PromiseKept, Promise!Spec

\* Under the same presumptions no handler starts twice, for whichever VM.
THEOREM HandlersStartOnce ==
    LinkSpec /\ [][OwnRequestsMove]_linkVars /\ [][FramesReadInTime]_linkVars => []StartedOnce
<1>1. PromiseInv /\ [LinkNext]_linkVars /\ [OwnRequestsMove]_linkVars /\ [FramesReadInTime]_linkVars
        => PromiseInv'
  <2>1. UNCHANGED linkVars => OwnRequestsMove /\ FramesReadInTime
    BY DEF linkVars, vars, plugin, OwnRequestsMove, MovesOwn, FramesReadInTime, Answering
  <2> QED BY <2>1, PromiseInvKept
<1>2. PromiseInv => StartedOnce
  BY DEF PromiseInv
<1> QED BY PromiseInvInit, <1>1, <1>2, PTL DEF LinkSpec
-----------------------------------------------------------------------------
(* Where the presumptions hold: one edit VM and one play server at most, and as *)
(* many requests as a plugin remembers.                                        *)

OnceEach(s) == \A i, j \in DOMAIN s : s[i] = s[j] => i = j

\* A plugin remembers an answered request once, and works on it no more.
RememberedOnce ==
    \A v \in Physical : OnceEach(terminal[v]) /\ Answering(v) \cap (busy[v] \cup answers[v]) = {}

LEMMA OnceEachFits ==
    ASSUME NEW s \in Seq(Requests), OnceEach(s), IsFiniteSet(Requests)
    PROVE  Len(s) <= Cardinality(Requests)
<1>1. Len(s) \in Nat /\ DOMAIN s = 1..Len(s) /\ s \in [1..Len(s) -> Requests]
  OBVIOUS
<1>2. s \in Injection(1..Len(s), Requests)
  BY <1>1 DEF OnceEach, Injection, IsInjective
<1>3. Cardinality(1..Len(s)) <= Cardinality(Requests)
  BY <1>2, FS_Injection
<1>4. Cardinality(1..Len(s)) = Len(s)
  BY <1>1, FS_Interval
<1> QED BY <1>3, <1>4

LEMMA OnceEachAppend ==
    ASSUME NEW s \in Seq(Requests), OnceEach(s), NEW r \in Requests, r \notin Elements(s)
    PROVE  OnceEach(Append(s, r))
<1>1. /\ Len(s) \in Nat /\ DOMAIN s = 1..Len(s)
      /\ DOMAIN Append(s, r) = 1..(Len(s) + 1)
      /\ \A i \in 1..(Len(s) + 1) : Append(s, r)[i] = IF i \in 1..Len(s) THEN s[i] ELSE r
  OBVIOUS
<1>2. \A i \in 1..(Len(s) + 1) : i \in 1..Len(s) \/ i = Len(s) + 1
  BY <1>1
<1>3. \A i \in 1..Len(s) : s[i] # r
  BY <1>1 DEF Elements
<1>4. Len(s) + 1 \notin 1..Len(s)
  BY <1>1
<1> QED BY <1>1, <1>2, <1>3, <1>4 DEF OnceEach

\* Under these bounds nothing is forgotten: no plugin has more to remember.
LEMMA NothingForgotten ==
    ASSUME LinkTyped, RememberedOnce, [LinkNext]_linkVars,
           IsFiniteSet(Requests), Cardinality(Requests) <= MaxTerminal
    PROVE  /\ RememberedOnce'
           /\ \A v \in Physical : Answering(v) \subseteq Answering(v)' \/ phase'[v] = "gone"
<1> DEFINE Goal == /\ RememberedOnce'
                   /\ \A v \in Physical : Answering(v) \subseteq Answering(v)' \/ phase'[v] = "gone"
<1>1. WorkTyped /\ ConnectionsTyped
  BY DEF LinkTyped
<1>2. CASE UNCHANGED <<busy, answers, terminal>>
  BY <1>2 DEF RememberedOnce, Answering
<1>3. ASSUME NEW v \in Physical, Reads(v)
      PROVE  Goal
  <2>1. PICK q : q = Head(wire[v])
    OBVIOUS
  <2>2. terminal' = terminal /\ answers' = answers
    BY <1>3 DEF Reads
  <2>3. \A u \in Physical : Answering(u)' = Answering(u)
    BY <2>2 DEF Answering
  <2>4. \A u \in Physical : busy'[u] = busy[u] \/ (u = v /\ busy'[u] = busy[u] \cup {q} /\ q \notin Seen(v))
    BY <1>1, <1>3, <2>1 DEF Reads, WorkTyped
  <2> QED BY <2>2, <2>3, <2>4 DEF RememberedOnce, Seen
<1>4. ASSUME NEW v \in Physical, NEW r \in Requests, Finishes(v, r)
      PROVE  Goal
  <2>1. terminal' = terminal
    BY <1>4 DEF Finishes
  <2>2. \A u \in Physical : Answering(u)' = Answering(u)
    BY <2>1 DEF Answering
  <2>3. \A u \in Physical : busy'[u] \cup answers'[u] = busy[u] \cup answers[u]
    BY <1>1, <1>4 DEF Finishes, WorkTyped
  <2> QED BY <2>1, <2>2, <2>3 DEF RememberedOnce
<1>5. ASSUME NEW v \in Physical, NEW r \in Requests, PostsAnswer(v, r)
      PROVE  Goal
  <2>1. PICK s, longer : s = terminal[v] /\ longer = Append(s, r)
    OBVIOUS
  <2>2. s \in Seq(Requests) /\ OnceEach(s) /\ Elements(s) = Answering(v)
    BY <1>1, <2>1 DEF WorkTyped, RememberedOnce, Elements, Answering
  <2>3. r \in answers[v] /\ r \notin Elements(s)
    BY <1>5, <2>2 DEF PostsAnswer, RememberedOnce
  <2>4. longer \in Seq(Requests) /\ Elements(longer) = Elements(s) \cup {r} /\ OnceEach(longer)
    BY <2>1, <2>2, <2>3, ElementsOfAppend, OnceEachAppend
  <2>5. Len(longer) <= MaxTerminal
    <3>1. Len(longer) <= Cardinality(Requests)
      BY <2>4, OnceEachFits
    <3>2. Cardinality(Requests) \in Nat /\ Len(longer) \in Nat
      BY <2>4, FS_CardinalityType
    <3> QED BY <3>1, <3>2, LinkAssumption
  <2>6. ~(Len(longer) > MaxTerminal)
    BY <2>4, <2>5, LinkAssumption
  <2>7. terminal' = [terminal EXCEPT ![v] = longer]
    BY <1>5, <2>1, <2>6 DEF PostsAnswer, Remember
  <2>8. /\ terminal'[v] = longer
        /\ \A u \in Physical : u # v => terminal'[u] = terminal[u]
    BY <1>1, <2>7 DEF WorkTyped
  <2>9. /\ Answering(v)' = Answering(v) \cup {r}
        /\ \A u \in Physical : u # v => Answering(u)' = Answering(u)
    BY <2>2, <2>4, <2>8 DEF Answering, Elements
  <2>10. /\ busy' = busy /\ answers'[v] = answers[v] \ {r}
         /\ \A u \in Physical : u # v => answers'[u] = answers[u]
    BY <1>1, <1>5 DEF PostsAnswer, WorkTyped
  <2>11. r \notin busy[v]
    BY <1>1, <2>3 DEF WorkTyped
  <2>12. RememberedOnce'
    BY <2>4, <2>8, <2>9, <2>10, <2>11 DEF RememberedOnce
  <2> QED BY <2>9, <2>12
<1>6. ASSUME NEW v \in Physical, Killed(v)
      PROVE  Goal
  <2>1. phase'[v] = "gone"
    BY <1>1, <1>6 DEF Killed, Enter, ConnectionsTyped
  <2>2. /\ busy'[v] = {} /\ answers'[v] = {} /\ terminal'[v] = <<>>
        /\ \A u \in Physical : u # v => busy'[u] = busy[u] /\ answers'[u] = answers[u] /\ terminal'[u] = terminal[u]
    BY <1>1, <1>6 DEF Killed, WorkTyped
  <2>3. \A u \in Physical : u # v => Answering(u)' = Answering(u)
    BY <2>2 DEF Answering
  <2>4. OnceEach(<<>>)
    BY DEF OnceEach
  <2>5. RememberedOnce'
    BY <2>2, <2>3, <2>4 DEF RememberedOnce
  <2> QED BY <2>1, <2>3, <2>5
<1> QED
  BY <1>2, <1>3, <1>4, <1>5, <1>6 DEF LinkNext, linkVars, plugin, Start, Registers, RefusedDuplicate,
     Opens, RefusedStream, GivesUp, Reconnects, SeesClose, LosesStream, Stop, LateEvents, LateDisconnect,
     LateLost, Discards, PeerLeft, StreamBreaks, Ticks, Refreshes, LateReady, AcknowledgementLost, ClientJoins,
     ClientLeaves, Ages, Submits, Expires, Cleans, Fails, Refreshed

\* One Studio window and one play server keep the promise, whatever breaks, for
\* as many requests as the plugin remembers (MAX_TERMINAL_RESPONSES).
THEOREM LoneWindowKeepsPromise ==
    ASSUME Alone("edit"), Alone("server"), IsFiniteSet(Requests), Cardinality(Requests) <= MaxTerminal
    PROVE  LinkSpec => PromiseKept
<1>1. LinkInit => LinkTyped /\ RememberedOnce
  BY LinkTypedInit DEF LinkInit, RememberedOnce, OnceEach, Answering
<1>2. LinkTyped /\ RememberedOnce /\ [LinkNext]_linkVars => LinkTyped' /\ RememberedOnce'
  BY LinkTypedKept, NothingForgotten
<1>3. LinkTyped /\ RememberedOnce /\ [LinkNext]_linkVars => [OwnRequestsMove]_linkVars /\ [FramesReadInTime]_linkVars
  <2> SUFFICES ASSUME LinkTyped, RememberedOnce, [LinkNext]_linkVars
               PROVE  OwnRequestsMove /\ FramesReadInTime
    OBVIOUS
  <2>1. FramesReadInTime
    BY NothingForgotten DEF FramesReadInTime
  <2>2. ASSUME NEW r \in Waiting
        PROVE  Alone(target[r].kind)
    <3>1. target[r] \in Targets
      BY DEF LinkTyped, Inv, Typed, TypeOK, WaitingAddressed, Waiting
    <3>2. target[r].kind \in {"edit", "server", "client"}
      BY <3>1 DEF Targets
    <3> QED BY <3>2 DEF Alone, CarrierKind
  <2> QED BY <2>1, <2>2 DEF OwnRequestsMove, MovesOwn
<1> QED BY <1>1, <1>2, <1>3, LinkKeepsPromise, PTL DEF LinkSpec
=============================================================================
