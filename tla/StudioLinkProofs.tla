-------------------------- MODULE StudioLinkProofs --------------------------
(***************************************************************************)
(* Proofs about StudioLink, for any number of plugins, requests, streams   *)
(* and failures.                                                           *)
(***************************************************************************)
EXTENDS StudioLink, StudioBridgeProofs, FiniteSetTheorems

-----------------------------------------------------------------------------
(* Sequences of requests. *)

Elements(s) == {s[i] : i \in DOMAIN s}

LEMMA ElementsOfAppend ==
    ASSUME NEW S, NEW s \in Seq(S), NEW x \in S
    PROVE  Append(s, x) \in Seq(S) /\ Elements(Append(s, x)) = Elements(s) \cup {x}
<1>1. /\ Append(s, x) \in Seq(S) /\ DOMAIN Append(s, x) = 1..(Len(s) + 1) /\ DOMAIN s = 1..Len(s)
      /\ Len(s) \in Nat
  OBVIOUS
<1>2. \A i \in 1..(Len(s) + 1) : Append(s, x)[i] = IF i \in 1..Len(s) THEN s[i] ELSE x
  OBVIOUS
<1>3. 1..Len(s) \subseteq 1..(Len(s) + 1) /\ Len(s) + 1 \in 1..(Len(s) + 1) /\ Len(s) + 1 \notin 1..Len(s)
  BY <1>1
<1> QED BY <1>1, <1>2, <1>3 DEF Elements

LEMMA ElementsOfConcatenation ==
    ASSUME NEW S, NEW s \in Seq(S), NEW t \in Seq(S)
    PROVE  s \o t \in Seq(S) /\ Elements(s \o t) = Elements(s) \cup Elements(t)
<1>1. /\ s \o t \in Seq(S) /\ DOMAIN (s \o t) = 1..(Len(s) + Len(t))
      /\ DOMAIN s = 1..Len(s) /\ DOMAIN t = 1..Len(t) /\ Len(s) \in Nat /\ Len(t) \in Nat
  OBVIOUS
<1>2. \A i \in 1..Len(s) : i \in 1..(Len(s) + Len(t)) /\ (s \o t)[i] = s[i]
  BY <1>1
<1>3. \A i \in 1..Len(t) : i + Len(s) \in 1..(Len(s) + Len(t)) /\ (s \o t)[i + Len(s)] = t[i]
  BY <1>1
<1>4. \A i \in 1..(Len(s) + Len(t)) :
        (s \o t)[i] \in Elements(s) \cup Elements(t)
  BY <1>1 DEF Elements
<1>5. Elements(s \o t) \subseteq Elements(s) \cup Elements(t)
  BY <1>1, <1>4 DEF Elements
<1>6. Elements(s) \subseteq Elements(s \o t)
  BY <1>1, <1>2 DEF Elements
<1>7. Elements(t) \subseteq Elements(s \o t)
  BY <1>1, <1>3 DEF Elements
<1> QED BY <1>1, <1>5, <1>6, <1>7

LEMMA ElementsOfTail ==
    ASSUME NEW S, NEW s \in Seq(S), s # <<>>
    PROVE  /\ Head(s) \in S /\ Tail(s) \in Seq(S)
           /\ Elements(s) = Elements(Tail(s)) \cup {Head(s)}
<1>1. /\ Tail(s) \in Seq(S) /\ DOMAIN Tail(s) = 1..(Len(s) - 1) /\ DOMAIN s = 1..Len(s)
      /\ Len(s) \in Nat /\ Len(s) >= 1 /\ Head(s) = s[1] /\ Head(s) \in S
  OBVIOUS
<1>2. \A i \in 1..(Len(s) - 1) : Tail(s)[i] = s[i + 1] /\ i + 1 \in 1..Len(s)
  BY <1>1
<1>3. Elements(Tail(s)) \cup {Head(s)} \subseteq Elements(s)
  BY <1>1, <1>2 DEF Elements
<1>4. ASSUME NEW i \in 1..Len(s), i # 1
      PROVE  s[i] \in Elements(Tail(s))
  <2>1. i - 1 \in 1..(Len(s) - 1) /\ (i - 1) + 1 = i
    BY <1>1, <1>4
  <2>2. Tail(s)[i - 1] = s[i]
    BY <1>2, <2>1
  <2> QED BY <1>1, <2>1, <2>2 DEF Elements
<1>5. Elements(s) \subseteq Elements(Tail(s)) \cup {Head(s)}
  BY <1>1, <1>4 DEF Elements
<1> QED BY <1>1, <1>3, <1>5

LEMMA ElementsOfNone == Elements(<<>>) = {}
BY DEF Elements

\* A set of positions is counted through in ascending order.
LEMMA PositionsCounted ==
    ASSUME NEW len \in Nat, NEW P \in SUBSET (1..len)
    PROVE  LET upTo(i) == Cardinality({j \in P : j <= i})
           IN /\ Cardinality(P) \in Nat
              /\ \A n \in 1..Cardinality(P) : \E i \in P : upTo(i) = n
              /\ \A i \in P : upTo(i) \in 1..Cardinality(P) /\ \A j \in P : upTo(j) = upTo(i) => j = i
<1> DEFINE below(i) == {j \in P : j <= i}
           upTo == [i \in P |-> Cardinality(below(i))]
<1>1. IsFiniteSet(P) /\ Cardinality(P) \in Nat
  <2>1. IsFiniteSet(1..len)
    BY FS_Interval
  <2> QED BY <2>1, FS_Subset, FS_CardinalityType
<1>2. \A i \in P : IsFiniteSet(below(i)) /\ Cardinality(below(i)) \in Nat
                   /\ Cardinality(below(i)) <= Cardinality(P)
  <2> TAKE i \in P
  <2>1. below(i) \in SUBSET P
    OBVIOUS
  <2> HIDE DEF below
  <2> QED BY <1>1, <2>1, FS_Subset, FS_CardinalityType
<1>3. \A i \in P : Cardinality(below(i)) # 0
  <2> TAKE i \in P
  <2>1. i \in below(i)
    OBVIOUS
  <2> HIDE DEF below
  <2> QED BY <1>2, <2>1, FS_EmptySet
<1>4. ASSUME NEW i \in P, NEW j \in P, i < j
      PROVE  Cardinality(below(i)) # Cardinality(below(j))
  <2>1. i \in Int /\ j \in Int /\ \A k \in P : k \in Int
    OBVIOUS
  <2>2. \A k \in P : k <= i => k <= j
    BY <1>4, <2>1
  <2>3. j <= j /\ ~(j <= i)
    BY <1>4, <2>1
  <2>4. below(i) \in SUBSET below(j) /\ j \in below(j) /\ j \notin below(i)
    BY <2>2, <2>3
  <2> HIDE DEF below
  <2> QED BY <1>2, <2>4, FS_Subset
<1>5. \A i, j \in P : Cardinality(below(i)) = Cardinality(below(j)) => i = j
  <2> TAKE i, j \in P
  <2>1. i < j \/ j < i \/ i = j
    OBVIOUS
  <2> HIDE DEF below
  <2> QED BY <1>4, <2>1
<1>6. upTo \in Injection(P, 1..Cardinality(P))
  <2> HIDE DEF below
  <2>1. upTo \in [P -> 1..Cardinality(P)]
    BY <1>1, <1>2, <1>3
  <2> QED BY <1>5, <2>1 DEF Injection, IsInjective
<1>7. Cardinality(1..Cardinality(P)) = Cardinality(P) /\ IsFiniteSet(1..Cardinality(P))
  BY <1>1, FS_Interval
<1>8. upTo \in Surjection(P, 1..Cardinality(P))
  <2> HIDE DEF upTo
  <2> QED BY <1>6, <1>7, FS_Injection
<1>9. \A n \in 1..Cardinality(P) : \E i \in P : Cardinality(below(i)) = n
  <2> HIDE DEF below
  <2> QED BY <1>8 DEF Surjection
<1> QED BY <1>1, <1>2, <1>3, <1>5, <1>9

\* Frames are the requests the step claims for the stream, each of them.
LEMMA NewFramesAre ==
    ASSUME NEW v, arrivals' \in Seq(Requests)
    PROVE  /\ NewFrames(v) \in Seq(Requests)
           /\ \A r : r \in Elements(NewFrames(v)) <=>
                r \in Elements(arrivals') /\ claim'[r] = <<v, stream'[v]>> /\ claim[r] # claim'[r]
<1> DEFINE new == {i \in DOMAIN arrivals' :
                     LET r == arrivals'[i] IN claim'[r] = <<v, stream'[v]>> /\ claim[r] # claim'[r]}
           upTo(i) == Cardinality({j \in new : j <= i})
           at(n) == CHOOSE i \in new : upTo(i) = n
<1>1. DOMAIN arrivals' = 1..Len(arrivals') /\ Len(arrivals') \in Nat
  OBVIOUS
<1>2. PICK P \in SUBSET (1..Len(arrivals')) : P = new
  BY <1>1
<1>3. /\ Cardinality(new) \in Nat
      /\ \A n \in 1..Cardinality(new) : \E i \in new : upTo(i) = n
      /\ \A i \in new : upTo(i) \in 1..Cardinality(new) /\ \A j \in new : upTo(j) = upTo(i) => j = i
  <2> HIDE DEF new
  <2> QED BY <1>1, <1>2, PositionsCounted
<1>4. NewFrames(v) = [n \in 1..Cardinality(new) |-> arrivals'[at(n)]]
  BY DEF NewFrames
<1>5. \A n \in 1..Cardinality(new) : at(n) \in new
  <2> HIDE DEF new, upTo
  <2> QED BY <1>3
<1>6. \A i \in new : at(upTo(i)) = i
  <2> HIDE DEF new, upTo
  <2> QED BY <1>3
<1>7. \A i \in new : arrivals'[i] \in Requests
  BY <1>1
<1>8. NewFrames(v) \in Seq(Requests)
  <2> HIDE DEF new, at
  <2> QED BY <1>3, <1>4, <1>5, <1>7
<1>9. Elements(NewFrames(v)) = {arrivals'[i] : i \in new}
  <2> HIDE DEF new, at, upTo
  <2> QED BY <1>3, <1>4, <1>5, <1>6 DEF Elements
<1>10. \A r : r \in {arrivals'[i] : i \in new} <=>
              r \in Elements(arrivals') /\ claim'[r] = <<v, stream'[v]>> /\ claim[r] # claim'[r]
  BY DEF Elements
<1> QED BY <1>8, <1>9, <1>10

-----------------------------------------------------------------------------
(* The bridge under its plugins. *)

\* Requests are queued once and settled once.
QueuedOrSettled ==
    \/ /\ arrivals' = arrivals
       /\ \A r \in Requests :
            status'[r] = status[r] \/ (status[r] = "waiting" /\ status'[r] \in Settled)
    \/ \E q \in Requests :
         /\ arrivals' = Append(arrivals, q) /\ status[q] = "new" /\ status'[q] = "waiting"
         /\ \A r \in Requests \ {q} : status'[r] = status[r]

LEMMA FinishSettles ==
    ASSUME Typed, NEW R, R \subseteq Waiting, NEW how \in Settled, Finish(R, how), arrivals' = arrivals
    PROVE  QueuedOrSettled
BY DEF Finish, Waiting, QueuedOrSettled

LEMMA UnregisterSettles ==
    ASSUME Typed, NEW S, Unregister(S)
    PROVE  QueuedOrSettled
<1>1. PICK R : R = Unhandled(Without(WithClients(S))) /\ Finish(R, "disconnected") /\ arrivals' = arrivals
  BY Zenon DEF Unregister
<1>2. R \subseteq Waiting /\ "disconnected" \in Settled
  BY <1>1 DEF Unhandled, Settled
<1> QED BY <1>1, <1>2, FinishSettles

LEMMA StatusSteps ==
    ASSUME Typed, [Next]_vars
    PROVE  QueuedOrSettled
<1>1. ASSUME UNCHANGED <<arrivals, status>>
      PROVE  QueuedOrSettled
  BY <1>1 DEF QueuedOrSettled
<1>2. ASSUME NEW x \in Sessions, NEW p \in Places, NEW ask \in 0..MaxClients, Ready(x, p, ask)
      PROVE  QueuedOrSettled
  <2>1. PICK tuple : Register(x, tuple)
    BY <1>2, Zenon DEF Ready
  <2>2. PICK R : /\ R = IF Holders(x, tuple) = {} THEN {} ELSE Unhandled(Without(WithClients(Holders(x, tuple))))
                 /\ Finish(R, "disconnected") /\ arrivals' = arrivals
    BY <2>1, Zenon DEF Register
  <2>3. R \subseteq Waiting /\ "disconnected" \in Settled
    BY <2>2 DEF Unhandled, Settled
  <2> QED BY <2>2, <2>3, FinishSettles
<1>3. ASSUME NEW r \in Requests, NEW tuple \in Targets, SendRequest(r, tuple)
      PROVE  QueuedOrSettled
  BY <1>3 DEF SendRequest, QueuedOrSettled, Typed, TypeOK
<1>4. ASSUME NEW r \in Requests, NEW how \in Settled, Settle(r, how)
      PROVE  QueuedOrSettled
  BY <1>4, FinishSettles DEF Settle
<1>5. ASSUME NEW r \in Requests, Respond(r) \/ TimeOut(r)
      PROVE  QueuedOrSettled
  BY <1>4, <1>5 DEF Respond, TimeOut, Settled
<1>6. CASE Restart
  <2>1. "closed" \in Settled /\ Finish(Waiting, "closed") /\ arrivals' = arrivals
    BY <1>6 DEF Restart, Settled
  <2> QED BY <2>1, FinishSettles
<1>7. ASSUME NEW x \in Sessions, Disconnect(x) \/ Age(x)
      PROVE  QueuedOrSettled
  BY <1>1, <1>7, UnregisterSettles DEF Disconnect, Age, queue
<1>8. ASSUME NEW p \in Places, UnregisterPlace(p)
      PROVE  QueuedOrSettled
  BY <1>8, UnregisterSettles DEF UnregisterPlace
<1>9. CASE CleanupStale
  BY <1>9, UnregisterSettles DEF CleanupStale
<1>10. ASSUME NEW s \in Physical, NEW g \in Gens, OpenStream(s, g)
       PROVE  QueuedOrSettled
  <2>1. UNCHANGED <<arrivals, status>>
    BY <1>10, Zenon DEF OpenStream
  <2> QED BY <1>1, <2>1
<1>11. ASSUME NEW s \in Physical, CloseStream(s) \/ Drain(s) \/ Heartbeat(s) \/ RefreshStatus
       PROVE  QueuedOrSettled
  <2>1. UNCHANGED <<arrivals, status>>
    BY <1>11, Zenon DEF CloseStream, Drain, Heartbeat, RefreshStatus
  <2> QED BY <1>1, <2>1
<1>12. CASE RefreshStatus
  <2>1. UNCHANGED <<arrivals, status>>
    BY <1>12, Zenon DEF RefreshStatus
  <2> QED BY <1>1, <2>1
<1>13. CASE UNCHANGED vars
  BY <1>1, <1>13 DEF vars
<1> QED
  BY <1>2, <1>3, <1>5, <1>6, <1>7, <1>8, <1>9, <1>10, <1>11, <1>12, <1>13 DEF Next

\* Every step of the link is a step of the bridge, or none of its.
LEMMA BridgeSteps ==
    ASSUME place \in [Physical -> Places], [LinkNext]_linkVars
    PROVE  [Next]_vars
<1>1. 0 \in 0..MaxClients
  BY BridgeAssumption
<1>2. \A v \in Physical : v \in Sessions /\ place[v] \in Places
  BY DEF Physical
<1>3. \A x \in Sessions : Phys[x] \in Physical
  BY SessionAssumption DEF Physical
<1>4. ASSUME NEW v \in Physical, Registers(v) \/ Opens(v) \/ LateEvents(v) \/ LateDisconnect(v) \/ PeerLeft(v)
                                 \/ StreamBreaks(v) \/ Ticks(v)
      PROVE  Next
  BY <1>1, <1>2, <1>4 DEF Registers, Opens, LateEvents, LateDisconnect, PeerLeft, StreamBreaks, Ticks, Next
<1>5. ASSUME NEW v \in Physical, NEW p \in Places, LateReady(v, p)
      PROVE  Next
  BY <1>1, <1>2, <1>5 DEF LateReady, Next
<1>6. ASSUME NEW v \in Physical, NEW r \in Requests, PostsAnswer(v, r) \/ AcknowledgementLost(v, r)
      PROVE  [Next]_vars
  BY <1>6 DEF PostsAnswer, AcknowledgementLost, Delivered, Next
<1>7. ASSUME NEW x \in Sessions, ClientJoins(x) \/ ClientLeaves(x) \/ Ages(x)
      PROVE  Next
  BY <1>2, <1>3, <1>7 DEF ClientJoins, ClientLeaves, Ages, Next
<1>8. ASSUME NEW r \in Requests, Submits(r) \/ Expires(r)
      PROVE  Next
  BY <1>8 DEF Submits, Expires, Next
<1>9. CASE Cleans \/ Fails \/ Refreshed
  BY <1>9 DEF Cleans, Fails, Refreshed, Next
<1> QED
  BY <1>4, <1>5, <1>6, <1>7, <1>8, <1>9 DEF LinkNext, linkVars, Start, RefusedDuplicate, RefusedStream,
     GivesUp, Reconnects, SeesClose, LosesStream, Stop, Killed, LateLost, Reads, Discards, Refreshes, Finishes

-----------------------------------------------------------------------------
(* Types. *)

ConnectionsTyped ==
    /\ place \in [Physical -> Places]
    /\ phase \in [Physical -> {"off", "ready", "dial", "open", "backoff", "gone"}]
    /\ attached \in [Physical -> Gens \cup {NoGen}]
    /\ late \in [Physical -> SUBSET LateCalls]
    /\ faults \in 0..MaxFaults

WorkTyped ==
    /\ busy \in [Physical -> SUBSET Requests]
    /\ answers \in [Physical -> SUBSET Requests]
    /\ terminal \in [Physical -> Seq(Requests)]
    /\ runs \in [Requests -> Seq(Physical)]
    /\ \A v \in Physical : Len(terminal[v]) <= MaxTerminal /\ busy[v] \cap answers[v] = {}

WireTyped == wire \in [Physical -> Seq(Requests)]
DiscardsTyped == discarded \in [Physical -> SUBSET Requests]

\* With what is known of the bridge.
LinkTyped == Inv /\ ConnectionsTyped /\ WorkTyped /\ WireTyped /\ DiscardsTyped

LEMMA ConnectionsKept == LinkTyped /\ [LinkNext]_linkVars => ConnectionsTyped'
<1> SUFFICES ASSUME LinkTyped, [LinkNext]_linkVars PROVE ConnectionsTyped'
  OBVIOUS
<1> USE LinkAssumption DEF LinkTyped, ConnectionsTyped, Fault, Enter, Outstanding, Abandoned
<1>1. CASE UNCHANGED <<place, phase, attached, late>> /\ (faults' = faults \/ Fault)
  BY <1>1
<1>2. ASSUME NEW v \in Physical,
             \/ Start(v) \/ Registers(v) \/ RefusedDuplicate(v) \/ Opens(v) \/ RefusedStream(v)
             \/ Reconnects(v) \/ SeesClose(v)
      PROVE  ConnectionsTyped'
  BY <1>2 DEF Start, Registers, RefusedDuplicate, Opens, RefusedStream, Reconnects, SeesClose
<1>3. ASSUME NEW v \in Physical, GivesUp(v) \/ LosesStream(v) \/ Killed(v)
      PROVE  ConnectionsTyped'
  BY <1>3 DEF GivesUp, LosesStream, Killed, Detach
<1>4. ASSUME NEW v \in Physical, Stop(v)
      PROVE  ConnectionsTyped'
  <2>1. [route |-> "disconnect"] \in LateCalls
    BY DEF LateCalls
  <2> QED BY <1>4, <2>1 DEF Stop, Detach
<1>5. ASSUME NEW v \in Physical, NEW p \in Places, Refreshes(v, p)
      PROVE  ConnectionsTyped'
  BY <1>5 DEF Refreshes, Detach
<1>6. ASSUME NEW v \in Physical, NEW call, Arrived(v, call), UNCHANGED <<place, phase, attached, faults>>
      PROVE  ConnectionsTyped'
  BY <1>6 DEF Arrived
<1>7. ASSUME NEW v \in Physical, NEW p \in Places,
             LateReady(v, p) \/ LateEvents(v) \/ LateDisconnect(v) \/ LateLost(v)
      PROVE  ConnectionsTyped'
  BY <1>6, <1>7 DEF LateReady, LateEvents, LateDisconnect, LateLost
<1>8. ASSUME NEW v \in Physical, LateEvents(v) \/ LateDisconnect(v) \/ LateLost(v)
      PROVE  ConnectionsTyped'
  BY <1>6, <1>8 DEF LateEvents, LateDisconnect, LateLost
<1>9. ASSUME NEW v \in Physical, NEW r \in Requests,
             Finishes(v, r) \/ PostsAnswer(v, r) \/ AcknowledgementLost(v, r)
      PROVE  ConnectionsTyped'
  BY <1>1, <1>9 DEF Finishes, PostsAnswer, AcknowledgementLost, plugin
<1>10. ASSUME NEW v \in Physical, Reads(v) \/ Discards(v) \/ PeerLeft(v) \/ StreamBreaks(v) \/ Ticks(v)
       PROVE  ConnectionsTyped'
  BY <1>1, <1>10 DEF Reads, Discards, PeerLeft, StreamBreaks, Ticks, plugin
<1>11. ASSUME NEW x \in Sessions, ClientJoins(x) \/ ClientLeaves(x) \/ Ages(x)
       PROVE  ConnectionsTyped'
  BY <1>1, <1>11 DEF ClientJoins, ClientLeaves, Ages, plugin
<1>12. ASSUME NEW r \in Requests, Submits(r) \/ Expires(r)
       PROVE  ConnectionsTyped'
  BY <1>1, <1>12 DEF Submits, Expires, plugin
<1>13. CASE Cleans \/ Fails \/ Refreshed \/ UNCHANGED linkVars
  BY <1>1, <1>13 DEF Cleans, Fails, Refreshed, linkVars, plugin
<1> QED
  BY <1>2, <1>3, <1>4, <1>5, <1>7, <1>8, <1>9, <1>10, <1>11, <1>12, <1>13 DEF LinkNext

LEMMA WorkKept == LinkTyped /\ [LinkNext]_linkVars => WorkTyped'
<1> SUFFICES ASSUME LinkTyped, [LinkNext]_linkVars PROVE WorkTyped'
  OBVIOUS
<1> USE LinkAssumption DEF LinkTyped, WorkTyped
<1>1. CASE UNCHANGED <<busy, answers, terminal, runs>>
  BY <1>1
<1>2. ASSUME NEW v \in Physical, Reads(v)
      PROVE  WorkTyped'
  <2>1. Head(wire[v]) \in Requests
    BY <1>2, ElementsOfTail DEF Reads, WireTyped
  <2> QED BY <1>2, <2>1 DEF Reads, Seen
<1>3. ASSUME NEW v \in Physical, NEW r \in Requests, Finishes(v, r)
      PROVE  WorkTyped'
  BY <1>3 DEF Finishes
<1>4. ASSUME NEW v \in Physical, NEW r \in Requests, PostsAnswer(v, r)
      PROVE  WorkTyped'
  <2>1. PICK longer : longer = Append(terminal[v], r)
    OBVIOUS
  <2>2. /\ longer \in Seq(Requests) /\ Len(longer) = Len(terminal[v]) + 1
        /\ Len(terminal[v]) \in Nat /\ Len(terminal[v]) <= MaxTerminal
    BY <2>1
  <2>3. Len(longer) > MaxTerminal => Tail(longer) \in Seq(Requests) /\ Len(Tail(longer)) <= MaxTerminal
    BY <2>2
  <2>4. PICK s : s = IF Len(longer) > MaxTerminal THEN Tail(longer) ELSE longer
    OBVIOUS
  <2>5. s \in Seq(Requests) /\ Len(s) <= MaxTerminal
    BY <2>2, <2>3, <2>4
  <2>6. terminal' = [terminal EXCEPT ![v] = s]
    BY <1>4, <2>1, <2>4 DEF PostsAnswer, Remember
  <2> QED BY <1>4, <2>5, <2>6 DEF PostsAnswer
<1>5. ASSUME NEW v \in Physical, Killed(v)
      PROVE  WorkTyped'
  <2>1. <<>> \in Seq(Requests) /\ Len(<<>>) = 0
    OBVIOUS
  <2> QED BY <1>5, <2>1 DEF Killed
<1> QED
  BY <1>1, <1>2, <1>3, <1>4, <1>5 DEF LinkNext, linkVars, plugin, Start, Registers, RefusedDuplicate,
     Opens, RefusedStream, GivesUp, Reconnects, SeesClose, LosesStream, Stop, LateEvents, LateDisconnect,
     LateLost, Discards, PeerLeft, StreamBreaks, Ticks, Refreshes, LateReady, AcknowledgementLost, ClientJoins,
     ClientLeaves, Ages, Submits, Expires, Cleans, Fails, Refreshed
-----------------------------------------------------------------------------
(* The wire. *)

\* g is no stream, or no request is claimed by the stream g of v.
Unused(v, g) == g = NoGen \/ \A r \in Requests : claim[r] # <<v, g>>

\* What a step that carries frames leaves of the frames that were not read: all
\* of them, or none when the plugin turns to a new stream or to no stream.
Leaves(unread) ==
    /\ unread \in [Physical -> Seq(Requests)]
    /\ \A v \in Physical : unread[v] = wire[v] \/ (unread[v] = <<>> /\ Unused(v, attached'[v]))

\* The claims a step keeps are the claims there were.
ClaimsOnlyGo == \A r \in Requests : claim'[r] = claim[r] \/ claim'[r] = NoOwner

\* What a step may do to the streams the plugins listen to and to their frames.
WireStep ==
    /\ \A v \in Physical :
         \/ attached'[v] = attached[v]
         \/ Unused(v, attached'[v]) /\ (attached'[v] = NoGen => wire'[v] = <<>>)
    /\ \/ \E unread : Leaves(unread) /\ Carry(unread)
       \/ wire' = wire /\ ClaimsOnlyGo
       \/ \E v \in Physical : Reads(v) \/ Discards(v)

LEMMA WireSteps == LinkTyped /\ [LinkNext]_linkVars => WireStep
<1> SUFFICES ASSUME LinkTyped, [LinkNext]_linkVars PROVE WireStep
  OBVIOUS
<1>1. /\ wire \in [Physical -> Seq(Requests)] /\ attached \in [Physical -> Gens \cup {NoGen}]
      /\ <<>> \in Seq(Requests)
  BY DEF LinkTyped, ConnectionsTyped, WireTyped
<1>2. ASSUME attached' = attached, Carry(wire)
      PROVE  WireStep
  <2>1. Leaves(wire)
    BY <1>1, Zenon DEF Leaves
  <2> QED BY <1>2, <2>1 DEF WireStep
<1>3. ASSUME attached' = attached, wire' = wire, UNCHANGED vars
      PROVE  WireStep
  BY <1>3 DEF WireStep, ClaimsOnlyGo, vars
<1>4. ASSUME NEW v \in Physical, Detach(v)
      PROVE  WireStep
  <2>1. Unused(v, NoGen)
    BY DEF Unused
  <2>2. PICK unread : unread = [wire EXCEPT ![v] = <<>>] /\ Carry(unread)
    BY <1>4, Zenon DEF Detach
  <2>3. attached'[v] = NoGen /\ \A u \in Physical : u # v => attached'[u] = attached[u]
    BY <1>1, <1>4 DEF Detach
  <2>4. Leaves(unread)
    <3>1. unread \in [Physical -> Seq(Requests)]
      BY <1>1, <2>2
    <3>2. unread[v] = <<>> /\ \A u \in Physical : u # v => unread[u] = wire[u]
      BY <1>1, <2>2
    <3> QED BY <2>1, <2>3, <3>1, <3>2, Zenon DEF Leaves
  <2>5. wire'[v] = <<>>
    BY <1>1, <2>2, <2>3 DEF Carry
  <2> QED BY <2>1, <2>2, <2>3, <2>4, <2>5 DEF WireStep
<1>5. ASSUME NEW v \in Physical, Opens(v)
      PROVE  WireStep
  <2>1. PICK g \in Gens \ {attached[v]} : OpenStream(v, g) /\ attached' = [attached EXCEPT ![v] = g]
    BY <1>5 DEF Opens
  <2>2. Unused(v, g)
    BY <2>1, Zenon DEF OpenStream, Unused
  <2>3. attached'[v] = g /\ \A u \in Physical : u # v => attached'[u] = attached[u]
    BY <1>1, <2>1
  <2>4. PICK unread : unread = [wire EXCEPT ![v] = <<>>] /\ Carry(unread)
    BY <1>5, Zenon DEF Opens
  <2>5. Leaves(unread)
    <3>1. unread \in [Physical -> Seq(Requests)]
      BY <1>1, <2>4
    <3>2. unread[v] = <<>> /\ \A u \in Physical : u # v => unread[u] = wire[u]
      BY <1>1, <2>4
    <3> QED BY <2>2, <2>3, <3>1, <3>2, Zenon DEF Leaves
  <2>6. g # NoGen
    BY BridgeAssumption
  <2> QED BY <2>2, <2>3, <2>4, <2>5, <2>6 DEF WireStep
<1>6. ASSUME NEW v \in Physical, SeesClose(v)
      PROVE  WireStep
  <2>1. Unused(v, NoGen)
    BY DEF Unused
  <2>2. attached'[v] = NoGen /\ \A u \in Physical : u # v => attached'[u] = attached[u]
    BY <1>1, <1>6 DEF SeesClose
  <2>3. wire' = wire /\ wire[v] = <<>> /\ claim' = claim
    BY <1>6 DEF SeesClose, vars
  <2> QED BY <2>1, <2>2, <2>3 DEF WireStep, ClaimsOnlyGo
<1>7. ASSUME NEW r \in Requests, Expires(r)
      PROVE  WireStep
  BY <1>7 DEF Expires, TimeOut, Settle, Unclaim, WireStep, ClaimsOnlyGo, plugin
<1>8. ASSUME NEW x \in Sessions, Ages(x)
      PROVE  WireStep
  BY <1>8 DEF Ages, Age, queue, WireStep, ClaimsOnlyGo, plugin
<1>9. ASSUME NEW v \in Physical,
             \/ Start(v) \/ RefusedDuplicate(v) \/ RefusedStream(v) \/ GivesUp(v) \/ Reconnects(v)
             \/ LateLost(v) \/ \E r \in Requests : Finishes(v, r)
      PROVE  WireStep
  BY <1>3, <1>9 DEF Start, RefusedDuplicate, RefusedStream, GivesUp, Reconnects, LateLost, Finishes
<1>10. ASSUME NEW v \in Physical,
             \/ Registers(v) \/ LateEvents(v) \/ LateDisconnect(v) \/ PeerLeft(v) \/ StreamBreaks(v) \/ Ticks(v)
             \/ \E p \in Places : LateReady(v, p)
             \/ \E r \in Requests : PostsAnswer(v, r) \/ AcknowledgementLost(v, r)
      PROVE  WireStep
  BY <1>2, <1>10 DEF Registers, LateEvents, LateDisconnect, LateReady, PeerLeft, StreamBreaks, Ticks,
     PostsAnswer, AcknowledgementLost, plugin
<1>11. ASSUME NEW v \in Physical,
              LosesStream(v) \/ Stop(v) \/ Killed(v) \/ \E p \in Places : Refreshes(v, p)
      PROVE  WireStep
  BY <1>4, <1>11 DEF LosesStream, Refreshes, Stop, Killed
<1>12. ASSUME NEW v \in Physical, Reads(v) \/ Discards(v)
       PROVE  WireStep
  BY <1>12 DEF WireStep, Reads, Discards
<1>13. ASSUME \/ \E x \in Sessions : ClientJoins(x) \/ ClientLeaves(x)
              \/ \E r \in Requests : Submits(r)
              \/ Cleans \/ Fails \/ Refreshed
      PROVE  WireStep
  BY <1>2, <1>13 DEF ClientJoins, ClientLeaves, Submits, Cleans, Fails, Refreshed, plugin
<1>14. CASE UNCHANGED linkVars
  BY <1>3, <1>14 DEF linkVars, plugin
<1> QED
  BY <1>5, <1>6, <1>7, <1>8, <1>9, <1>10, <1>11, <1>12, <1>13, <1>14 DEF LinkNext
\* What is on the wire once a step has carried its frames.
LEMMA CarryEffect ==
    ASSUME NEW unread \in [Physical -> Seq(Requests)], Carry(unread), arrivals' \in Seq(Requests)
    PROVE  /\ WireTyped'
           /\ \A v \in Physical :
                /\ Elements(unread[v]) \subseteq Elements(wire'[v])
                /\ \A r \in Elements(wire'[v]) :
                     r \in Elements(unread[v]) \/ (attached'[v] = stream'[v] /\ r \in Elements(NewFrames(v)))
                /\ attached'[v] = NoGen => wire'[v] = unread[v]
                /\ attached'[v] # NoGen /\ attached'[v] = stream'[v] =>
                     Elements(NewFrames(v)) \subseteq Elements(wire'[v])
<1>1. wire' = [v \in Physical |->
                 IF attached'[v] # NoGen /\ attached'[v] = stream'[v]
                   THEN unread[v] \o NewFrames(v) ELSE unread[v]]
  BY DEF Carry
<1>2. ASSUME NEW v \in Physical
      PROVE  /\ unread[v] \in Seq(Requests) /\ NewFrames(v) \in Seq(Requests)
             /\ unread[v] \o NewFrames(v) \in Seq(Requests)
             /\ Elements(unread[v] \o NewFrames(v)) = Elements(unread[v]) \cup Elements(NewFrames(v))
  <2>1. PICK s, t : s = unread[v] /\ t = NewFrames(v)
    OBVIOUS
  <2>2. s \in Seq(Requests) /\ t \in Seq(Requests)
    BY <2>1, NewFramesAre
  <2> QED BY <2>1, <2>2, ElementsOfConcatenation
<1>3. WireTyped'
  BY <1>1, <1>2, Zenon DEF WireTyped
<1>4. \A v \in Physical :
        wire'[v] = IF attached'[v] # NoGen /\ attached'[v] = stream'[v]
                     THEN unread[v] \o NewFrames(v) ELSE unread[v]
  BY <1>1, Zenon
<1> QED BY <1>2, <1>3, <1>4

\* Frames on a wire were there, or are written for the open stream of the plugin.
LEMMA FrameSteps ==
    ASSUME LinkTyped, arrivals' \in Seq(Requests), WireStep
    PROVE  \A v \in Physical : \A r \in Elements(wire'[v]) :
             \/ r \in Elements(wire[v])
             \/ attached'[v] # NoGen /\ attached'[v] = stream'[v] /\ r \in Elements(NewFrames(v))
<1>1. ASSUME NEW unread, Leaves(unread), Carry(unread), NEW v \in Physical, NEW r \in Elements(wire'[v])
      PROVE  \/ r \in Elements(wire[v])
             \/ attached'[v] # NoGen /\ attached'[v] = stream'[v] /\ r \in Elements(NewFrames(v))
  <2>1. Elements(unread[v]) \subseteq Elements(wire[v])
    BY <1>1, ElementsOfNone DEF Leaves
  <2>2. /\ r \in Elements(unread[v]) \/ (attached'[v] = stream'[v] /\ r \in Elements(NewFrames(v)))
        /\ attached'[v] = NoGen => wire'[v] = unread[v]
    BY <1>1, CarryEffect DEF Leaves
  <2> QED BY <2>1, <2>2
<1>2. ASSUME NEW v \in Physical, Reads(v) \/ Discards(v)
      PROVE  \A u \in Physical : Elements(wire'[u]) \subseteq Elements(wire[u])
  <2>1. PICK s : s = wire[v]
    OBVIOUS
  <2>2. s \in Seq(Requests) /\ s # <<>> /\ wire' = [wire EXCEPT ![v] = Tail(s)]
    BY <1>2, <2>1 DEF LinkTyped, WireTyped, Reads, Discards
  <2>3. Elements(Tail(s)) \subseteq Elements(s)
    BY <2>2, ElementsOfTail
  <2>4. \A u \in Physical : u # v => wire'[u] = wire[u]
    BY <2>2 DEF LinkTyped, WireTyped
  <2>5. wire'[v] = Tail(s)
    BY <2>2 DEF LinkTyped, WireTyped
  <2> QED BY <2>1, <2>3, <2>4, <2>5
<1>3. CASE wire' = wire
  BY <1>3
<1> QED BY <1>1, <1>2, <1>3 DEF WireStep

LEMMA WireKept == LinkTyped /\ [LinkNext]_linkVars => WireTyped'
<1> SUFFICES ASSUME LinkTyped, [LinkNext]_linkVars PROVE WireTyped'
  OBVIOUS
<1>1. [Next]_vars
  BY BridgeSteps DEF LinkTyped, ConnectionsTyped
<1>2. arrivals' \in Seq(Requests)
  BY <1>1, NextTyped DEF LinkTyped, Inv, Typed, TypeOK
<1>3. ASSUME NEW v \in Physical, Reads(v) \/ Discards(v)
      PROVE  WireTyped'
  <2>1. PICK s : s = wire[v]
    OBVIOUS
  <2>2. s \in Seq(Requests) /\ s # <<>> /\ wire' = [wire EXCEPT ![v] = Tail(s)]
    BY <1>3, <2>1 DEF LinkTyped, WireTyped, Reads, Discards
  <2>3. Tail(s) \in Seq(Requests)
    BY <2>2, ElementsOfTail
  <2> QED BY <2>2, <2>3 DEF LinkTyped, WireTyped
<1>4. ASSUME NEW unread, Leaves(unread), Carry(unread)
      PROVE  WireTyped'
  BY <1>2, <1>4, CarryEffect DEF Leaves
<1>5. WireStep
  BY WireSteps
<1>6. CASE wire' = wire
  BY <1>6 DEF LinkTyped, WireTyped
<1> QED BY <1>3, <1>4, <1>5, <1>6 DEF WireStep

\* A plugin that goes on listening to its stream goes on having thrown away
\* what it threw away of it.
DiscardStep ==
    \A v \in Physical : attached[v] # NoGen /\ attached'[v] = attached[v] => discarded[v] \subseteq discarded'[v]

LEMMA DiscardSteps == LinkTyped /\ [LinkNext]_linkVars => DiscardsTyped' /\ DiscardStep
<1> SUFFICES ASSUME LinkTyped, [LinkNext]_linkVars PROVE DiscardsTyped' /\ DiscardStep
  OBVIOUS
<1>1. attached \in [Physical -> Gens \cup {NoGen}] /\ discarded \in [Physical -> SUBSET Requests]
  BY DEF LinkTyped, ConnectionsTyped, DiscardsTyped
<1>2. CASE UNCHANGED discarded
  BY <1>1, <1>2 DEF DiscardsTyped, DiscardStep
<1>3. ASSUME NEW v \in Physical,
             SeesClose(v) \/ LosesStream(v) \/ Stop(v) \/ Killed(v) \/ \E p \in Places : Refreshes(v, p)
      PROVE  DiscardsTyped' /\ DiscardStep
  <2>1. /\ attached' = [attached EXCEPT ![v] = NoGen]
        /\ discarded' = [discarded EXCEPT ![v] = {}]
    BY <1>3, Zenon DEF SeesClose, LosesStream, Stop, Killed, Refreshes, Detach
  <2> QED BY <1>1, <2>1 DEF DiscardsTyped, DiscardStep
<1>4. ASSUME NEW v \in Physical, Discards(v)
      PROVE  DiscardsTyped' /\ DiscardStep
  <2>1. Head(wire[v]) \in Requests
    BY <1>4, ElementsOfTail DEF Discards, LinkTyped, WireTyped
  <2> QED BY <1>1, <1>4, <2>1 DEF Discards, DiscardsTyped, DiscardStep
<1> QED
  BY <1>2, <1>3, <1>4 DEF LinkNext, linkVars, plugin, Start, Registers, RefusedDuplicate, Opens,
     RefusedStream, GivesUp, Reconnects, LateEvents, LateDisconnect, LateLost, Reads, PeerLeft,
     StreamBreaks, Ticks, LateReady, Finishes, PostsAnswer, AcknowledgementLost, ClientJoins,
     ClientLeaves, Ages, Submits, Expires, Cleans, Fails, Refreshed

LEMMA LinkTypedInit == LinkInit => LinkTyped
<1> SUFFICES ASSUME LinkInit PROVE LinkTyped
  OBVIOUS
<1>1. Inv
  BY InitSafe DEF LinkInit
<1>2. ConnectionsTyped
  BY LinkAssumption DEF LinkInit, ConnectionsTyped
<1>3. <<>> \in Seq(Requests) /\ <<>> \in Seq(Physical) /\ Len(<<>>) = 0
  OBVIOUS
<1>4. WorkTyped /\ WireTyped /\ DiscardsTyped
  BY <1>3, LinkAssumption DEF LinkInit, WorkTyped, WireTyped, DiscardsTyped
<1> QED BY <1>1, <1>2, <1>4 DEF LinkTyped

LEMMA LinkTypedKept == LinkTyped /\ [LinkNext]_linkVars => LinkTyped'
<1> SUFFICES ASSUME LinkTyped, [LinkNext]_linkVars PROVE LinkTyped'
  OBVIOUS
<1>1. [Next]_vars
  BY BridgeSteps DEF LinkTyped, ConnectionsTyped
<1>2. Inv'
  BY <1>1, NextSafe DEF LinkTyped
<1> QED BY <1>2, ConnectionsKept, WorkKept, WireKept, DiscardSteps DEF LinkTyped

LEMMA LinkTypedHolds == LinkSpec => []LinkTyped
BY LinkTypedInit, LinkTypedKept, PTL DEF LinkSpec

\* Every variable of the plugins keeps its type, a plugin remembers no more than
\* MaxTerminal answered requests, and none of those it runs has an answer to
\* post already (StudioEventStream: rememberTerminal, dispatchRequest).
THEOREM LinkTypes == LinkSpec => []LinkTypeOK
<1>1. LinkTyped => LinkTypeOK
  BY Zenon DEF LinkTyped, ConnectionsTyped, WorkTyped, WireTyped, DiscardsTyped, LinkTypeOK
<1> QED BY <1>1, LinkTypedHolds, PTL

\* The bridge keeps its own invariants under its plugins, which call it in
\* orders of their own.
THEOREM LinkKeepsBridge ==
    LinkSpec => [](OneSessionPerTarget /\ OwnersMatchStreams /\ NoStrandedClaim /\ CarriedByRegistered)
<1>1. LinkTyped => OneSessionPerTarget /\ OwnersMatchStreams /\ NoStrandedClaim /\ CarriedByRegistered
  BY DEF LinkTyped, Inv
<1> QED BY <1>1, LinkTypedHolds, PTL

\* The link implements the bridge it is composed of: what the plugins do with it
\* is something its clients may do, whatever the order.
THEOREM LinkImplementsBridge == LinkSpec => Spec
<1>1. LinkInit => Init
  BY DEF LinkInit
<1>2. LinkTyped /\ [LinkNext]_linkVars => [Next]_vars
  BY BridgeSteps DEF LinkTyped, ConnectionsTyped
<1> QED BY <1>1, <1>2, LinkTypedHolds, PTL DEF LinkSpec, Spec

\* So no plugin waits for a heartbeat beside a request it could be sent, but for
\* one that a place change moved onto another session's tuple.
THEOREM LinkOverlooksNothing == LinkSpec => NoLostWakeup
BY LinkImplementsBridge, NothingIsOverlooked, PTL

-----------------------------------------------------------------------------
(* From the claim to the answer. *)

Handed(v) == busy[v] \cup answers[v]

\* What a step may do to the requests a plugin works on: it takes them from its
\* wire, gives them up only when they are settled or the VM is destroyed, and
\* remembers as answered only what is settled.
WorkStep ==
    \A v \in Physical :
      /\ Handed(v)' \subseteq Handed(v) \cup Elements(wire[v])
      /\ \A r \in Handed(v) :
           \/ r \in Handed(v)'
           \/ status'[r] # "waiting"
           \/ phase'[v] = "gone" /\ attached'[v] = NoGen
      /\ \A r \in answers[v] :
           r \in answers'[v] \/ status'[r] # "waiting" \/ phase'[v] = "gone"
      /\ \A r \in Answering(v)' : r \in Answering(v) \/ (r \in answers[v] /\ status'[r] # "waiting")
      /\ \A r \in answers'[v] : r \in Handed(v)

LEMMA RememberAdds ==
    ASSUME WorkTyped, NEW v \in Physical, NEW r \in Requests, Remember(v, r)
    PROVE  /\ Answering(v)' \subseteq Answering(v) \cup {r} /\ r \in Answering(v)'
           /\ \A u \in Physical : u # v => Answering(u)' = Answering(u)
<1>1. PICK s, longer : s = terminal[v] /\ longer = Append(s, r)
  OBVIOUS
<1>2. s \in Seq(Requests)
  BY <1>1 DEF WorkTyped
<1>3. /\ longer \in Seq(Requests) /\ Elements(longer) = Elements(s) \cup {r} /\ longer # <<>>
  BY <1>1, <1>2, ElementsOfAppend
<1>4. Elements(Tail(longer)) \subseteq Elements(longer)
  BY <1>3, ElementsOfTail
<1>5. PICK new : new = IF Len(longer) > MaxTerminal THEN Tail(longer) ELSE longer
  OBVIOUS
<1>6. terminal' = [terminal EXCEPT ![v] = new]
  BY <1>1, <1>5 DEF Remember
<1>7. terminal'[v] = new /\ \A u \in Physical : u # v => terminal'[u] = terminal[u]
  BY <1>6 DEF WorkTyped
<1>8. Elements(new) \subseteq Elements(s) \cup {r} /\ r \in Elements(new)
  <2>1. Len(longer) = Len(s) + 1 /\ Len(s) \in Nat /\ longer[Len(longer)] = r
    BY <1>1, <1>2
  <2>2. ASSUME Len(longer) > MaxTerminal
        PROVE  r \in Elements(Tail(longer))
    <3>1. Len(longer) - 1 \in 1..(Len(longer) - 1)
      BY <2>1, <2>2, LinkAssumption
    <3>2. DOMAIN Tail(longer) = 1..(Len(longer) - 1) /\ Tail(longer)[Len(longer) - 1] = r
      BY <1>3, <2>1, <3>1
    <3> QED BY <3>1, <3>2 DEF Elements
  <2> QED BY <1>3, <1>4, <1>5, <2>2
<1>9. Answering(v) = Elements(s) /\ Answering(v)' = Elements(new)
  BY <1>1, <1>7 DEF Answering, Elements
<1> QED BY <1>7, <1>8, <1>9 DEF Answering

LEMMA DeliveredSettles ==
    ASSUME Typed, NEW r \in Requests, Delivered(r)
    PROVE  status'[r] # "waiting"
BY DEF Delivered, Respond, Settle, Finish, Waiting, Typed, TypeOK, vars

LEMMA WorkSteps == LinkTyped /\ [LinkNext]_linkVars => WorkStep
<1> SUFFICES ASSUME LinkTyped, [LinkNext]_linkVars PROVE WorkStep
  OBVIOUS
<1>1. WorkTyped /\ ConnectionsTyped /\ Typed
  BY DEF LinkTyped, Inv
<1>2. CASE UNCHANGED <<busy, answers, terminal>>
  BY <1>2 DEF WorkStep, Handed, Answering
<1>3. ASSUME NEW v \in Physical, Reads(v)
      PROVE  WorkStep
  <2>1. Head(wire[v]) \in Elements(wire[v])
    BY <1>3, ElementsOfTail DEF Reads, LinkTyped, WireTyped
  <2>2. \A u \in Physical : busy[u] \subseteq busy'[u] /\ busy'[u] \subseteq busy[u] \cup Elements(wire[u])
    BY <1>1, <1>3, <2>1 DEF Reads, WorkTyped
  <2>3. answers' = answers /\ terminal' = terminal
    BY <1>3 DEF Reads
  <2> QED BY <2>2, <2>3 DEF WorkStep, Handed, Answering
<1>4. ASSUME NEW v \in Physical, NEW r \in Requests, Finishes(v, r)
      PROVE  WorkStep
  <2>1. \A u \in Physical : answers[u] \subseteq answers'[u] /\ answers'[u] \subseteq Handed(u)
                            /\ Handed(u)' = Handed(u)
    BY <1>1, <1>4 DEF Finishes, WorkTyped, Handed
  <2>2. terminal' = terminal
    BY <1>4 DEF Finishes
  <2> QED BY <2>1, <2>2 DEF WorkStep, Answering, Handed
<1>5. ASSUME NEW v \in Physical, NEW r \in Requests, PostsAnswer(v, r)
      PROVE  WorkStep
  <2>1. status'[r] # "waiting" /\ r \in answers[v]
    BY <1>1, <1>5, DeliveredSettles DEF PostsAnswer
  <2>2. \A u \in Physical : busy'[u] = busy[u] /\ answers'[u] \subseteq answers[u]
                            /\ answers[u] \subseteq answers'[u] \cup {r}
    BY <1>1, <1>5 DEF PostsAnswer, WorkTyped
  <2>3. /\ Answering(v)' \subseteq Answering(v) \cup {r}
        /\ \A u \in Physical : u # v => Answering(u)' = Answering(u)
    BY <1>1, <1>5, RememberAdds DEF PostsAnswer
  <2> QED BY <2>1, <2>2, <2>3 DEF WorkStep, Handed
<1>6. ASSUME NEW v \in Physical, Killed(v)
      PROVE  WorkStep
  <2>1. phase'[v] = "gone" /\ attached'[v] = NoGen
    BY <1>1, <1>6 DEF Killed, Enter, Detach, ConnectionsTyped
  <2>2. /\ busy'[v] = {} /\ answers'[v] = {} /\ terminal'[v] = <<>>
        /\ \A u \in Physical : u # v => busy'[u] = busy[u] /\ answers'[u] = answers[u] /\ terminal'[u] = terminal[u]
    BY <1>1, <1>6 DEF Killed, WorkTyped
  <2>3. Answering(v)' = {}
    BY <2>2 DEF Answering
  <2> QED BY <2>1, <2>2, <2>3 DEF WorkStep, Handed, Answering
<1> QED
  BY <1>2, <1>3, <1>4, <1>5, <1>6 DEF LinkNext, linkVars, plugin, Start, Registers, RefusedDuplicate,
     Opens, RefusedStream, GivesUp, Reconnects, SeesClose, LosesStream, Stop, LateEvents, LateDisconnect,
     LateLost, Discards, PeerLeft, StreamBreaks, Ticks, Refreshes, LateReady, AcknowledgementLost, ClientJoins,
     ClientLeaves, Ages, Submits, Expires, Cleans, Fails, Refreshed
\* Every request the bridge ever took is in its queue; what a plugin reads, runs
\* or has to answer the bridge took; and what it remembers as answered is settled.
Taken == \A r \in Requests : status[r] # "new" => r \in Elements(arrivals)
Known ==
    \A v \in Physical : \A r \in Elements(wire[v]) \cup Handed(v) : r \in Requests /\ status[r] # "new"
Remembered == \A v \in Physical : \A r \in Answering(v) : r \in Requests /\ status[r] \in Settled

\* Together with ClaimedIsInHand they are inductive.  Without Remembered a plugin
\* could take a frame for a request it has answered and drop it; Remembered needs
\* Known, and a claim is sure to be carried as a frame because of Taken.
HandInv == LinkTyped /\ Taken /\ Known /\ Remembered /\ ClaimedIsInHand

\* What a step does to a request's status: a request stays settled, and one that
\* was taken stays so.
LEMMA StatusGoesOn ==
    ASSUME QueuedOrSettled, Typed, NEW r \in Requests
    PROVE  /\ status[r] # "new" => status'[r] # "new"
           /\ status[r] \in Settled => status'[r] \in Settled
           /\ status'[r] = "waiting" => status[r] \in {"new", "waiting"}
BY DEF QueuedOrSettled, Typed, TypeOK, Settled

LEMMA TakenKept ==
    ASSUME Typed, Typed', Taken, QueuedOrSettled
    PROVE  Taken'
<1>1. CASE arrivals' = arrivals /\ \A r \in Requests : status'[r] = status[r] \/ status[r] = "waiting"
  BY <1>1 DEF Taken
<1>2. ASSUME NEW q \in Requests, arrivals' = Append(arrivals, q),
             \A r \in Requests \ {q} : status'[r] = status[r]
      PROVE  Taken'
  <2>1. PICK s : s = arrivals
    OBVIOUS
  <2>2. s \in Seq(Requests)
    BY <2>1 DEF Typed, TypeOK
  <2>3. Elements(arrivals') = Elements(s) \cup {q}
    BY <1>2, <2>1, <2>2, ElementsOfAppend
  <2> QED BY <1>2, <2>1, <2>3 DEF Taken
<1> QED BY <1>1, <1>2 DEF QueuedOrSettled

LEMMA KnownKept ==
    ASSUME HandInv, [LinkNext]_linkVars, LinkTyped', QueuedOrSettled, WireStep, WorkStep
    PROVE  Known'
<1>1. Typed /\ Typed' /\ NoStrandedClaim' /\ arrivals' \in Seq(Requests)
  BY DEF HandInv, LinkTyped, Inv, Typed, TypeOK
<1>2. \A v \in Physical : \A r \in Elements(wire[v]) \cup Handed(v) : r \in Requests /\ status'[r] # "new"
  BY <1>1, StatusGoesOn DEF HandInv, Known
<1>3. ASSUME NEW v \in Physical, NEW r \in Elements(NewFrames(v))
      PROVE  r \in Requests /\ status'[r] # "new"
  <2>1. r \in Elements(arrivals') /\ claim'[r] = <<v, stream'[v]>> /\ claim[r] # claim'[r]
    BY <1>1, <1>3, NewFramesAre
  <2>2. r \in Requests
    BY <1>1, <2>1 DEF Elements
  <2>3. claim'[r] \in Owners \cup {NoOwner} /\ claim[r] \in Owners \cup {NoOwner}
    BY <1>1, <2>2 DEF Typed, TypeOK
  <2>4. CASE claim'[r] # NoOwner
    BY <1>1, <2>2, <2>4 DEF NoStrandedClaim, Waiting
  <2>5. CASE claim'[r] = NoOwner /\ status'[r] = "new"
    <3>1. status[r] = "new"
      BY <1>1, <2>2, <2>5, StatusGoesOn
    <3>2. claim[r] = NoOwner
      BY <2>2, <3>1 DEF HandInv, LinkTyped, Inv, NoStrandedClaim, Waiting
    <3> QED BY <2>1, <2>5, <3>2
  <2> QED BY <2>2, <2>4, <2>5
<1>4. \A v \in Physical : Elements(wire'[v]) \subseteq Elements(wire[v]) \cup Elements(NewFrames(v))
  BY <1>1, FrameSteps DEF HandInv
<1>5. \A v \in Physical : Handed(v)' \subseteq Handed(v) \cup Elements(wire[v])
  BY DEF WorkStep
<1> QED BY <1>2, <1>3, <1>4, <1>5 DEF Known

LEMMA RememberedKept ==
    ASSUME HandInv, LinkTyped', QueuedOrSettled, WorkStep
    PROVE  Remembered'
<1>1. Typed /\ Typed'
  BY DEF HandInv, LinkTyped, Inv
<1>2. ASSUME NEW v \in Physical, NEW r \in Answering(v)
      PROVE  r \in Requests /\ status'[r] \in Settled
  BY <1>1, <1>2, StatusGoesOn DEF HandInv, Remembered
<1>3. ASSUME NEW v \in Physical, NEW r \in answers[v], status'[r] # "waiting"
      PROVE  r \in Requests /\ status'[r] \in Settled
  <2>1. r \in Requests /\ status[r] # "new"
    BY <1>3 DEF HandInv, Known, Handed
  <2>2. status'[r] # "new" /\ status'[r] \in {"new", "waiting"} \cup Settled
    BY <1>1, <2>1, StatusGoesOn DEF Typed, TypeOK
  <2> QED BY <1>3, <2>1, <2>2
<1>4. \A v \in Physical : \A r \in Answering(v)' :
        r \in Answering(v) \/ (r \in answers[v] /\ status'[r] # "waiting")
  BY DEF WorkStep
<1> QED BY <1>2, <1>3, <1>4 DEF Remembered

LEMMA ClaimsStayInHand ==
    ASSUME HandInv, [LinkNext]_linkVars, LinkTyped', Taken', QueuedOrSettled, WireStep, WorkStep, DiscardStep
    PROVE  ClaimedIsInHand'
<1>1. Typed /\ Typed' /\ NoStrandedClaim /\ NoStrandedClaim' /\ arrivals' \in Seq(Requests)
  BY DEF HandInv, LinkTyped, Inv, Typed, TypeOK
<1> SUFFICES ASSUME NEW r \in Requests, status'[r] = "waiting", NEW v \in Physical,
                    attached'[v] # NoGen, claim'[r] = <<v, attached'[v]>>
             PROVE  r \in Elements(wire'[v]) \cup Handed(v)' \cup discarded'[v]
  BY DEF ClaimedIsInHand, Waiting, Elements, Handed
<1>2. claim'[r] # NoOwner
  <2>1. v \in Physical /\ attached'[v] \in Gens
    BY DEF LinkTyped, ConnectionsTyped
  <2>2. claim'[r] \in Owners
    BY <2>1 DEF Owners
  <2> QED BY <2>2, BridgeAssumption
<1>3. stream'[v] = attached'[v]
  <2>1. PICK o : o = claim'[r]
    OBVIOUS
  <2>2. stream'[o[1]] = o[2]
    BY <1>1, <1>2, <2>1 DEF NoStrandedClaim
  <2>3. o = <<v, attached'[v]>>
    BY <2>1
  <2> HIDE <2>1
  <2> QED BY <2>2, <2>3
<1>4. r \in Elements(arrivals')
  BY DEF Taken
<1>5. claim[r] # claim'[r] => r \in Elements(NewFrames(v))
  BY <1>1, <1>3, <1>4, NewFramesAre
<1>6. ASSUME claim[r] = claim'[r]
      PROVE  /\ r \in Elements(wire[v]) \cup Handed(v) \cup discarded[v]
             /\ attached'[v] = attached[v]
             /\ ~Unused(v, attached'[v])
             /\ status[r] = "waiting"
  <2>1. ~Unused(v, attached'[v])
    BY <1>6 DEF Unused
  <2>2. attached'[v] = attached[v]
    BY <2>1 DEF WireStep
  <2>3. r \in Waiting
    BY <1>1, <1>2, <1>6 DEF NoStrandedClaim
  <2>4. ClaimedIsInHand
    BY DEF HandInv
  <2> QED BY <1>6, <2>1, <2>2, <2>3, <2>4 DEF ClaimedIsInHand, Waiting, Elements, Handed
<1>7. claim[r] = claim'[r] /\ r \in Handed(v) \cup discarded[v] => r \in Handed(v)' \cup discarded'[v]
  BY <1>6 DEF WorkStep, DiscardStep
<1>8. ASSUME NEW unread, Leaves(unread), Carry(unread)
      PROVE  r \in Elements(wire'[v]) \cup Handed(v)' \cup discarded'[v]
  <2>1. /\ Elements(unread[v]) \subseteq Elements(wire'[v])
        /\ Elements(NewFrames(v)) \subseteq Elements(wire'[v])
    BY <1>1, <1>3, <1>8, CarryEffect DEF Leaves
  <2>2. CASE claim[r] # claim'[r]
    BY <1>5, <2>1, <2>2
  <2>3. CASE claim[r] = claim'[r]
    <3>1. unread[v] = wire[v]
      BY <1>6, <1>8, <2>3 DEF Leaves
    <3> QED BY <1>6, <1>7, <2>1, <2>3, <3>1
  <2> QED BY <2>2, <2>3
<1>9. ASSUME wire' = wire, ClaimsOnlyGo
      PROVE  r \in Elements(wire'[v]) \cup Handed(v)' \cup discarded'[v]
  BY <1>2, <1>6, <1>7, <1>9 DEF ClaimsOnlyGo
<1>10. ASSUME NEW u \in Physical, Reads(u) \/ Discards(u)
       PROVE  r \in Elements(wire'[v]) \cup Handed(v)' \cup discarded'[v]
  <2>1. claim' = claim /\ status' = status
    BY <1>10 DEF Reads, Discards, vars
  <2>2. r \in Elements(wire[v]) \cup Handed(v) \cup discarded[v] /\ status[r] = "waiting"
    BY <1>6, <2>1
  <2>3. PICK s : s = wire[u]
    OBVIOUS
  <2>4. s \in Seq(Requests) /\ s # <<>> /\ wire' = [wire EXCEPT ![u] = Tail(s)]
    BY <1>10, <2>3 DEF HandInv, LinkTyped, WireTyped, Reads, Discards
  <2>5. Elements(s) = Elements(Tail(s)) \cup {Head(s)}
    BY <2>4, ElementsOfTail
  <2>6. wire'[u] = Tail(s) /\ \A w \in Physical : w # u => wire'[w] = wire[w]
    BY <2>4 DEF HandInv, LinkTyped, WireTyped
  <2>7. r \notin Answering(u)
    BY <2>2 DEF HandInv, Remembered, Settled
  <2>8. CASE Reads(u) /\ r = Head(s)
    <3>1. busy' = IF Head(s) \in Seen(u) THEN busy ELSE [busy EXCEPT ![u] = @ \cup {Head(s)}]
      BY <2>3, <2>8 DEF Reads
    <3>2. answers' = answers
      BY <2>8 DEF Reads
    <3>3. busy \in [Physical -> SUBSET Requests]
      BY DEF HandInv, LinkTyped, WorkTyped
    <3>4. r \in Handed(u)'
      BY <2>7, <2>8, <3>1, <3>2, <3>3 DEF Seen, Handed
    <3> QED BY <1>7, <2>1, <2>2, <2>3, <2>6, <3>4
  <2>9. CASE Discards(u) /\ r = Head(s)
    <3>1. discarded' = [discarded EXCEPT ![u] = @ \cup {r}] /\ discarded \in [Physical -> SUBSET Requests]
      BY <2>3, <2>9 DEF Discards, HandInv, LinkTyped, DiscardsTyped
    <3>2. r \in discarded'[u]
      BY <3>1
    <3> QED BY <1>7, <2>1, <2>2, <2>3, <2>6, <3>2
  <2>10. CASE r # Head(s)
    BY <1>7, <2>1, <2>2, <2>3, <2>5, <2>6, <2>10
  <2> QED BY <1>10, <2>8, <2>9, <2>10
<1> QED BY <1>8, <1>9, <1>10 DEF WireStep

LEMMA HandInvInit == LinkInit => HandInv
<1> SUFFICES ASSUME LinkInit PROVE HandInv
  OBVIOUS
<1>1. \A v \in Physical : Elements(wire[v]) = {} /\ Handed(v) = {} /\ Answering(v) = {}
  BY ElementsOfNone DEF LinkInit, Handed, Answering
<1>2. Taken /\ Known /\ Remembered /\ ClaimedIsInHand
  BY <1>1 DEF LinkInit, Init, Taken, Known, Remembered, ClaimedIsInHand, Waiting
<1> QED BY <1>2, LinkTypedInit DEF HandInv

LEMMA HandInvKept == HandInv /\ [LinkNext]_linkVars => HandInv'
<1> SUFFICES ASSUME HandInv, [LinkNext]_linkVars PROVE HandInv'
  OBVIOUS
<1>1. LinkTyped'
  BY LinkTypedKept DEF HandInv
<1>2. QueuedOrSettled
  BY BridgeSteps, StatusSteps DEF HandInv, LinkTyped, ConnectionsTyped, Inv
<1>3. WireStep /\ WorkStep /\ DiscardStep
  BY WireSteps, WorkSteps, DiscardSteps DEF HandInv
<1>4. Taken'
  BY <1>1, <1>2, TakenKept DEF HandInv, LinkTyped, Inv
<1> QED BY <1>1, <1>2, <1>3, <1>4, KnownKept, RememberedKept, ClaimsStayInHand DEF HandInv

LEMMA HandInvHolds == LinkSpec => []HandInv
BY HandInvInit, HandInvKept, PTL DEF LinkSpec

\* A request claimed by the stream its plugin listens to is on that stream, runs
\* there, or has its answer ready, whatever breaks, unless the plugin threw its
\* frame away on that very stream (pump, dispatchRequest; decodeMessage, joinChunk).
THEOREM ClaimsAreInHand == LinkSpec => []ClaimedIsInHand
<1>1. HandInv => ClaimedIsInHand
  BY DEF HandInv
<1> QED BY <1>1, HandInvHolds, PTL

\* A plugin forgets an answer only when its request is settled or the VM is
\* destroyed (pendingResponses; postResponse against settleRequest).
THEOREM AnswersAreKept == LinkSpec => AnswerKeptUntilSettled
<1>1. LinkTyped /\ [LinkNext]_linkVars =>
        [\A v \in Physical : \A r \in answers[v] \ answers'[v] :
           status'[r] # "waiting" \/ phase'[v] = "gone"]_linkVars
  BY WorkSteps DEF WorkStep
<1> QED BY <1>1, LinkTypedHolds, PTL DEF LinkSpec, AnswerKeptUntilSettled
-----------------------------------------------------------------------------
(* What callers are told. *)

NoneAnswered == \A r \in Requests : status'[r] = "answered" => status[r] = "answered"

\* An answer comes from a plugin that has it; nothing else settles a request as
\* answered.
LEMMA AnswersAreDelivered ==
    ASSUME LinkTyped, [LinkNext]_linkVars
    PROVE  NoneAnswered \/ \E v \in Physical : \E r \in answers[v] : r \in Requests /\ Delivered(r)
<1>1. ASSUME NEW R, NEW how, how # "answered", Finish(R, how)
      PROVE  NoneAnswered
  BY <1>1 DEF NoneAnswered, Finish
<1>2. ASSUME UNCHANGED status
      PROVE  NoneAnswered
  BY <1>2 DEF NoneAnswered
<1>3. ASSUME NEW S, Unregister(S)
      PROVE  NoneAnswered
  <2>1. PICK R : Finish(R, "disconnected")
    BY <1>3, Zenon DEF Unregister
  <2> QED BY <1>1, <2>1
<1>4. ASSUME NEW x, NEW p, NEW ask, Ready(x, p, ask)
      PROVE  NoneAnswered
  <2>1. PICK tuple : Register(x, tuple)
    BY <1>4, Zenon DEF Ready
  <2>2. PICK R : Finish(R, "disconnected")
    BY <2>1, Zenon DEF Register
  <2> QED BY <1>1, <2>2
<1>5. ASSUME NEW s, \/ \E g \in Gens : OpenStream(s, g)
                    \/ CloseStream(s) \/ Drain(s) \/ Heartbeat(s) \/ RefreshStatus \/ Age(s)
      PROVE  NoneAnswered
  <2>1. UNCHANGED status
    BY <1>5, Zenon DEF OpenStream, CloseStream, Drain, Heartbeat, RefreshStatus, Age, queue
  <2> QED BY <1>2, <2>1
<1>6. ASSUME NEW r \in Requests, NEW tuple \in Targets, SendRequest(r, tuple)
      PROVE  NoneAnswered
  BY <1>6 DEF SendRequest, NoneAnswered, LinkTyped, Inv, Typed, TypeOK
<1>7. ASSUME NEW r \in Requests, TimeOut(r)
      PROVE  NoneAnswered
  BY <1>1, <1>7 DEF TimeOut, Settle
<1>8. ASSUME NEW v \in Physical,
             \/ \E p \in Places : Ready(v, p, 0)
             \/ \E g \in Gens : OpenStream(v, g)
             \/ Disconnect(v) \/ CloseStream(v) \/ Heartbeat(v) \/ Drain(v)
      PROVE  NoneAnswered
  BY <1>3, <1>4, <1>5, <1>8 DEF Disconnect
<1>9. ASSUME NEW v \in Physical, Registers(v) \/ Opens(v) \/ LateEvents(v) \/ LateDisconnect(v) \/ PeerLeft(v)
                                 \/ StreamBreaks(v) \/ Ticks(v) \/ \E p \in Places : LateReady(v, p)
      PROVE  NoneAnswered
  <2>1. place[v] \in Places
    BY DEF LinkTyped, ConnectionsTyped
  <2> QED BY <1>8, <1>9, <2>1, Zenon DEF Registers, Opens, LateEvents, LateDisconnect, PeerLeft, StreamBreaks,
           Ticks, LateReady
<1>10. ASSUME NEW x \in Sessions, ClientJoins(x) \/ ClientLeaves(x) \/ Ages(x)
       PROVE  NoneAnswered
  BY <1>3, <1>4, <1>5, <1>10, Zenon DEF ClientJoins, ClientLeaves, Ages, Disconnect
<1>11. CASE Restart
  BY <1>1, <1>11 DEF Restart
<1>12. CASE Cleans \/ Fails \/ Refreshed
  BY <1>3, <1>5, <1>11, <1>12, Zenon DEF Cleans, CleanupStale, Fails, UnregisterPlace, Refreshed
<1>13. ASSUME NEW r \in Requests, Submits(r) \/ Expires(r)
       PROVE  NoneAnswered
  BY <1>6, <1>7, <1>13 DEF Submits, Expires
<1>14. ASSUME NEW v \in Physical, NEW r \in Requests, PostsAnswer(v, r) \/ AcknowledgementLost(v, r)
       PROVE  r \in answers[v] /\ Delivered(r)
  BY <1>14 DEF PostsAnswer, AcknowledgementLost
<1>15. ASSUME UNCHANGED vars
       PROVE  NoneAnswered
  BY <1>2, <1>15 DEF vars
<1> QED
  BY <1>9, <1>10, <1>12, <1>13, <1>14, <1>15 DEF LinkNext, linkVars, Start, RefusedDuplicate, RefusedStream,
     GivesUp, Reconnects, SeesClose, LosesStream, Stop, Killed, LateLost, Reads, Discards, Refreshes, Finishes

\* The handler of every request that a plugin works on has started, and only
\* requests the bridge took are started at all.
Ran ==
    /\ \A v \in Physical : \A r \in Handed(v) : runs[r] # <<>>
    /\ \A r \in Requests : runs[r] # <<>> => status[r] # "new"

LEMMA RunsGrow ==
    ASSUME LinkTyped, [LinkNext]_linkVars
    PROVE  \A r \in Requests :
             /\ runs[r] # <<>> => runs'[r] # <<>>
             /\ runs'[r] # runs[r] => \E v \in Physical : r \in Elements(wire[v])
<1>1. ASSUME NEW v \in Physical, Reads(v)
      PROVE  \A r \in Requests :
               /\ runs[r] # <<>> => runs'[r] # <<>>
               /\ runs'[r] # runs[r] => \E u \in Physical : r \in Elements(wire[u])
  <2>1. PICK q : q = Head(wire[v])
    OBVIOUS
  <2>2. q \in Requests /\ q \in Elements(wire[v])
    BY <1>1, <2>1, ElementsOfTail DEF Reads, LinkTyped, WireTyped
  <2>3. PICK s, t : t = runs[q] /\ s = Append(t, v)
    OBVIOUS
  <2>4. s # <<>>
    <3>1. t \in Seq(Physical)
      BY <2>2, <2>3 DEF LinkTyped, WorkTyped
    <3> QED BY <2>3, <3>1, SMTT(30)
  <2>5. runs' = runs \/ runs' = [runs EXCEPT ![q] = s]
    BY <1>1, <2>1, <2>3 DEF Reads
  <2>6. \A r \in Requests : runs'[r] = runs[r] \/ (r = q /\ runs'[r] = s)
    BY <2>5 DEF LinkTyped, WorkTyped
  <2> QED BY <2>2, <2>4, <2>6
<1>2. CASE runs' = runs
  BY <1>2
<1> QED
  BY <1>1, <1>2 DEF LinkNext, linkVars, plugin, Start, Registers, RefusedDuplicate,
     Opens, RefusedStream, GivesUp, Reconnects, SeesClose, LosesStream, Stop, Killed, LateEvents,
     LateDisconnect, LateLost, Discards, PeerLeft, StreamBreaks, Ticks, Refreshes, LateReady, Finishes, PostsAnswer,
     AcknowledgementLost, ClientJoins, ClientLeaves, Ages, Submits, Expires, Cleans, Fails, Refreshed

LEMMA TakenUpIsStarted ==
    ASSUME LinkTyped, [LinkNext]_linkVars, NEW v \in Physical, NEW r \in Handed(v)', r \notin Handed(v)
    PROVE  runs'[r] # <<>>
<1>1. ASSUME NEW u \in Physical, Reads(u)
      PROVE  runs'[r] # <<>>
  <2>1. PICK q : q = Head(wire[u])
    OBVIOUS
  <2>2. q \in Requests
    BY <1>1, <2>1, ElementsOfTail DEF Reads, LinkTyped, WireTyped
  <2>3. PICK s, t : t = runs[q] /\ s = Append(t, u)
    OBVIOUS
  <2>4. s # <<>>
    <3>1. t \in Seq(Physical)
      BY <2>2, <2>3 DEF LinkTyped, WorkTyped
    <3> QED BY <2>3, <3>1, SMTT(30)
  <2>5. answers' = answers /\ (busy' = busy \/ (busy' = [busy EXCEPT ![u] = @ \cup {q}]
                                               /\ runs' = [runs EXCEPT ![q] = s]))
    BY <1>1, <2>1, <2>3 DEF Reads
  <2>6. busy' # busy
    BY <2>5 DEF Handed
  <2>7. r = q
    BY <2>5, <2>6 DEF Handed, LinkTyped, WorkTyped
  <2> QED BY <2>2, <2>4, <2>5, <2>6, <2>7 DEF LinkTyped, WorkTyped
<1>2. ASSUME NEW u \in Physical, NEW q \in Requests, Finishes(u, q)
      PROVE  FALSE
  <2>1. \A w \in Physical : Handed(w)' \subseteq Handed(w)
    BY <1>2 DEF Finishes, Handed, LinkTyped, WorkTyped
  <2> QED BY <2>1
<1>3. ASSUME NEW u \in Physical, NEW q \in Requests, PostsAnswer(u, q)
      PROVE  FALSE
  <2>1. \A w \in Physical : Handed(w)' \subseteq Handed(w)
    BY <1>3 DEF PostsAnswer, Handed, LinkTyped, WorkTyped
  <2> QED BY <2>1
<1>4. ASSUME NEW u \in Physical, Killed(u)
      PROVE  FALSE
  <2>1. \A w \in Physical : Handed(w)' \subseteq Handed(w)
    BY <1>4 DEF Killed, Handed, LinkTyped, WorkTyped
  <2> QED BY <2>1
<1>5. ASSUME UNCHANGED <<busy, answers>>
      PROVE  FALSE
  BY <1>5 DEF Handed
<1> QED
  BY <1>1, <1>2, <1>3, <1>4, <1>5 DEF LinkNext, linkVars, plugin, Start, Registers, RefusedDuplicate,
     Opens, RefusedStream, GivesUp, Reconnects, SeesClose, LosesStream, Stop, LateEvents, LateDisconnect,
     LateLost, Discards, PeerLeft, StreamBreaks, Ticks, Refreshes, LateReady, AcknowledgementLost, ClientJoins,
     ClientLeaves, Ages, Submits, Expires, Cleans, Fails, Refreshed

LEMMA RanInit == LinkInit => Ran
BY DEF LinkInit, Ran, Handed

LEMMA RanKept == HandInv /\ Ran /\ [LinkNext]_linkVars => Ran'
<1> SUFFICES ASSUME HandInv, Ran, [LinkNext]_linkVars PROVE Ran'
  OBVIOUS
<1>1. LinkTyped /\ Typed
  BY DEF HandInv, LinkTyped, Inv
<1>2. QueuedOrSettled
  BY <1>1, BridgeSteps, StatusSteps DEF LinkTyped, ConnectionsTyped
<1>3. ASSUME NEW v \in Physical, NEW r \in Handed(v)'
      PROVE  runs'[r] # <<>>
  <2>1. CASE r \in Handed(v)
    BY <1>1, <2>1, RunsGrow DEF Ran, HandInv, Known
  <2>2. CASE r \notin Handed(v)
    BY <1>1, <2>2, TakenUpIsStarted
  <2> QED BY <2>1, <2>2
<1>4. ASSUME NEW r \in Requests, runs'[r] # <<>>
      PROVE  status'[r] # "new"
  <2>1. status[r] # "new"
    BY <1>1, <1>4, RunsGrow DEF Ran, HandInv, Known
  <2> QED BY <1>1, <1>2, <2>1, StatusGoesOn
<1> QED BY <1>3, <1>4 DEF Ran

LEMMA RanHolds == LinkSpec => []Ran
BY RanInit, RanKept, HandInvHolds, PTL DEF LinkSpec

\* What a caller may be told, as in RequestPromise: a request is settled once,
\* and answered only when its handler has been started.
CallerStep(r) ==
    \/ CallerState[r]' = CallerState[r]
    \/ CallerState[r] = "new" /\ CallerState[r]' = "waiting"
    \/ CallerState[r] = "waiting" /\ CallerState[r]' = "answered" /\ runs[r] # <<>>
    \/ CallerState[r] = "waiting" /\ CallerState[r]' = "failed"

\* The caller's side of the promise, for any number of plugins, whatever they
\* remember: no caller is told two things, and none gets an answer to a request
\* that no plugin ran (settleRequest, pendingResponses).
THEOREM CallersGetRealAnswers == LinkSpec => [][\A r \in Requests : CallerStep(r)]_linkVars
<1>1. HandInv /\ Ran /\ [LinkNext]_linkVars => [\A r \in Requests : CallerStep(r)]_linkVars
  <2> SUFFICES ASSUME HandInv, Ran, [LinkNext]_linkVars, NEW r \in Requests PROVE CallerStep(r)
    OBVIOUS
  <2>1. LinkTyped /\ Typed /\ Typed'
    BY LinkTypedKept DEF HandInv, LinkTyped, Inv
  <2>2. QueuedOrSettled
    BY <2>1, BridgeSteps, StatusSteps DEF LinkTyped, ConnectionsTyped
  <2>3. \/ status'[r] = status[r]
        \/ status[r] = "new" /\ status'[r] = "waiting"
        \/ status[r] = "waiting" /\ status'[r] \in Settled
    BY <2>2 DEF QueuedOrSettled
  <2>4. status[r] = "waiting" /\ status'[r] = "answered" => runs[r] # <<>>
    <3>1. ASSUME NEW v \in Physical, NEW q \in answers[v], q \in Requests, Delivered(q), status'[r] # status[r]
          PROVE  q = r
      BY <2>1, <3>1 DEF Delivered, Respond, Settle, Finish, vars, Typed, TypeOK
    <3>2. NoneAnswered => ~(status[r] = "waiting" /\ status'[r] = "answered")
      BY DEF NoneAnswered
    <3> QED BY <2>1, <3>1, <3>2, AnswersAreDelivered DEF Ran, Handed
  <2>5. /\ CallerState[r] = IF status[r] \in {"new", "waiting", "answered"} THEN status[r] ELSE "failed"
        /\ CallerState[r]' = IF status'[r] \in {"new", "waiting", "answered"} THEN status'[r] ELSE "failed"
    BY DEF CallerState
  <2> QED BY <2>3, <2>4, <2>5 DEF CallerStep, Settled
<1> QED BY <1>1, HandInvHolds, RanHolds, PTL DEF LinkSpec
=============================================================================
