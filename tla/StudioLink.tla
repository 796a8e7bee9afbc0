----------------------------- MODULE StudioLink -----------------------------
(***************************************************************************)
(* StudioBridge together with the Studio plugins that connect to it: each  *)
(* physical session is one plugin VM running StudioEventStream, which      *)
(* registers (POST /ready), opens its event stream (GET /events), runs the *)
(* requests it reads from it, and posts the answers (POST /response),      *)
(* retrying all of these as connections break.                             *)
(*                                                                         *)
(* A route call the plugin no longer waits for may still reach the bridge: *)
(* it is a late call.  Failures (a broken stream, a frame thrown away, a   *)
(* lost call, a plugin stopped, refreshed or killed, a bridge restarted)   *)
(* are bounded by MaxFaults; everything else may happen any number of      *)
(* times.                                                                  *)
(***************************************************************************)
EXTENDS StudioBridge

CONSTANTS
    MaxTerminal,  \* MAX_TERMINAL_RESPONSES
    MaxFaults     \* bound: failures per behaviour

ASSUME LinkAssumption == MaxTerminal \in Nat \ {0} /\ MaxFaults \in Nat

VARIABLES
    place,     \* the instance id of the VM's data model: getInstanceId
    phase,     \* "off", "ready" (/ready posted), "dial" (/events requested),
               \* "open", "backoff" (connectAfter pending), "gone" (no VM, or none any more)
    attached,  \* the event stream the plugin listens to
    wire,      \* request frames written to that stream and not read yet
    late,      \* calls on their way that the plugin has given up waiting for
    busy,      \* inFlightRequestIds: handlers running
    answers,   \* pendingResponses: answers to post
    terminal,  \* terminalResponseOrder
    runs,      \* history: the VMs that started each request's handler
    discarded, \* history: requests whose frame the plugin threw away, of the
               \* stream it listens to
    faults

plugin == <<place, phase, attached, late, busy, answers, terminal, runs, discarded>>
linkVars == <<vars, plugin, wire, faults>>

LateCalls == [route : {"ready"}, place : Places] \cup [route : {"events", "disconnect"}]

LinkTypeOK ==
    /\ place \in [Physical -> Places]
    /\ phase \in [Physical -> {"off", "ready", "dial", "open", "backoff", "gone"}]
    /\ attached \in [Physical -> Gens \cup {NoGen}]
    /\ wire \in [Physical -> Seq(Requests)]
    /\ late \in [Physical -> SUBSET LateCalls]
    /\ busy \in [Physical -> SUBSET Requests]
    /\ answers \in [Physical -> SUBSET Requests]
    /\ terminal \in [Physical -> Seq(Requests)]
    /\ runs \in [Requests -> Seq(Physical)]
    /\ discarded \in [Physical -> SUBSET Requests]
    /\ \A v \in Physical :
         /\ Len(terminal[v]) <= MaxTerminal
         /\ busy[v] \cap answers[v] = {}
    /\ faults \in 0..MaxFaults

LinkInit ==
    /\ Init
    /\ place \in [Physical -> Places]
    /\ phase \in [Physical -> {"off", "gone"}]   \* some are never loaded
    /\ attached = [v \in Physical |-> NoGen]
    /\ wire = [v \in Physical |-> <<>>]
    /\ late = [v \in Physical |-> {}]
    /\ busy = [v \in Physical |-> {}]
    /\ answers = [v \in Physical |-> {}]
    /\ terminal = [v \in Physical |-> <<>>]
    /\ runs = [r \in Requests |-> <<>>]
    /\ discarded = [v \in Physical |-> {}]
    /\ faults = 0

-----------------------------------------------------------------------------
Active(v) == phase[v] \notin {"off", "gone"}
Answering(v) == {terminal[v][i] : i \in DOMAIN terminal[v]}

Fault == faults < MaxFaults /\ faults' = faults + 1

\* The requests this step claims for v's stream, in the order pump writes them:
\* the n-th frame is the n-th of them to have arrived.
NewFrames(v) ==
    LET new == {i \in DOMAIN arrivals' :
                  LET r == arrivals'[i] IN claim'[r] = <<v, stream'[v]>> /\ claim[r] # claim'[r]}
        upTo(i) == Cardinality({j \in new : j <= i})
    IN [n \in 1..Cardinality(new) |-> arrivals'[CHOOSE i \in new : upTo(i) = n]]

\* MUTANT of Carry: the plugin listens only after the stream has opened, and
\* misses what is written at once.
CarryAttached(unread) ==
    wire' = [v \in Physical |->
               IF attached[v] # NoGen /\ attached[v] = stream'[v]
                 THEN unread[v] \o NewFrames(v) ELSE unread[v]]

\* A frame reaches the plugin only on the stream the plugin listens to.
Carry(unread) ==
    wire' = [v \in Physical |->
               IF attached'[v] # NoGen /\ attached'[v] = stream'[v]
                 THEN unread[v] \o NewFrames(v) ELSE unread[v]]

\* The plugin stops listening to v's stream and forgets what it has not read.
Detach(v) ==
    /\ attached' = [attached EXCEPT ![v] = NoGen]
    /\ discarded' = [discarded EXCEPT ![v] = {}]
    /\ Carry([wire EXCEPT ![v] = <<>>])

\* The call v waits for, which a change of generation turns into a late one.
Outstanding(v) ==
    {call \in LateCalls :
       \/ phase[v] = "ready" /\ call = [route |-> "ready", place |-> place[v]]
       \/ phase[v] = "dial" /\ call = [route |-> "events"]}

Enter(v, ph) == phase' = [phase EXCEPT ![v] = ph]
Abandoned(v) == late' = [late EXCEPT ![v] = @ \cup Outstanding(v)]
Arrived(v, call) ==
    /\ call \in late[v]
    /\ late' = [late EXCEPT ![v] = @ \ {call}]

-----------------------------------------------------------------------------
(* Connecting. *)

\* start: the user activates the plugin, or a new VM loads it.
Start(v) ==
    /\ phase[v] = "off"
    /\ Enter(v, "ready")
    /\ UNCHANGED <<vars, place, attached, wire, late, busy, answers, terminal, runs, discarded, faults>>

\* The bridge takes the registration; the plugin asks for its event stream.
Registers(v) ==
    /\ phase[v] = "ready"
    /\ Ready(v, place[v], 0)
    /\ Enter(v, "dial")
    /\ UNCHANGED <<place, attached, late, busy, answers, terminal, runs, discarded, faults>>
    /\ Carry(wire)

\* The bridge refuses it: another session holds the tuple.
RefusedDuplicate(v) ==
    /\ phase[v] = "ready"
    /\ \E y \in Sessions \ {v} :
         inst[y] = [place |-> place[v], kind |-> Kind[v], n |-> 0] /\ Protected(y)
    /\ Enter(v, "backoff")
    /\ UNCHANGED <<vars, place, attached, wire, late, busy, answers, terminal, runs, discarded, faults>>

\* The bridge opens the stream and the plugin's Opened event fires.
Opens(v) ==
    /\ phase[v] = "dial"
    /\ \E g \in Gens \ {attached[v]} :
         /\ OpenStream(v, g)
         /\ attached' = [attached EXCEPT ![v] = g]
    /\ Enter(v, "open")
    /\ UNCHANGED <<place, late, busy, answers, terminal, runs, discarded, faults>>
    /\ Carry([wire EXCEPT ![v] = <<>>])

\* 404: the session is not registered any more; 503: no stream is free.
RefusedStream(v) ==
    /\ phase[v] = "dial"
    /\ inst[v] = NoTarget \/ (stream[v] = NoGen /\ Cardinality(Open) >= MaxStreams)
    /\ Enter(v, "backoff")
    /\ UNCHANGED <<vars, place, attached, wire, late, busy, answers, terminal, runs, discarded, faults>>

\* A call fails or its answer is lost: scheduleReconnect.
GivesUp(v) ==
    /\ phase[v] \in {"ready", "dial"}
    /\ Fault
    /\ Abandoned(v)
    /\ Enter(v, "backoff")
    /\ UNCHANGED <<vars, place, attached, wire, busy, answers, terminal, runs, discarded>>

\* connectAfter's delay is over.
Reconnects(v) ==
    /\ phase[v] = "backoff"
    /\ Enter(v, "ready")
    /\ UNCHANGED <<vars, place, attached, wire, late, busy, answers, terminal, runs, discarded, faults>>

\* The bridge has closed the stream and the plugin has read all of it.
SeesClose(v) ==
    /\ phase[v] = "open" /\ attached[v] # stream[v] /\ wire[v] = <<>>
    /\ Enter(v, "backoff")
    /\ attached' = [attached EXCEPT ![v] = NoGen]
    /\ discarded' = [discarded EXCEPT ![v] = {}]
    /\ UNCHANGED <<vars, place, wire, late, busy, answers, terminal, runs, faults>>

\* The connection breaks, or stays silent for 45 seconds: unread frames are lost.
LosesStream(v) ==
    /\ phase[v] = "open"
    /\ Fault
    /\ Enter(v, "backoff")
    /\ UNCHANGED <<vars, place, late, busy, answers, terminal, runs>>
    /\ Detach(v)

\* refresh: the place was renamed or published under another id.
Refreshes(v, p) ==
    /\ Active(v)
    /\ Fault
    /\ Abandoned(v)
    /\ Enter(v, "ready")
    /\ place' = [place EXCEPT ![v] = p]
    /\ UNCHANGED <<vars, busy, answers, terminal, runs>>
    /\ Detach(v)

\* stop: the user deactivates the plugin.  Handlers that run go on running.
Stop(v) ==
    /\ Active(v)
    /\ Fault
    /\ late' = [late EXCEPT ![v] = @ \cup Outstanding(v) \cup {[route |-> "disconnect"]}]
    /\ Enter(v, "off")
    /\ UNCHANGED <<vars, place, busy, answers, terminal, runs>>
    /\ Detach(v)

\* The VM is destroyed: Studio closes or crashes, or the playtest ends.
Killed(v) ==
    /\ phase[v] # "gone"
    /\ Fault
    /\ Abandoned(v)
    /\ Enter(v, "gone")
    /\ busy' = [busy EXCEPT ![v] = {}]
    /\ answers' = [answers EXCEPT ![v] = {}]
    /\ terminal' = [terminal EXCEPT ![v] = <<>>]
    /\ UNCHANGED <<vars, place, runs>>
    /\ Detach(v)

-----------------------------------------------------------------------------
(* Late calls: the plugin ignores how they end. *)

LateReady(v, p) ==
    /\ Arrived(v, [route |-> "ready", place |-> p])
    /\ Ready(v, p, 0)
    /\ UNCHANGED <<place, phase, attached, busy, answers, terminal, runs, discarded, faults>>
    /\ Carry(wire)

LateEvents(v) ==
    /\ Arrived(v, [route |-> "events"])
    /\ \E g \in Gens \ {attached[v]} : OpenStream(v, g)
    /\ UNCHANGED <<place, phase, attached, busy, answers, terminal, runs, discarded, faults>>
    /\ Carry(wire)

LateDisconnect(v) ==
    /\ Arrived(v, [route |-> "disconnect"])
    /\ Disconnect(v)
    /\ UNCHANGED <<place, phase, attached, busy, answers, terminal, runs, discarded, faults>>
    /\ Carry(wire)

\* A late call is refused, or never arrives.
LateLost(v) ==
    /\ \E call \in late[v] : Arrived(v, call)
    /\ UNCHANGED <<vars, place, phase, attached, wire, busy, answers, terminal, runs, discarded, faults>>

-----------------------------------------------------------------------------
(* Requests. *)

\* MUTANT of Seen: answers that wait to be acknowledged are forgotten.
SeenRunning(v) == busy[v] \cup Answering(v)

\* MUTANT of Seen: answered requests are forgotten at once.
SeenUnanswered(v) == busy[v] \cup answers[v]

\* The requests dispatchRequest has seen: running, to be answered or answered.
Seen(v) == busy[v] \cup answers[v] \cup Answering(v)

\* MessageReceived: dispatchRequest starts the handler unless the plugin has
\* seen the request before.
Reads(v) ==
    /\ phase[v] = "open" /\ wire[v] # <<>>
    /\ LET r == Head(wire[v])
       IN /\ busy' = IF r \in Seen(v) THEN busy ELSE [busy EXCEPT ![v] = @ \cup {r}]
          /\ runs' = IF r \in Seen(v) THEN runs ELSE [runs EXCEPT ![r] = Append(@, v)]
    /\ wire' = [wire EXCEPT ![v] = Tail(@)]
    /\ UNCHANGED <<vars, place, phase, attached, late, answers, terminal, discarded, faults>>

\* A frame the plugin cannot read, or one in chunks for which it has no room
\* (joinChunk: sets that a broken stream left incomplete are kept, over the next
\* streams, for a minute), is passed over: the stream stays open, the bridge
\* keeps the claim, and nobody runs the request.
Discards(v) ==
    /\ phase[v] = "open" /\ wire[v] # <<>>
    /\ Fault
    /\ discarded' = [discarded EXCEPT ![v] = @ \cup {Head(wire[v])}]
    /\ wire' = [wire EXCEPT ![v] = Tail(@)]
    /\ UNCHANGED <<vars, place, phase, attached, late, busy, answers, terminal, runs>>

\* The handler returns; its answer is kept until the bridge has acknowledged it.
Finishes(v, r) ==
    /\ r \in busy[v]
    /\ busy' = [busy EXCEPT ![v] = @ \ {r}]
    /\ answers' = [answers EXCEPT ![v] = @ \cup {r}]
    /\ UNCHANGED <<vars, place, phase, attached, wire, late, terminal, runs, discarded, faults>>

\* MUTANT of Delivered: only an answer to a claimed request is taken.
DeliveredIfClaimed(r) ==
    IF r \in Waiting /\ claim[r] # NoOwner THEN Respond(r) ELSE UNCHANGED vars

\* MUTANT of Delivered: a request that is not pending is an error, to be retried.
DeliveredStrictly(r) == r \in Waiting /\ Respond(r)

\* POST /response reaches the bridge, which settles the request if it waits.
Delivered(r) == IF r \in Waiting THEN Respond(r) ELSE UNCHANGED vars

\* The last MaxTerminal answered requests are remembered.
Remember(v, r) ==
    LET longer == Append(terminal[v], r)
    IN terminal' = [terminal EXCEPT ![v] =
                      IF Len(longer) > MaxTerminal THEN Tail(longer) ELSE longer]

\* Any disposition (accepted, already_settled, unknown) ends the retries.
PostsAnswer(v, r) ==
    /\ Active(v) /\ r \in answers[v]
    /\ Delivered(r)
    /\ answers' = [answers EXCEPT ![v] = @ \ {r}]
    /\ Remember(v, r)
    /\ UNCHANGED <<place, phase, attached, late, busy, runs, discarded, faults>>
    /\ Carry(wire)

\* The bridge settles the request but the acknowledgement is lost; the plugin
\* keeps the answer and posts it again.
AcknowledgementLost(v, r) ==
    /\ Active(v) /\ r \in answers[v]
    /\ Fault
    /\ Delivered(r)
    /\ UNCHANGED plugin
    /\ Carry(wire)

-----------------------------------------------------------------------------
(* The bridge's own steps. *)

\* The socket of a stream the plugin does not listen to (any more) closes.
PeerLeft(v) ==
    /\ stream[v] # attached[v]
    /\ CloseStream(v)
    /\ UNCHANGED <<plugin, faults>>
    /\ Carry(wire)

\* The bridge loses a stream its plugin still listens to.
StreamBreaks(v) ==
    /\ stream[v] = attached[v]
    /\ Fault
    /\ CloseStream(v)
    /\ UNCHANGED plugin
    /\ Carry(wire)

\* A play server's broker registers and unregisters its runtime clients, at any
\* time and by any number here; ClientRegistrations says when and by which.
ClientJoins(x) ==
    /\ Phys[x] # x /\ Active(Phys[x])
    /\ \E ask \in 0..MaxClients : Ready(x, place[Phys[x]], ask)
    /\ UNCHANGED <<plugin, faults>>
    /\ Carry(wire)

ClientLeaves(x) ==
    /\ Phys[x] # x /\ Active(Phys[x])
    /\ Disconnect(x)
    /\ UNCHANGED <<plugin, faults>>
    /\ Carry(wire)

Fails ==
    /\ Fault
    /\ Restart \/ \E p \in Places : UnregisterPlace(p)
    /\ UNCHANGED plugin
    /\ Carry(wire)

Ticks(v) ==
    /\ Heartbeat(v) \/ Drain(v)
    /\ UNCHANGED <<plugin, faults>>
    /\ Carry(wire)

Ages(x) == Age(x) /\ UNCHANGED <<plugin, wire, faults>>

Cleans ==
    /\ CleanupStale
    /\ UNCHANGED <<plugin, faults>>
    /\ Carry(wire)

Refreshed ==
    /\ RefreshStatus
    /\ UNCHANGED <<plugin, faults>>
    /\ Carry(wire)

Submits(r) ==
    /\ \E tuple \in Targets : SendRequest(r, tuple)
    /\ UNCHANGED <<plugin, faults>>
    /\ Carry(wire)

Expires(r) == TimeOut(r) /\ UNCHANGED <<plugin, wire, faults>>

-----------------------------------------------------------------------------
LinkNext ==
    \/ \E v \in Physical :
         \/ Start(v) \/ Registers(v) \/ RefusedDuplicate(v) \/ Opens(v)
         \/ RefusedStream(v) \/ GivesUp(v) \/ Reconnects(v) \/ SeesClose(v)
         \/ LosesStream(v) \/ Stop(v) \/ Killed(v)
         \/ LateEvents(v) \/ LateDisconnect(v) \/ LateLost(v)
         \/ Reads(v) \/ Discards(v) \/ PeerLeft(v) \/ StreamBreaks(v) \/ Ticks(v)
         \/ \E p \in Places : Refreshes(v, p) \/ LateReady(v, p)
         \/ \E r \in Requests :
              Finishes(v, r) \/ PostsAnswer(v, r) \/ AcknowledgementLost(v, r)
    \/ \E x \in Sessions : ClientJoins(x) \/ ClientLeaves(x) \/ Ages(x)
    \/ \E r \in Requests : Submits(r) \/ Expires(r)
    \/ Cleans \/ Fails \/ Refreshed

LinkSpec == LinkInit /\ [][LinkNext]_linkVars

-----------------------------------------------------------------------------
(* What the link implements. *)

CallerState ==
    [r \in Requests |->
       IF status[r] \in {"new", "waiting", "answered"} THEN status[r] ELSE "failed"]
StartCount == [r \in Requests |-> Len(runs[r])]

Promise == INSTANCE RequestPromise WITH state <- CallerState, starts <- StartCount

\* The link keeps the promise: over any redelivery, takeover, late call or lost
\* acknowledgement a handler starts at most once, and an answered request was
\* answered by the handler that ran (dispatchRequest, settleRequest).
\* Two things are presumed.  A redelivered frame is read before MaxTerminal
\* other answers have been acknowledged: by then the plugin has forgotten an
\* answer that settled meanwhile.  And no place change moves a running request
\* to a second VM: migratePendingRequests takes along every role's requests, so
\* that a play server that changes from the place of one window to the place of
\* another moves the first one's requests to the second, which runs them again
\* should the first one's stream break.
PromiseKept == Promise!Spec

-----------------------------------------------------------------------------
(* Safety. *)

\* A request claimed by the stream its plugin listens to is on that stream, or
\* running, or has its answer ready, unless the plugin threw its frame away on
\* that very stream (decodeMessage, joinChunk): no other step of either side
\* between the claim and the answer drops it, and a frame thrown away is dropped
\* no longer than its stream lives.  Its caller would only see a hang.
ClaimedIsInHand ==
    \A r \in Waiting, v \in Physical :
        (attached[v] # NoGen /\ claim[r] = <<v, attached[v]>>) =>
            \/ \E i \in DOMAIN wire[v] : wire[v][i] = r
            \/ r \in busy[v] \cup answers[v] \cup discarded[v]

\* A plugin forgets an answer only when its request is settled or the VM is
\* gone: a broken connection, a refresh or a stop never loses one.
AnswerKeptUntilSettled ==
    [][\A v \in Physical : \A r \in answers[v] \ answers'[v] :
         status'[r] # "waiting" \/ phase'[v] = "gone"]_linkVars

\* What the comment on REQUEST_TIMEOUT says of the caller's plain timeout: no
\* Studio session took the request and nothing ran.
PlainTimeoutRanNothing ==
    \A r \in Requests : status[r] = "timeout" => runs[r] = <<>>

-----------------------------------------------------------------------------
(* Liveness.  Timers fire, sockets report their end, posted calls are answered *)
(* and handlers return; failures are finitely many.  No caller's timeout, no   *)
(* user's decision to start or stop a plugin is ever assumed to come.  Opens   *)
(* is strongly fair: the plugin asks for its stream in the same breath as it   *)
(* registers, so stale cleanup, thirty seconds later, cannot win every time.   *)
(* Answers are sure to be posted again only once the stream has opened         *)
(* (resumePendingResponses): a stop may have ended the retries before.         *)

Fairness ==
    /\ \A v \in Physical :
         /\ WF_linkVars(Registers(v)) /\ WF_linkVars(RefusedDuplicate(v))
         /\ SF_linkVars(Opens(v)) /\ WF_linkVars(RefusedStream(v))
         /\ WF_linkVars(Reconnects(v)) /\ WF_linkVars(SeesClose(v))
         /\ WF_linkVars(Reads(v)) /\ WF_linkVars(PeerLeft(v)) /\ WF_linkVars(Ticks(v))
         /\ \A r \in Requests :
              /\ WF_linkVars(Finishes(v, r))
              /\ WF_linkVars(PostsAnswer(v, r) /\ phase[v] = "open")
    /\ \A x \in Sessions : WF_linkVars(Ages(x))
    /\ WF_linkVars(Cleans)

FairLinkSpec == LinkSpec /\ Fairness

\* A request addressed to a registered session is started or settled in the
\* end, by no means of its own timeout, or its frame is thrown away: a claim lost
\* with a stream is released, the plugin reconnects and gets it again, or the
\* session is cleaned up.  The same holds anew of a request whose frame was
\* thrown away once the stream it came on is gone; while that stream lives, its
\* caller waits for the timeout, as the comment of decodeMessage says.
RequestsAreTaken ==
    \A r \in Requests :
        (r \in Waiting /\ \E x \in Sessions : inst[x] = target[r])
            ~> \/ r \notin Waiting \/ runs[r] # <<>>
               \/ \E v \in Physical : r \in discarded[v]

\* An answer reaches the bridge, unless its plugin is stopped or destroyed.
AnswersArrive ==
    \A v \in Physical, r \in Requests :
        (r \in answers[v]) ~> (r \notin answers[v] \/ ~Active(v))

\* A running plugin gets its event stream back, also after a predecessor that
\* died without a word and whose registration has to go first; unless another
\* running plugin of its role, which may hold its tuple, stands in the way.
PluginsConnect ==
    \A v \in Physical :
        Active(v) ~> \/ ~Active(v) \/ phase[v] = "open"
                     \/ \E u \in Physical \ {v} : Active(u) /\ Kind[u] = Kind[v]
=============================================================================
