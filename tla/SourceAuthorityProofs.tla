----------------------- MODULE SourceAuthorityProofs -----------------------
(***************************************************************************)
(* What TLAPS proves of SourceAuthority, for any number of processes,       *)
(* operations and failures: an operation is applied once or not at all, and *)
(* whoever keeps a map keeps the current one.                               *)
(***************************************************************************)
EXTENDS SourceAuthority, FiniteSetTheorems, TLAPS

-----------------------------------------------------------------------------
(* Types. *)

ProcessesTyped ==
    /\ mode \in [Procs -> {"proxy", "trying", "primary", "down"}]
    /\ intent \subseteq Procs
    /\ truth \in [Procs -> Content]
    /\ faults \in 0..MaxFaults

MemoryTyped ==
    /\ kept \in [Procs -> Map]
    /\ acked \in [Procs -> Procs \cup {None}]
    /\ pending \in [Procs -> Request \cup {None}]
    /\ ops \in [Procs -> 0..MaxOps]

CallTyped ==
    /\ queue \in [Procs -> Seq(Jobs)]
    /\ epoch \in [Procs -> Procs \cup {None}]
    /\ asked \in [Procs -> Request \cup {None}]
    /\ reply \in [Procs -> Reply \cup {None}]
    /\ \A p \in Procs : Len(queue[p]) <= MaxQueue

ServerTyped ==
    /\ sent \subseteq Request
    /\ scope \in [Procs -> Scope \cup {None}]
    /\ making \in [Procs -> Request \cup {None}]

Typed == ProcessesTyped /\ MemoryTyped /\ CallTyped /\ ServerTyped

-----------------------------------------------------------------------------
(* The inductive invariant, one process at a time. *)

Calls(p) == {m \in sent : m.from = p /\ m.kind = "call"}

\* p's call on its way, being prepared, or running.
Flight(p) == Calls(p) \cup ({making[p], Active(p)} \ {None})

\* The operation without a known outcome is the last one, made from what p keeps.
LastOperation(p) ==
    /\ kept[p].version <= ops[p]
    /\ pending[p] # None =>
         /\ pending[p].from = p /\ pending[p].kind = "call" /\ pending[p].job \in Jobs
         /\ pending[p].op = ops[p] /\ pending[p].map = kept[p] /\ kept[p].version < ops[p]

\* What p waits for is that operation, or its status; a call that waits will be
\* the next operation.
CallAsked(p) == asked[p] # None /\ asked[p].kind = "call"
AskedIsPending(p) ==
    /\ asked[p] # None => pending[p] # None /\ asked[p].op = ops[p]
    /\ CallAsked(p) => asked[p] = pending[p]
    /\ epoch[p] # None \/ asked[p] # None => queue[p] # <<>>
    /\ reply[p] # None => asked[p] # None
    /\ ops[p] + Len(queue[p]) <= IF CallAsked(p) THEN MaxOps + 1 ELSE MaxOps

\* That operation is the only call in flight, at one place.
OneInFlight(p) ==
    /\ Flight(p) \subseteq {pending[p]} \ {None}
    /\ Calls(p) # {} => making[p] = None /\ Active(p) = None
    /\ making[p] # None => scope[p] = None

\* What the primary keeps is what the last operation left.
ScopeIsCurrent(p) ==
    scope[p] # None =>
        /\ scope[p].map.content = truth[p]
        /\ scope[p].map.version <= ops[p]
        /\ scope[p].last <= ops[p]
        /\ Flight(p) # {} => scope[p].last < ops[p]

\* As long as that operation has left nothing, p keeps what the primary keeps.
Replied(p, answer) == reply[p] # None /\ reply[p].answer = answer
KeptIsCurrent(p) ==
    pending[p] = None \/ Flight(p) # {} \/ Replied(p, "not accepted") =>
        /\ kept[p].content = truth[p]
        /\ scope[p] # None => scope[p].map = kept[p]

\* An answer is final: nothing is in flight, and what was applied is told.
ReplyIsFinal(p) ==
    /\ Replied(p, "applied") \/ Replied(p, "not accepted") => Flight(p) = {}
    /\ Replied(p, "applied") =>
         /\ reply[p].map.content = truth[p]
         /\ reply[p].map.version <= ops[p]
         /\ scope[p] # None => scope[p].map = reply[p].map

Consistent(p) ==
    /\ LastOperation(p) /\ AskedIsPending(p) /\ OneInFlight(p)
    /\ ScopeIsCurrent(p) /\ KeptIsCurrent(p) /\ ReplyIsFinal(p)

\* At most one primary, which has nothing of its own to lose.
PlainPrimary ==
    /\ \A p, q \in Primary : p = q
    /\ \A p \in Primary : pending[p] = None /\ queue[p] = <<>> /\ ~kept[p].content.bound

AuthInv == Typed /\ PlainPrimary /\ \A p \in Procs : Consistent(p)

-----------------------------------------------------------------------------
LEMMA ToIsRequest ==
    ASSUME Typed, NEW q \in Procs, NEW p \in Procs, NEW kind \in {"call", "status", "release"},
           NEW what \in Jobs \cup {None}, NEW op \in 0..MaxOps, NEW e \in Procs
    PROVE  /\ To(q, p, kind, what, op, e) \in Request
           /\ To(q, p, kind, what, op, e).from = p /\ To(q, p, kind, what, op, e).kind = kind
           /\ To(q, p, kind, what, op, e).op = op /\ To(q, p, kind, what, op, e).job = what
           /\ To(q, p, kind, what, op, e).map = kept[p]
BY DEF To, Request, Typed, MemoryTyped

LEMMA ScopeIs ==
    ASSUME NEW map \in Map, NEW active \in Request \cup {None}, NEW last \in 0..MaxOps
    PROVE  [map |-> map, active |-> active, last |-> last] \in Scope
BY DEF Scope

LEMMA MapIs ==
    ASSUME NEW c \in Content, NEW n \in 0..MaxOps
    PROVE  [version |-> n, content |-> c] \in Map
BY DEF Map

LEMMA ReplyIs ==
    ASSUME NEW answer \in Answers, NEW map \in Map
    PROVE  [answer |-> answer, map |-> map] \in Reply
BY DEF Reply

\* The parts of requests, scopes and replies.
LEMMA Parts ==
    /\ \A m \in Request : /\ m.from \in Procs /\ m.map \in Map /\ m.op \in 0..MaxOps /\ m.epoch \in Procs
                          /\ m.kind \in {"call", "status", "release"} /\ m # None
    /\ \A s \in Scope : s.map \in Map /\ s.active \in Request \cup {None} /\ s.last \in 0..MaxOps /\ s # None
    /\ \A r \in Reply : r.answer \in Answers /\ r.map \in Map /\ r # None
    /\ \A map \in Map : map.version \in 0..MaxOps /\ map.content \in Content
BY NoneAssumption DEF Request, Scope, Reply, Map

LEMMA AnswerEffect ==
    ASSUME Typed, NEW m \in Request, NEW answer \in Answers, NEW map \in Map, Answer(m, answer, map)
    PROVE  /\ reply' \in [Procs -> Reply \cup {None}]
           /\ \A p \in Procs :
                \/ p = m.from /\ asked[p] = m
                   /\ reply'[p] # None /\ reply'[p].answer = answer /\ reply'[p].map = map
                \/ ~(p = m.from /\ asked[p] = m) /\ reply'[p] = reply[p]
<1>1. PICK r : r = [answer |-> answer, map |-> map]
  OBVIOUS
<1>2. m.from \in Procs /\ r \in Reply /\ r # None /\ r.answer = answer /\ r.map = map
  BY <1>1, Parts, ReplyIs
<1>3. reply' = IF asked[m.from] = m THEN [reply EXCEPT ![m.from] = r] ELSE reply
  BY <1>1 DEF Answer
<1> QED BY <1>2, <1>3 DEF Typed, CallTyped

LEMMA AnswerIsHeard ==
    ASSUME Typed, NEW m \in Request, NEW answer \in Answers, NEW map \in Map, Answer(m, answer, map),
           asked[m.from] = m
    PROVE  reply'[m.from] # None /\ reply'[m.from].answer = answer /\ reply'[m.from].map = map
BY AnswerEffect, Parts

LEMMA AnswerIsTo ==
    ASSUME Typed, NEW m \in Request, NEW answer \in Answers, NEW map \in Map, Answer(m, answer, map),
           NEW p \in Procs
    PROVE  \/ p = m.from /\ asked[p] = m /\ reply'[p] # None /\ reply'[p].answer = answer
           \/ reply'[p] = reply[p]
BY AnswerEffect

LEMMA ActiveIs ==
    ASSUME Typed, NEW p \in Procs
    PROVE  /\ Active(p) \in Request \cup {None}
           /\ scope[p] # None => scope[p] \in Scope /\ Active(p) = scope[p].active
           /\ Active(p) # None => scope[p] # None
BY Parts DEF Active, Typed, ServerTyped

LEMMA FlightIs ==
    ASSUME Typed, NEW p \in Procs
    PROVE  /\ Flight(p) \subseteq Request
           /\ making[p] # None => making[p] \in Flight(p)
           /\ Active(p) # None => Active(p) \in Flight(p)
           /\ Calls(p) \subseteq Flight(p)
BY ActiveIs DEF Flight, Calls, Typed, ServerTyped

LEMMA OutcomesAre ==
    ASSUME NEW p \in Procs, NEW what \in Jobs, NEW c \in Content
    PROVE  Outcomes(p, what, c) \subseteq Content
<1>1. /\ [c EXCEPT !.bound = TRUE] \in Content /\ [c EXCEPT !.bound = FALSE] \in Content
      /\ \A b \in BOOLEAN : [bound |-> b, tried |-> TRUE] \in Content
  BY DEF Content
<1>2. CASE what = "link"
  <2>1. Outcomes(p, what, c) = {c} \cup {[c EXCEPT !.bound = TRUE]}
    BY <1>2 DEF Outcomes
  <2> QED BY <1>1, <2>1
<1>3. CASE what = "unlink"
  <2>1. Outcomes(p, what, c) = {c} \cup {[c EXCEPT !.bound = FALSE]}
    BY <1>3 DEF Outcomes
  <2> QED BY <1>1, <2>1
<1>4. CASE what = "use"
  <2>1. Outcomes(p, what, c) \subseteq {c} \cup {[bound |-> b, tried |-> TRUE] : b \in BOOLEAN}
    BY <1>4 DEF Outcomes
  <2> QED BY <1>1, <2>1
<1> QED BY <1>2, <1>3, <1>4 DEF Jobs
LEMMA SequenceFacts ==
    ASSUME NEW s \in Seq(Jobs)
    PROVE  /\ Len(s) \in Nat
           /\ s # <<>> => Head(s) \in Jobs /\ Tail(s) \in Seq(Jobs) /\ Len(Tail(s)) = Len(s) - 1 /\ Len(s) > 0
           /\ \A what \in Jobs : /\ Append(s, what) \in Seq(Jobs) /\ Len(Append(s, what)) = Len(s) + 1
                                 /\ Append(s, what) # <<>>
OBVIOUS

LEMMA ReturnsEffect ==
    ASSUME Typed, NEW p \in Procs, Returns(p), queue[p] # <<>>
    PROVE  /\ CallTyped'
           /\ queue'[p] = Tail(queue[p]) /\ epoch'[p] = None /\ asked'[p] = None /\ reply'[p] = None
           /\ \A q \in Procs : q # p => /\ queue'[q] = queue[q] /\ epoch'[q] = epoch[q]
                                        /\ asked'[q] = asked[q] /\ reply'[q] = reply[q]
<1>1. CallTyped
  BY DEF Typed
<1>2. Tail(queue[p]) \in Seq(Jobs) /\ Len(Tail(queue[p])) <= MaxQueue
  BY <1>1, SequenceFacts, AuthorityAssumption DEF CallTyped
<1> QED BY <1>1, <1>2 DEF CallTyped, Returns

\* A call that is sent is within the bound, and so is the version its end makes.
LEMMA SendFits ==
    ASSUME Typed, NEW p \in Procs, Consistent(p), Told(p)
    PROVE  /\ queue[p] # <<>> /\ Head(queue[p]) \in Jobs
           /\ ops[p] + 1 \in 0..MaxOps
<1>1. queue[p] \in Seq(Jobs) /\ queue[p] # <<>> /\ ops[p] \in 0..MaxOps
  BY DEF Typed, CallTyped, MemoryTyped, Consistent, AskedIsPending, Told
<1>2. ops[p] + Len(queue[p]) <= MaxOps
  BY DEF Told, Consistent, AskedIsPending, CallAsked
<1>3. Len(queue[p]) \in Nat /\ Len(queue[p]) > 0 /\ Head(queue[p]) \in Jobs
  BY <1>1, SequenceFacts
<1> QED BY <1>1, <1>2, <1>3, AuthorityAssumption

LEMMA RecoverEffect ==
    ASSUME Typed, NEW p \in Procs, Recover(p)
    PROVE  \E m \in Request :
             /\ m.from = p /\ m.kind = "status" /\ m.op = pending[p].op
             /\ sent' = sent \cup {m} /\ asked' = [asked EXCEPT ![p] = m]
<1>1. PICK q \in Primary :
        LET m == To(q, p, "status", None, pending[p].op, epoch[p]) IN
        sent' = sent \cup {m} /\ asked' = [asked EXCEPT ![p] = m]
  BY DEF Recover
<1>2. epoch[p] \in Procs /\ pending[p].op \in 0..MaxOps /\ q \in Procs
  BY Parts DEF Typed, CallTyped, MemoryTyped, Recover, Told, Unresolved, Primary
<1>3. PICK m : m = To(q, p, "status", None, pending[p].op, epoch[p])
  OBVIOUS
<1>4. None \in Jobs \cup {None} /\ "status" \in {"call", "status", "release"}
  OBVIOUS
<1>5. m \in Request /\ m.from = p /\ m.kind = "status" /\ m.op = pending[p].op
  BY <1>2, <1>3, <1>4, ToIsRequest
<1> QED BY <1>1, <1>3, <1>5

LEMMA SendEffect ==
    ASSUME Typed, NEW p \in Procs, Consistent(p), Send(p)
    PROVE  /\ ops[p] + 1 \in 0..MaxOps
           /\ \E m \in Request :
                /\ m.from = p /\ m.kind = "call" /\ m.job \in Jobs /\ m.op = ops[p] + 1 /\ m.map = kept[p]
                /\ sent' = sent \cup {m} /\ asked' = [asked EXCEPT ![p] = m]
                /\ pending' = [pending EXCEPT ![p] = m] /\ ops' = [ops EXCEPT ![p] = ops[p] + 1]
<1>1. ops[p] + 1 \in 0..MaxOps /\ Head(queue[p]) \in Jobs /\ epoch[p] \in Procs
  BY SendFits DEF Send, Told, Typed, CallTyped
<1>2. ops'[p] = ops[p] + 1
  BY DEF Send, Typed, MemoryTyped
<1>3. PICK q \in Primary :
        LET m == To(q, p, "call", Head(queue[p]), ops'[p], epoch[p]) IN
        /\ sent' = sent \cup {m}
        /\ asked' = [asked EXCEPT ![p] = m]
        /\ pending' = [pending EXCEPT ![p] = m]
  BY DEF Send
<1>4. PICK m : m = To(q, p, "call", Head(queue[p]), ops[p] + 1, epoch[p])
  OBVIOUS
<1>5. /\ m \in Request /\ m.from = p /\ m.kind = "call" /\ m.job \in Jobs /\ m.op = ops[p] + 1
      /\ m.map = kept[p]
  BY <1>1, <1>4, ToIsRequest DEF Primary
<1> QED BY <1>1, <1>2, <1>3, <1>4, <1>5 DEF Send

LEMMA FinishFits ==
    ASSUME Typed, NEW p \in Procs, Consistent(p), Active(p) # None
    PROVE  /\ scope[p] \in Scope /\ scope[p] # None /\ Active(p) = scope[p].active /\ Active(p) = pending[p]
           /\ pending[p] # None /\ pending[p] \in Request /\ pending[p].job \in Jobs /\ pending[p].op = ops[p]
           /\ pending[p].from = p /\ pending[p].kind = "call"
           /\ scope[p].map = kept[p] /\ kept[p] \in Map /\ kept[p].content = truth[p]
           /\ kept[p].version + 1 \in 0..MaxOps /\ kept[p].version + 1 <= ops[p]
<1>1. scope[p] \in Scope /\ scope[p] # None /\ Active(p) = scope[p].active /\ Active(p) \in Flight(p)
  BY ActiveIs, FlightIs
<1>2. Active(p) = pending[p] /\ pending[p] # None /\ pending[p] \in Request
  BY <1>1, ActiveIs DEF Consistent, OneInFlight
<1>3. /\ scope[p].map = kept[p] /\ kept[p].content = truth[p] /\ kept[p] \in Map
  BY <1>1 DEF Consistent, KeptIsCurrent, Typed, MemoryTyped
<1>4. /\ pending[p].job \in Jobs /\ pending[p].op = ops[p] /\ kept[p].version < ops[p]
      /\ pending[p].from = p /\ pending[p].kind = "call"
  BY <1>2 DEF Consistent, LastOperation
<1>5. kept[p].version \in 0..MaxOps /\ ops[p] \in 0..MaxOps
  BY <1>3, Parts DEF Typed, MemoryTyped
<1>6. kept[p].version + 1 \in 0..MaxOps /\ kept[p].version + 1 <= ops[p]
  BY <1>4, <1>5, AuthorityAssumption
<1> QED BY <1>1, <1>2, <1>3, <1>4, <1>6

-----------------------------------------------------------------------------
(* The types are kept. *)

LEMMA ProcessesKept == AuthInv /\ [Next]_vars => ProcessesTyped'
<1> SUFFICES ASSUME AuthInv, [Next]_vars PROVE ProcessesTyped'
  OBVIOUS
<1> USE AuthorityAssumption DEF AuthInv, Typed, ProcessesTyped
<1>1. CASE UNCHANGED <<mode, intent, truth, faults>>
  BY <1>1
<1>2. ASSUME NEW p \in Procs, NEW what \in Jobs, Invoke(p, what)
      PROVE  ProcessesTyped'
  BY <1>2 DEF Invoke, server
<1>3. ASSUME NEW p \in Procs, Hear(p)
      PROVE  ProcessesTyped'
  <2>1. intent' \subseteq Procs
    BY <1>3 DEF Hear
  <2> QED BY <1>3, <2>1 DEF Hear, server
<1>4. ASSUME NEW p \in Procs, GiveUp(p) \/ Leave(p) \/ Try(p) \/ Bind(p)
      PROVE  ProcessesTyped'
  BY <1>4 DEF GiveUp, Leave, Try, Bind, memory, server
<1>5. ASSUME NEW p \in Procs, Finish(p)
      PROVE  ProcessesTyped'
  <2>1. pending[p].job \in Jobs /\ scope[p].map.content \in Content /\ scope[p].active = pending[p]
    BY <1>5, FinishFits, Parts DEF Finish
  <2>2. PICK c \in Outcomes(p, scope[p].active.job, scope[p].map.content) : truth' = [truth EXCEPT ![p] = c]
    BY <1>5 DEF Finish
  <2>3. c \in Content
    BY <2>1, <2>2, OutcomesAre
  <2> QED BY <1>5, <2>2, <2>3 DEF Finish, memory
<1>6. CASE PrimaryDies
  BY <1>6 DEF PrimaryDies, memory
<1> QED
  BY <1>1, <1>2, <1>3, <1>4, <1>5, <1>6 DEF Next, vars, memory, server, call, Ask, Recover, Send, Refused,
     Status, Release, Refuse, Begin, Created, CreationFails

LEMMA MemoryKept == AuthInv /\ [Next]_vars => MemoryTyped'
<1> SUFFICES ASSUME AuthInv, [Next]_vars PROVE MemoryTyped'
  OBVIOUS
<1>1. MemoryTyped /\ Typed
  BY DEF AuthInv, Typed
<1>2. CASE UNCHANGED <<kept, acked, pending, ops>>
  BY <1>1, <1>2 DEF MemoryTyped
<1>3. ASSUME NEW p \in Procs, Send(p)
      PROVE  MemoryTyped'
  <2>1. PICK m \in Request : pending' = [pending EXCEPT ![p] = m] /\ ops' = [ops EXCEPT ![p] = ops[p] + 1]
    BY <1>1, <1>3, SendEffect DEF AuthInv
  <2>2. ops[p] + 1 \in 0..MaxOps
    BY <1>1, <1>3, SendEffect DEF AuthInv
  <2> QED BY <1>1, <1>3, <2>1, <2>2 DEF MemoryTyped, Send
<1>4. ASSUME NEW p \in Procs, Hear(p)
      PROVE  MemoryTyped'
  <2>1. reply[p] \in Reply /\ reply[p].map \in Map /\ asked[p] \in Request /\ asked[p].epoch \in Procs
    BY <1>4, Parts DEF AuthInv, Typed, CallTyped, Hear, Consistent, AskedIsPending
  <2>2. pending' \in [Procs -> Request \cup {None}] /\ ops' = ops
    BY <1>1, <1>4 DEF Hear, MemoryTyped
  <2>3. kept' \in [Procs -> Map] /\ acked' \in [Procs -> Procs \cup {None}]
    BY <1>1, <1>4, <2>1 DEF Hear, MemoryTyped
  <2> QED BY <1>1, <2>2, <2>3 DEF MemoryTyped
<1> QED
  BY <1>2, <1>3, <1>4 DEF Next, vars, memory, server, call, Ask, Recover, Refused, Invoke, GiveUp, Leave,
     Status, Release, Refuse, Begin, Created, CreationFails, Finish, PrimaryDies, Try, Bind
LEMMA CallKept == AuthInv /\ [Next]_vars => CallTyped'
<1> SUFFICES ASSUME AuthInv, [Next]_vars PROVE CallTyped'
  OBVIOUS
<1>1. Typed /\ CallTyped /\ MemoryTyped
  BY DEF AuthInv, Typed
<1>2. CASE UNCHANGED <<queue, epoch, asked, reply>>
  BY <1>1, <1>2 DEF CallTyped
<1>3. ASSUME NEW p \in Procs, NEW what \in Jobs, Invoke(p, what)
      PROVE  CallTyped'
  <2>1. Append(queue[p], what) \in Seq(Jobs) /\ Len(Append(queue[p], what)) <= MaxQueue
    BY <1>1, <1>3, SequenceFacts, AuthorityAssumption DEF CallTyped, Invoke
  <2> QED BY <1>1, <1>3, <2>1 DEF CallTyped, Invoke
<1>4. ASSUME NEW p \in Procs, Ask(p)
      PROVE  CallTyped'
  BY <1>1, <1>4 DEF CallTyped, Ask, Primary
<1>5. ASSUME NEW p \in Procs, Recover(p) \/ Send(p)
      PROVE  CallTyped'
  <2>1. \E m \in Request : asked' = [asked EXCEPT ![p] = m]
    BY <1>1, <1>5, RecoverEffect, SendEffect DEF AuthInv
  <2> QED BY <1>1, <1>5, <2>1 DEF CallTyped, Recover, Send
<1>6. ASSUME NEW p \in Procs, Refused(p) \/ GiveUp(p)
      PROVE  CallTyped'
  <2>1. queue[p] # <<>> /\ Returns(p)
    BY <1>6 DEF Refused, GiveUp, AuthInv, Consistent, AskedIsPending
  <2> QED BY <1>1, <2>1, ReturnsEffect
<1>7. ASSUME NEW p \in Procs, Hear(p)
      PROVE  CallTyped'
  <2>1. queue[p] # <<>>
    BY <1>7 DEF Hear, AuthInv, Consistent, AskedIsPending
  <2>2. CASE Returns(p)
    BY <1>1, <2>1, <2>2, ReturnsEffect
  <2>3. CASE asked' = [asked EXCEPT ![p] = None] /\ reply' = [reply EXCEPT ![p] = None]
             /\ UNCHANGED <<queue, epoch>>
    BY <1>1, <2>3 DEF CallTyped
  <2> QED BY <1>7, <2>2, <2>3 DEF Hear
<1>8. ASSUME NEW p \in Procs, Leave(p)
      PROVE  CallTyped'
  <2>1. <<>> \in Seq(Jobs) /\ Len(<<>>) = 0
    OBVIOUS
  <2> QED BY <1>1, <1>8, <2>1, AuthorityAssumption DEF CallTyped, Leave
<1>9. CASE Status
  <2>1. PICK m \in sent : \/ Answer(m, "applied", scope[m.from].map) /\ scope[m.from] # None
                          \/ Answer(m, "not applied", m.map)
    BY <1>9 DEF Status
  <2>2. m \in Request /\ m.from \in Procs /\ m.map \in Map
    BY <1>1, Parts DEF Typed, ServerTyped
  <2>3. scope[m.from] # None => scope[m.from].map \in Map
    BY <1>1, <2>2, Parts DEF Typed, ServerTyped
  <2>4. reply' \in [Procs -> Reply \cup {None}]
    BY <1>1, <2>1, <2>2, <2>3, AnswerEffect DEF Answers
  <2> QED BY <1>1, <1>9, <2>4 DEF CallTyped, Status, call
<1>10. CASE Refuse
  <2>1. PICK m \in sent : Answer(m, "not accepted", m.map)
    BY <1>10 DEF Refuse
  <2>2. m \in Request /\ m.map \in Map
    BY <1>1, Parts DEF Typed, ServerTyped
  <2>3. reply' \in [Procs -> Reply \cup {None}]
    BY <1>1, <2>1, <2>2, AnswerEffect DEF Answers
  <2> QED BY <1>1, <1>10, <2>3 DEF CallTyped, Refuse, call
<1>11. ASSUME NEW p \in Procs, CreationFails(p)
       PROVE  CallTyped'
  <2>1. making[p] \in Request /\ making[p].map \in Map /\ Answer(making[p], "not applied", making[p].map)
    BY <1>1, <1>11, Parts DEF Typed, ServerTyped, CreationFails
  <2>2. reply' \in [Procs -> Reply \cup {None}]
    BY <1>1, <2>1, AnswerEffect DEF Answers
  <2> QED BY <1>1, <1>11, <2>2 DEF CallTyped, CreationFails, call
<1>12. ASSUME NEW p \in Procs, Finish(p)
       PROVE  CallTyped'
  <2>1. /\ scope[p].active = pending[p] /\ pending[p] \in Request /\ pending[p].job \in Jobs
        /\ scope[p].map.content \in Content /\ scope[p].map.version + 1 \in 0..MaxOps
    BY <1>1, <1>12, FinishFits, Parts DEF Finish, AuthInv
  <2>2. PICK c \in Outcomes(p, scope[p].active.job, scope[p].map.content) :
             Answer(scope[p].active, "applied", [version |-> scope[p].map.version + 1, content |-> c])
    BY <1>12 DEF Finish
  <2>3. c \in Content
    BY <2>1, <2>2, OutcomesAre
  <2>4. [version |-> scope[p].map.version + 1, content |-> c] \in Map
    BY <2>1, <2>3, MapIs
  <2>5. reply' \in [Procs -> Reply \cup {None}]
    BY <1>1, <2>1, <2>2, <2>4, AnswerEffect DEF Answers
  <2> QED BY <1>1, <1>12, <2>5 DEF CallTyped, Finish, call
<1> QED
  BY <1>2, <1>3, <1>4, <1>5, <1>6, <1>7, <1>8, <1>9, <1>10, <1>11, <1>12 DEF Next, vars, memory, server, call,
     Release, Begin, Created, PrimaryDies, Try, Bind
LEMMA ServerKept == AuthInv /\ [Next]_vars => ServerTyped'
<1> SUFFICES ASSUME AuthInv, [Next]_vars PROVE ServerTyped'
  OBVIOUS
<1>1. Typed /\ CallTyped /\ MemoryTyped /\ ServerTyped
  BY DEF AuthInv, Typed
<1>2. CASE sent' \subseteq sent /\ UNCHANGED <<scope, making>>
  BY <1>1, <1>2 DEF ServerTyped
<1>3. ASSUME NEW p \in Procs, Recover(p) \/ Send(p)
      PROVE  ServerTyped'
  <2>1. \E m \in Request : sent' = sent \cup {m}
    BY <1>1, <1>3, RecoverEffect, SendEffect DEF AuthInv
  <2> QED BY <1>1, <1>3, <2>1 DEF ServerTyped, Recover, Send, server
<1>4. ASSUME NEW p \in Procs, Leave(p)
      PROVE  ServerTyped'
  <2>1. \A q \in Primary : acked[p] # None => To(q, p, "release", None, 0, acked[p]) \in Request
    <3>1. 0 \in 0..MaxOps /\ None \in Jobs \cup {None} /\ "release" \in {"call", "status", "release"}
      BY AuthorityAssumption
    <3>2. ASSUME NEW q \in Procs, acked[p] # None
          PROVE  To(q, p, "release", None, 0, acked[p]) \in Request
      <4>1. acked[p] \in Procs
        BY <1>1, <3>2 DEF MemoryTyped
      <4> QED BY <1>1, <3>1, <4>1, ToIsRequest
    <3> QED BY <3>2 DEF Primary
  <2>2. sent' \subseteq Request
    BY <1>1, <1>4, <2>1 DEF Leave, ServerTyped
  <2> QED BY <1>1, <1>4, <2>2 DEF ServerTyped, Leave, server
<1>5. CASE Release
  BY <1>1, <1>5 DEF ServerTyped, Release
<1>6. CASE Begin
  <2>1. PICK m \in sent :
          /\ sent' = sent \ {m}
          /\ IF scope[m.from] = None
               THEN making' = [making EXCEPT ![m.from] = m] /\ UNCHANGED scope
               ELSE scope' = [scope EXCEPT ![m.from].active = m] /\ UNCHANGED making
    BY <1>6 DEF Begin
  <2>2. m \in Request /\ m.from \in Procs
    BY <1>1, Parts DEF ServerTyped
  <2>3. CASE scope[m.from] = None
    BY <1>1, <2>1, <2>2, <2>3 DEF ServerTyped
  <2>4. CASE scope[m.from] # None
    <3>1. [scope[m.from] EXCEPT !.active = m] \in Scope
      BY <1>1, <2>2, <2>4 DEF ServerTyped, Scope
    <3>2. scope' = [scope EXCEPT ![m.from] = [scope[m.from] EXCEPT !.active = m]]
      BY <2>1, <2>4
    <3> QED BY <1>1, <2>1, <2>2, <2>4, <3>1, <3>2 DEF ServerTyped
  <2> QED BY <2>3, <2>4
<1>7. ASSUME NEW p \in Procs, Created(p)
      PROVE  ServerTyped'
  <2>1. 0 \in 0..MaxOps /\ making[p] \in Request /\ making[p].map \in Map
    BY <1>1, <1>7, AuthorityAssumption, Parts DEF ServerTyped, Created
  <2>2. [map |-> making[p].map, active |-> making[p], last |-> 0] \in Scope
    BY <2>1, ScopeIs
  <2> QED BY <1>1, <1>7, <2>2 DEF ServerTyped, Created
<1>8. ASSUME NEW p \in Procs, CreationFails(p)
      PROVE  ServerTyped'
  BY <1>1, <1>8 DEF ServerTyped, CreationFails
<1>9. ASSUME NEW p \in Procs, Finish(p)
      PROVE  ServerTyped'
  <2>1. /\ scope[p].active = pending[p] /\ pending[p] \in Request /\ pending[p].job \in Jobs
        /\ scope[p].map.content \in Content /\ scope[p].map.version + 1 \in 0..MaxOps
        /\ scope[p].active.op \in 0..MaxOps
    BY <1>1, <1>9, FinishFits, Parts DEF Finish, AuthInv
  <2>2. PICK c \in Outcomes(p, scope[p].active.job, scope[p].map.content) :
             scope' = [scope EXCEPT ![p] = [map |-> [version |-> scope[p].map.version + 1, content |-> c],
                                            active |-> None, last |-> scope[p].active.op]]
    BY <1>9 DEF Finish
  <2>3. c \in Content
    BY <2>1, <2>2, OutcomesAre
  <2>4. [version |-> scope[p].map.version + 1, content |-> c] \in Map
    BY <2>1, <2>3, MapIs
  <2>5. [map |-> [version |-> scope[p].map.version + 1, content |-> c],
         active |-> None, last |-> scope[p].active.op] \in Scope
    BY <2>1, <2>4, ScopeIs
  <2> QED BY <1>1, <1>9, <2>2, <2>5 DEF ServerTyped, Finish
<1>10. CASE PrimaryDies
  BY <1>1, <1>10 DEF ServerTyped, PrimaryDies
<1> QED
  BY <1>2, <1>3, <1>4, <1>5, <1>6, <1>7, <1>8, <1>9, <1>10 DEF Next, vars, memory, server, call,
     Invoke, Ask, Refused, Hear, GiveUp, Status, Refuse, Try, Bind

LEMMA TypesKept == AuthInv /\ [Next]_vars => Typed'
BY ProcessesKept, MemoryKept, CallKept, ServerKept DEF Typed
-----------------------------------------------------------------------------
(* Primaries. *)

LEMMA PrimaryIsSingle == PlainPrimary => PromotedIsPlain
<1> SUFFICES ASSUME PlainPrimary PROVE Cardinality(Primary) <= 1
  BY DEF PlainPrimary, PromotedIsPlain
<1>1. CASE Primary = {}
  BY <1>1, FS_EmptySet
<1>2. ASSUME NEW p \in Primary
      PROVE  Cardinality(Primary) <= 1
  <2>1. Primary = {p}
    BY <1>2 DEF PlainPrimary
  <2> QED BY <2>1, FS_Singleton
<1> QED BY <1>1, <1>2

\* What a client does leaves the primaries alone.
LEMMA ClientsStep ==
    ASSUME Typed, PlainPrimary, NEW p \in Procs, Client(p), mode' = mode,
           \A q \in Procs : q # p => UNCHANGED <<pending[q], queue[q], kept[q]>>
    PROVE  PlainPrimary'
<1>1. Primary' = Primary /\ p \notin Primary
  BY DEF Primary, Client
<1> QED BY <1>1 DEF PlainPrimary, Primary

LEMMA PrimaryKept == AuthInv /\ [Next]_vars => PlainPrimary'
<1> SUFFICES ASSUME AuthInv, [Next]_vars PROVE PlainPrimary'
  OBVIOUS
<1>1. Typed /\ PlainPrimary /\ CallTyped /\ MemoryTyped /\ ProcessesTyped
  BY DEF AuthInv, Typed
<1>2. CASE UNCHANGED <<mode, pending, queue, kept>>
  BY <1>1, <1>2 DEF PlainPrimary, Primary
<1>3. ASSUME NEW p \in Procs, \/ \E what \in Jobs : Invoke(p, what)
                              \/ Send(p) \/ Refused(p) \/ Hear(p) \/ GiveUp(p)
      PROVE  PlainPrimary'
  <2>1. Client(p) /\ mode' = mode
    BY <1>3 DEF Invoke, Send, Told, Refused, Hear, GiveUp
  <2>2. \A q \in Procs : q # p => pending'[q] = pending[q]
    BY <1>1, <1>3 DEF Invoke, Send, Refused, Hear, GiveUp, MemoryTyped, memory
  <2>3. \A q \in Procs : q # p => kept'[q] = kept[q]
    BY <1>1, <1>3 DEF Invoke, Send, Refused, Hear, GiveUp, MemoryTyped, memory
  <2>4. \A q \in Procs : q # p => queue'[q] = queue[q]
    BY <1>1, <1>3 DEF Invoke, Send, Refused, Hear, GiveUp, Returns, CallTyped
  <2> QED BY <1>1, <2>1, <2>2, <2>3, <2>4, ClientsStep
<1>4. ASSUME NEW p \in Procs, Leave(p)
      PROVE  PlainPrimary'
  <2>1. p \notin Primary /\ Primary' = Primary
    BY <1>1, <1>4 DEF Leave, Client, Primary, ProcessesTyped
  <2>2. pending' = pending /\ kept' = kept /\ \A q \in Procs : q # p => queue'[q] = queue[q]
    BY <1>1, <1>4 DEF Leave, memory, CallTyped
  <2> QED BY <1>1, <2>1, <2>2 DEF PlainPrimary, Primary
<1>5. CASE PrimaryDies
  <2>1. Primary' = {}
    BY <1>1, <1>5 DEF PrimaryDies, Primary, ProcessesTyped
  <2> QED BY <2>1 DEF PlainPrimary
<1>6. ASSUME NEW p \in Procs, Try(p)
      PROVE  PlainPrimary'
  <2>1. Primary' = Primary /\ UNCHANGED <<pending, queue, kept>>
    BY <1>1, <1>6 DEF Try, Primary, ProcessesTyped, memory, call
  <2> QED BY <1>1, <2>1 DEF PlainPrimary, Primary
<1>7. ASSUME NEW p \in Procs, Bind(p)
      PROVE  PlainPrimary'
  <2>1. UNCHANGED <<pending, queue, kept>>
    BY <1>7 DEF Bind, memory, call
  <2>2. CASE Primary = {} /\ StillPlain(p)
    <3>1. Primary' = {p}
      BY <1>1, <1>7, <2>2 DEF Bind, Primary, ProcessesTyped
    <3> QED BY <2>1, <2>2, <3>1 DEF PlainPrimary, StillPlain, Plain
  <2>3. CASE ~(Primary = {} /\ StillPlain(p))
    <3>1. Primary' = Primary
      BY <1>1, <1>7, <2>3 DEF Bind, Primary, ProcessesTyped
    <3> QED BY <1>1, <2>1, <3>1 DEF PlainPrimary
  <2> QED BY <2>2, <2>3
<1> QED
  BY <1>2, <1>3, <1>4, <1>5, <1>6, <1>7 DEF Next, vars, memory, server, call, Ask, Recover, Status, Release,
     Refuse, Begin, Created, CreationFails, Finish

-----------------------------------------------------------------------------
(* The processes stay consistent. *)

\* A process is only concerned by what is its own.
Untouched(p) ==
    /\ kept'[p] = kept[p] /\ pending'[p] = pending[p] /\ ops'[p] = ops[p] /\ truth'[p] = truth[p]
    /\ queue'[p] = queue[p] /\ epoch'[p] = epoch[p] /\ asked'[p] = asked[p] /\ reply'[p] = reply[p]
    /\ scope'[p] = scope[p] /\ making'[p] = making[p] /\ Calls(p)' = Calls(p)

LEMMA UntouchedIsConsistent ==
    ASSUME NEW p \in Procs, Consistent(p), Untouched(p)
    PROVE  Consistent(p)'
<1>1. Active(p)' = Active(p)
  BY DEF Untouched, Active
<1>2. Flight(p)' = Flight(p)
  BY <1>1 DEF Untouched, Flight
<1>3. LastOperation(p)' /\ AskedIsPending(p)' /\ OneInFlight(p)'
  BY <1>1, <1>2 DEF Untouched, Consistent, LastOperation, AskedIsPending, CallAsked, OneInFlight
<1>4. ScopeIsCurrent(p)' /\ KeptIsCurrent(p)' /\ ReplyIsFinal(p)'
  BY <1>1, <1>2 DEF Untouched, Consistent, ScopeIsCurrent, KeptIsCurrent, ReplyIsFinal, Replied
<1> QED BY <1>3, <1>4 DEF Consistent
\* What a client does without sending a call or hearing an answer.
LEMMA WaitingIsConsistent ==
    ASSUME NEW p \in Procs, Consistent(p), AskedIsPending(p)',
           kept'[p] = kept[p], pending'[p] = pending[p], ops'[p] = ops[p], truth'[p] = truth[p],
           scope'[p] = scope[p], making'[p] = making[p], Calls(p)' = Calls(p),
           reply'[p] = reply[p] \/ reply'[p] = None
    PROVE  Consistent(p)'
<1>1. Active(p)' = Active(p)
  BY DEF Active
<1>2. Flight(p)' = Flight(p)
  BY <1>1 DEF Flight
<1>3. LastOperation(p)' /\ OneInFlight(p)'
  BY <1>1, <1>2 DEF Consistent, LastOperation, OneInFlight
<1>4. ScopeIsCurrent(p)' /\ KeptIsCurrent(p)' /\ ReplyIsFinal(p)'
  BY <1>1, <1>2 DEF Consistent, ScopeIsCurrent, KeptIsCurrent, ReplyIsFinal, Replied
<1> QED BY <1>3, <1>4 DEF Consistent

LEMMA BoundsAreNumbers ==
    ASSUME Typed, NEW p \in Procs
    PROVE  ops[p] \in Nat /\ ops[p] <= MaxOps /\ MaxOps \in Nat /\ queue[p] \in Seq(Jobs) /\ Len(queue[p]) \in Nat
BY AuthorityAssumption, SequenceFacts DEF Typed, MemoryTyped, CallTyped

LEMMA InvokeKeeps ==
    ASSUME AuthInv, NEW p \in Procs, NEW what \in Jobs, Invoke(p, what), NEW q \in Procs
    PROVE  Consistent(q)'
<1>1. Typed /\ Consistent(q) /\ CallTyped
  BY DEF AuthInv, Typed
<1>2. UNCHANGED <<kept, pending, ops, truth, scope, making, reply, epoch, asked, sent>>
  BY DEF Invoke, server
<1>3. Calls(q)' = Calls(q)
  BY <1>2 DEF Calls
<1>4. CASE q = p
  <2>1. queue'[p] = Append(queue[p], what) /\ ops[p] + Len(queue[p]) < MaxOps
    BY <1>1 DEF Invoke, CallTyped
  <2>2. queue'[p] # <<>> /\ Len(queue'[p]) = Len(queue[p]) + 1
    BY <1>1, <2>1, SequenceFacts, BoundsAreNumbers
  <2>3. AskedIsPending(p)'
    BY <1>1, <1>2, <1>4, <2>1, <2>2, BoundsAreNumbers DEF Consistent, AskedIsPending, CallAsked
  <2> QED BY <1>1, <1>2, <1>3, <1>4, <2>3, WaitingIsConsistent
<1>5. CASE q # p
  <2>1. queue'[q] = queue[q]
    BY <1>1, <1>5 DEF Invoke, CallTyped
  <2> QED BY <1>1, <1>2, <1>3, <2>1, UntouchedIsConsistent DEF Untouched
<1> QED BY <1>4, <1>5

LEMMA AskKeeps ==
    ASSUME AuthInv, NEW p \in Procs, Ask(p), NEW q \in Procs
    PROVE  Consistent(q)'
<1>1. Typed /\ Consistent(q) /\ CallTyped
  BY DEF AuthInv, Typed
<1>2. UNCHANGED <<kept, pending, ops, truth, scope, making, reply, queue, asked, sent>>
  BY DEF Ask, server, memory
<1>3. Calls(q)' = Calls(q)
  BY <1>2 DEF Calls
<1>4. CASE q = p
  <2>1. queue[p] # <<>>
    BY DEF Ask
  <2>2. AskedIsPending(p)'
    BY <1>1, <1>2, <1>4, <2>1 DEF Consistent, AskedIsPending, CallAsked
  <2> QED BY <1>1, <1>2, <1>3, <1>4, <2>2, WaitingIsConsistent
<1>5. CASE q # p
  <2>1. epoch'[q] = epoch[q]
    BY <1>1, <1>5 DEF Ask, CallTyped
  <2> QED BY <1>1, <1>2, <1>3, <2>1, UntouchedIsConsistent DEF Untouched
<1> QED BY <1>4, <1>5

LEMMA RecoverKeeps ==
    ASSUME AuthInv, NEW p \in Procs, Recover(p), NEW q \in Procs
    PROVE  Consistent(q)'
<1>1. Typed /\ Consistent(q) /\ Consistent(p) /\ CallTyped
  BY DEF AuthInv, Typed
<1>2. UNCHANGED <<kept, pending, ops, truth, scope, making, reply, queue, epoch>>
  BY DEF Recover, server, memory
<1>3. PICK m \in Request : /\ m.from = p /\ m.kind = "status" /\ m.op = pending[p].op
                           /\ sent' = sent \cup {m} /\ asked' = [asked EXCEPT ![p] = m]
  BY <1>1, RecoverEffect
<1>4. Calls(q)' = Calls(q)
  BY <1>3 DEF Calls
<1>5. CASE q = p
  <2>1. asked'[p] = m /\ m # None /\ pending[p] # None /\ m.op = ops[p] /\ asked[p] = None /\ epoch[p] # None
    BY <1>1, <1>3, Parts DEF CallTyped, Recover, Unresolved, Told, Consistent, LastOperation
  <2>2. ~CallAsked(p) /\ ~CallAsked(p)'
    BY <1>3, <2>1 DEF CallAsked
  <2>3. AskedIsPending(p)'
    BY <1>1, <1>2, <1>5, <2>1, <2>2 DEF Consistent, AskedIsPending
  <2> QED BY <1>1, <1>2, <1>4, <1>5, <2>3, WaitingIsConsistent
<1>6. CASE q # p
  <2>1. asked'[q] = asked[q]
    BY <1>1, <1>3, <1>6 DEF CallTyped
  <2> QED BY <1>1, <1>2, <1>4, <2>1, UntouchedIsConsistent DEF Untouched
<1> QED BY <1>5, <1>6

\* A call that is over, however it ended, makes room for the next one.
LEMMA ReturnsAsksNothing ==
    ASSUME Typed, NEW p \in Procs, Consistent(p), Returns(p), queue[p] # <<>>, ops'[p] = ops[p]
    PROVE  AskedIsPending(p)'
<1>1. queue'[p] = Tail(queue[p]) /\ epoch'[p] = None /\ asked'[p] = None /\ reply'[p] = None
  BY ReturnsEffect
<1>2. Len(queue'[p]) = Len(queue[p]) - 1
  BY <1>1, SequenceFacts, BoundsAreNumbers
<1>3. ops[p] + Len(queue[p]) <= MaxOps + 1
  BY BoundsAreNumbers DEF Consistent, AskedIsPending
<1>4. ~CallAsked(p)'
  BY <1>1 DEF CallAsked
<1> QED BY <1>1, <1>2, <1>3, <1>4, BoundsAreNumbers DEF AskedIsPending

LEMMA RefusedKeeps ==
    ASSUME AuthInv, NEW p \in Procs, Refused(p) \/ GiveUp(p), NEW q \in Procs
    PROVE  Consistent(q)'
<1>1. Typed /\ Consistent(q) /\ Consistent(p)
  BY DEF AuthInv
<1>2. UNCHANGED <<kept, pending, ops, truth, scope, making, sent>>
  BY DEF Refused, GiveUp, server, memory
<1>3. Calls(q)' = Calls(q)
  BY <1>2 DEF Calls
<1>4. Returns(p) /\ queue[p] # <<>>
  BY <1>1 DEF Refused, GiveUp, Consistent, AskedIsPending
<1>5. CASE q = p
  <2>1. reply'[p] = None
    BY <1>1, <1>4, ReturnsEffect
  <2>2. AskedIsPending(p)'
    BY <1>1, <1>2, <1>4, ReturnsAsksNothing
  <2> QED BY <1>1, <1>2, <1>3, <1>5, <2>1, <2>2, WaitingIsConsistent
<1>6. CASE q # p
  BY <1>1, <1>2, <1>3, <1>4, <1>6, ReturnsEffect, UntouchedIsConsistent DEF Untouched
<1> QED BY <1>5, <1>6

LEMMA LeaveKeeps ==
    ASSUME AuthInv, NEW p \in Procs, Leave(p), NEW q \in Procs
    PROVE  Consistent(q)'
<1>1. Typed /\ Consistent(q) /\ CallTyped
  BY DEF AuthInv, Typed
<1>2. UNCHANGED <<kept, pending, ops, truth, scope, making>>
  BY DEF Leave, server, memory
<1>3. Calls(q)' = Calls(q)
  <2>1. \A r \in Primary : To(r, p, "release", None, 0, acked[p]).kind = "release"
    BY DEF To
  <2> QED BY <2>1 DEF Leave, Calls
<1>4. CASE q = p
  <2>1. queue'[p] = <<>> /\ epoch'[p] = None /\ asked'[p] = None /\ reply'[p] = None
    BY <1>1 DEF Leave, CallTyped
  <2>2. ~CallAsked(p)' /\ Len(queue'[p]) = 0
    BY <2>1 DEF CallAsked
  <2>3. AskedIsPending(p)'
    BY <1>1, <1>2, <2>1, <2>2, BoundsAreNumbers DEF AskedIsPending
  <2> QED BY <1>1, <1>2, <1>3, <1>4, <2>1, <2>3, WaitingIsConsistent
<1>5. CASE q # p
  <2>1. queue'[q] = queue[q] /\ epoch'[q] = epoch[q] /\ asked'[q] = asked[q] /\ reply'[q] = reply[q]
    BY <1>1, <1>5 DEF Leave, CallTyped
  <2> QED BY <1>1, <1>2, <1>3, <2>1, UntouchedIsConsistent DEF Untouched
<1> QED BY <1>4, <1>5
LEMMA SendKeeps ==
    ASSUME AuthInv, NEW p \in Procs, Send(p), NEW q \in Procs
    PROVE  Consistent(q)'
<1>1. Typed /\ Consistent(q) /\ Consistent(p) /\ CallTyped /\ MemoryTyped
  BY DEF AuthInv, Typed
<1>2. UNCHANGED <<kept, truth, scope, making, reply, queue, epoch>>
  BY DEF Send, server
<1>3. PICK m \in Request :
        /\ m.from = p /\ m.kind = "call" /\ m.job \in Jobs /\ m.op = ops[p] + 1 /\ m.map = kept[p]
        /\ sent' = sent \cup {m} /\ asked' = [asked EXCEPT ![p] = m]
        /\ pending' = [pending EXCEPT ![p] = m] /\ ops' = [ops EXCEPT ![p] = ops[p] + 1]
  BY <1>1, SendEffect
<1>4. CASE q = p
  <2>1. asked'[p] = m /\ pending'[p] = m /\ ops'[p] = ops[p] + 1 /\ m # None
    BY <1>1, <1>3, Parts DEF CallTyped, MemoryTyped
  <2>2. pending[p] = None /\ asked[p] = None /\ epoch[p] # None
    BY DEF Send, Told, Unresolved
  <2>3. Flight(p) = {} /\ reply[p] = None /\ queue[p] # <<>>
    BY <1>1, <2>2 DEF Consistent, OneInFlight, AskedIsPending
  <2>4. Calls(p) = {} /\ making[p] = None /\ Active(p) = None
    BY <2>3 DEF Flight
  <2>5. Calls(p)' = {m}
    BY <1>3, <2>4 DEF Calls
  <2>6. Active(p)' = None /\ making'[p] = None /\ scope'[p] = scope[p] /\ kept'[p] = kept[p]
        /\ truth'[p] = truth[p] /\ reply'[p] = None /\ queue'[p] = queue[p] /\ epoch'[p] = epoch[p]
    BY <1>2, <2>3, <2>4 DEF Active
  <2>7. Flight(p)' = {m}
    BY <2>5, <2>6 DEF Flight
  <2>8. kept[p].version \in Nat /\ kept[p].version <= ops[p]
    BY <1>1, Parts DEF MemoryTyped, Consistent, LastOperation
  <2>9. LastOperation(p)'
    BY <1>1, <1>3, <2>1, <2>6, <2>8, BoundsAreNumbers DEF LastOperation
  <2>10. AskedIsPending(p)'
    <3>1. ops[p] + Len(queue[p]) <= MaxOps
      BY <1>1, <2>2 DEF Consistent, AskedIsPending, CallAsked
    <3>2. ops'[p] + Len(queue'[p]) <= MaxOps + 1
      BY <1>1, <2>1, <2>6, <3>1, BoundsAreNumbers
    <3> QED BY <1>3, <2>1, <2>3, <2>6, <3>2 DEF AskedIsPending, CallAsked
  <2>11. OneInFlight(p)'
    BY <2>1, <2>6, <2>7 DEF OneInFlight
  <2>12. kept[p].content = truth[p] /\ (scope[p] # None => scope[p].map = kept[p])
    BY <1>1, <2>2 DEF Consistent, KeptIsCurrent
  <2>13. ScopeIsCurrent(p)'
    <3>1. ASSUME scope[p] # None
          PROVE  scope[p].map.version <= ops[p] + 1 /\ scope[p].last <= ops[p] + 1 /\ scope[p].last < ops[p] + 1
      <4>1. scope[p].map.version <= ops[p] /\ scope[p].last <= ops[p]
        BY <1>1, <3>1 DEF Consistent, ScopeIsCurrent
      <4>2. scope[p].map.version \in Nat /\ scope[p].last \in Nat
        BY <1>1, <3>1, Parts DEF Typed, ServerTyped
      <4> QED BY <1>1, <4>1, <4>2, BoundsAreNumbers
    <3> QED BY <1>1, <2>1, <2>6, <3>1 DEF ScopeIsCurrent, Consistent
  <2>14. KeptIsCurrent(p)' /\ ReplyIsFinal(p)'
    BY <2>6, <2>12 DEF KeptIsCurrent, ReplyIsFinal, Replied
  <2> QED BY <1>4, <2>9, <2>10, <2>11, <2>13, <2>14 DEF Consistent
<1>5. CASE q # p
  <2>1. asked'[q] = asked[q] /\ pending'[q] = pending[q] /\ ops'[q] = ops[q]
    BY <1>1, <1>3, <1>5 DEF CallTyped, MemoryTyped
  <2>2. Calls(q)' = Calls(q)
    BY <1>3, <1>5 DEF Calls
  <2> QED BY <1>1, <1>2, <2>1, <2>2, UntouchedIsConsistent DEF Untouched
<1> QED BY <1>4, <1>5

LEMMA HearKeeps ==
    ASSUME AuthInv, NEW p \in Procs, Hear(p), NEW q \in Procs
    PROVE  Consistent(q)'
<1>1. Typed /\ Consistent(q) /\ Consistent(p) /\ CallTyped /\ MemoryTyped
  BY DEF AuthInv, Typed
<1>2. UNCHANGED <<truth, scope, making, ops, sent>>
  BY DEF Hear, server
<1>3. Calls(q)' = Calls(q) /\ Active(q)' = Active(q)
  BY <1>2 DEF Calls, Active
<1>4. queue[p] # <<>> /\ asked[p] # None /\ reply[p] # None
  BY <1>1 DEF Hear, Consistent, AskedIsPending
<1>5. CASE q = p
  <2>1. PICK r : r = reply[p]
    OBVIOUS
  <2>2. r \in Reply /\ r.map \in Map /\ r.answer \in Answers
    BY <1>1, <1>4, <2>1, Parts DEF CallTyped
  <2>3. /\ r.answer = "applied" => kept'[p] = r.map
        /\ r.answer # "applied" => kept'[p] = kept[p]
        /\ pending'[p] = IF Cleared(asked[p].kind, r.answer) THEN None ELSE pending[p]
    BY <1>1, <2>1 DEF Hear, MemoryTyped
  <2>4. AskedIsPending(p)' /\ reply'[p] = None
    <3>1. CASE Returns(p)
      BY <1>1, <1>2, <1>4, <3>1, ReturnsAsksNothing, ReturnsEffect
    <3>2. CASE ~Returns(p)
      <4>1. /\ asked[p].kind = "status"
            /\ asked' = [asked EXCEPT ![p] = None] /\ reply' = [reply EXCEPT ![p] = None]
            /\ UNCHANGED <<queue, epoch>>
        BY <3>2 DEF Hear
      <4>2. asked'[p] = None /\ reply'[p] = None
        BY <1>1, <4>1 DEF CallTyped
      <4>3. ~CallAsked(p) /\ ~CallAsked(p)'
        BY <4>1, <4>2 DEF CallAsked
      <4> QED BY <1>1, <1>2, <1>4, <4>1, <4>2, <4>3 DEF Consistent, AskedIsPending
    <3> QED BY <3>1, <3>2
  <2>5. Flight(p)' = Flight(p) /\ scope'[p] = scope[p] /\ truth'[p] = truth[p] /\ ops'[p] = ops[p] /\ making'[p] = making[p]
    BY <1>2, <1>3, <1>5 DEF Flight
  <2>6. r.answer = "applied" \/ r.answer = "not accepted" => Flight(p) = {}
    BY <1>1, <1>4, <2>1 DEF Consistent, ReplyIsFinal, Replied
  <2>7. LastOperation(p)'
    <3>1. r.answer = "applied" => r.map.version <= ops[p] /\ pending'[p] = None
      BY <1>1, <1>4, <2>1, <2>3 DEF Consistent, ReplyIsFinal, Replied, Cleared
    <3> QED BY <1>1, <2>3, <2>5, <3>1 DEF Consistent, LastOperation
  <2>8. OneInFlight(p)'
    <3>1. Cleared(asked[p].kind, r.answer) => Flight(p) = {}
      BY <2>6 DEF Cleared
    <3> QED BY <1>1, <1>3, <1>5, <2>3, <2>5, <3>1 DEF Consistent, OneInFlight
  <2>9. ScopeIsCurrent(p)' /\ ReplyIsFinal(p)'
    BY <1>1, <2>4, <2>5 DEF Consistent, ScopeIsCurrent, ReplyIsFinal, Replied
  <2>10. KeptIsCurrent(p)'
    <3>1. CASE r.answer = "applied"
      <4>1. r.map.content = truth[p] /\ (scope[p] # None => scope[p].map = r.map)
        BY <1>1, <1>4, <2>1, <3>1 DEF Consistent, ReplyIsFinal, Replied
      <4> QED BY <2>3, <2>5, <3>1, <4>1 DEF KeptIsCurrent
    <3>2. CASE r.answer = "not accepted"
      <4>1. kept[p].content = truth[p] /\ (scope[p] # None => scope[p].map = kept[p])
        BY <1>1, <1>4, <2>1, <3>2 DEF Consistent, KeptIsCurrent, Replied
      <4> QED BY <2>3, <2>5, <3>2, <4>1 DEF KeptIsCurrent
    <3>3. CASE r.answer = "not applied"
      <4>1. pending'[p] = pending[p] /\ kept'[p] = kept[p]
        BY <2>3, <3>3 DEF Cleared
      <4> QED BY <1>1, <2>4, <2>5, <4>1 DEF Consistent, KeptIsCurrent, Replied
    <3> QED BY <2>2, <3>1, <3>2, <3>3 DEF Answers
  <2> QED BY <1>5, <2>4, <2>7, <2>8, <2>9, <2>10 DEF Consistent
<1>6. CASE q # p
  <2>1. kept'[q] = kept[q] /\ pending'[q] = pending[q]
    BY <1>1, <1>6 DEF Hear, MemoryTyped
  <2>2. queue'[q] = queue[q] /\ epoch'[q] = epoch[q] /\ asked'[q] = asked[q] /\ reply'[q] = reply[q]
    <3>1. CASE Returns(p)
      BY <1>1, <1>4, <1>6, <3>1, ReturnsEffect
    <3>2. CASE ~Returns(p)
      BY <1>1, <1>6, <3>2 DEF Hear, CallTyped
    <3> QED BY <3>1, <3>2
  <2> QED BY <1>1, <1>2, <1>3, <2>1, <2>2, UntouchedIsConsistent DEF Untouched
<1> QED BY <1>5, <1>6
\* What is known of a call that no primary has taken yet.
LEMMA CallInFlight ==
    ASSUME Typed, NEW p \in Procs, Consistent(p), NEW m \in Calls(p)
    PROVE  /\ m = pending[p] /\ pending[p] # None /\ Calls(p) = {m} /\ Flight(p) = {m}
           /\ making[p] = None /\ Active(p) = None
           /\ m.op = ops[p] /\ m.map = kept[p] /\ kept[p].content = truth[p]
           /\ scope[p] # None => scope[p].map = kept[p] /\ scope[p].last < ops[p]
<1>1. m \in Flight(p)
  BY FlightIs
<1>2. m = pending[p] /\ pending[p] # None /\ making[p] = None /\ Active(p) = None
  BY <1>1 DEF Consistent, OneInFlight
<1>3. Calls(p) = {m} /\ Flight(p) = {m}
  BY <1>1, <1>2 DEF Consistent, OneInFlight, Flight
<1>4. m.op = ops[p] /\ m.map = kept[p]
  BY <1>2 DEF Consistent, LastOperation
<1>5. kept[p].content = truth[p] /\ (scope[p] # None => scope[p].map = kept[p])
  BY <1>1 DEF Consistent, KeptIsCurrent
<1>6. scope[p] # None => scope[p].last < ops[p]
  BY <1>1 DEF Consistent, ScopeIsCurrent
<1> QED BY <1>2, <1>3, <1>4, <1>5, <1>6

LEMMA StatusKeeps ==
    ASSUME AuthInv, Status, NEW q \in Procs
    PROVE  Consistent(q)'
<1>1. Typed /\ Consistent(q)
  BY DEF AuthInv
<1>2. UNCHANGED <<kept, pending, ops, truth, scope, making, queue, epoch, asked>>
  BY DEF Status, server, memory, call
<1>3. PICK m \in sent :
        /\ m.kind = "status" /\ sent' = sent \ {m}
        /\ IF scope[m.from] # None /\ scope[m.from].last = m.op
             THEN Answer(m, "applied", scope[m.from].map) ELSE Answer(m, "not applied", m.map)
  BY DEF Status
<1>4. m \in Request /\ m.from \in Procs /\ m.map \in Map
  BY <1>1, Parts DEF Typed, ServerTyped
<1>5. Calls(q)' = Calls(q) /\ Active(q)' = Active(q) /\ Flight(q)' = Flight(q)
  <2>1. Calls(q)' = Calls(q) /\ Active(q)' = Active(q)
    BY <1>2, <1>3 DEF Calls, Active
  <2> QED BY <1>2, <2>1 DEF Flight
<1>6. CASE q = m.from /\ asked[q] = m
  <2>1. m.op = ops[q] /\ m # None
    BY <1>1, <1>4, <1>6, Parts DEF Consistent, AskedIsPending
  <2>2. CASE scope[q] # None /\ scope[q].last = m.op
    <3>1. scope[q].map \in Map /\ scope[q].last \in Nat
      BY <1>1, <2>2, Parts DEF Typed, ServerTyped
    <3>2. Answer(m, "applied", scope[q].map) /\ "applied" \in Answers
      BY <1>3, <1>6, <2>2 DEF Answers
    <3>4. reply'[q] # None /\ reply'[q].answer = "applied" /\ reply'[q].map = scope[q].map
      BY <1>1, <1>4, <1>6, <3>1, <3>2, AnswerEffect
    <3>5. Flight(q) = {}
      BY <1>1, <2>1, <2>2, <3>1, BoundsAreNumbers DEF Consistent, ScopeIsCurrent
    <3>6. ReplyIsFinal(q)' /\ KeptIsCurrent(q)'
      BY <1>1, <1>2, <1>5, <2>2, <3>4, <3>5 DEF Consistent, ReplyIsFinal, Replied, ScopeIsCurrent, KeptIsCurrent
    <3>7. AskedIsPending(q)'
      BY <1>1, <1>2, <1>6, <2>1 DEF Consistent, AskedIsPending, CallAsked
    <3> QED BY <1>1, <1>2, <1>5, <3>6, <3>7 DEF Consistent, LastOperation, OneInFlight, ScopeIsCurrent
  <2>3. CASE ~(scope[q] # None /\ scope[q].last = m.op)
    <3>1. PICK answer \in Answers, map \in Map : answer = "not applied" /\ Answer(m, answer, map)
      BY <1>3, <1>4, <1>6, <2>3 DEF Answers
    <3>2. reply'[q].answer = "not applied"
      <4>1. asked[m.from] = m
        BY <1>6
      <4>2. reply'[m.from].answer = answer
        BY <1>1, <1>4, <3>1, <4>1, AnswerIsHeard
      <4> QED BY <1>6, <3>1, <4>2
    <3>3. ReplyIsFinal(q)' /\ KeptIsCurrent(q)'
      BY <1>1, <1>2, <1>5, <3>2 DEF Consistent, ReplyIsFinal, Replied, KeptIsCurrent
    <3>4. AskedIsPending(q)'
      BY <1>1, <1>2, <1>6, <2>1 DEF Consistent, AskedIsPending, CallAsked
    <3> QED BY <1>1, <1>2, <1>5, <3>3, <3>4 DEF Consistent, LastOperation, OneInFlight, ScopeIsCurrent
  <2> QED BY <2>2, <2>3
<1>7. CASE ~(q = m.from /\ asked[q] = m)
  <2>1. scope[m.from] # None => scope[m.from].map \in Map
    BY <1>1, <1>4, Parts DEF Typed, ServerTyped
  <2>2. \E answer \in Answers, map \in Map : Answer(m, answer, map)
    BY <1>3, <1>4, <2>1 DEF Answers
  <2>3. reply'[q] = reply[q]
    BY <1>1, <1>4, <1>7, <2>2, AnswerEffect
  <2> QED BY <1>1, <1>2, <1>5, <2>3, UntouchedIsConsistent DEF Untouched
<1> QED BY <1>6, <1>7

LEMMA ReleaseKeeps ==
    ASSUME AuthInv, Release, NEW q \in Procs
    PROVE  Consistent(q)'
<1>1. Typed /\ Consistent(q) /\ ServerTyped
  BY DEF AuthInv, Typed
<1>2. UNCHANGED <<kept, pending, ops, truth, making, queue, epoch, asked, reply>>
  BY DEF Release, memory, call
<1>3. PICK m \in sent :
        /\ m.kind = "release" /\ sent' = sent \ {m}
        /\ scope' = IF m.epoch = m.to /\ Active(m.from) = None
                      THEN [scope EXCEPT ![m.from] = None] ELSE scope
  BY DEF Release
<1>4. Calls(q)' = Calls(q)
  BY <1>3 DEF Calls
<1>5. CASE scope'[q] = scope[q]
  BY <1>1, <1>2, <1>4, <1>5, UntouchedIsConsistent DEF Untouched
<1>6. CASE scope'[q] # scope[q]
  <2>1. scope'[q] = None /\ Active(q) = None
    BY <1>1, <1>3, <1>6 DEF ServerTyped
  <2>2. Active(q)' = None
    BY <2>1 DEF Active
  <2>3. Flight(q)' = Flight(q)
    BY <1>2, <1>4, <2>1, <2>2 DEF Flight
  <2> QED
    BY <1>1, <1>2, <1>4, <2>1, <2>2, <2>3 DEF Consistent, LastOperation, AskedIsPending, CallAsked,
       OneInFlight, ScopeIsCurrent, KeptIsCurrent, ReplyIsFinal, Replied
<1> QED BY <1>5, <1>6

LEMMA RefuseKeeps ==
    ASSUME AuthInv, Refuse, NEW q \in Procs
    PROVE  Consistent(q)'
<1>1. Typed /\ Consistent(q) /\ ServerTyped
  BY DEF AuthInv, Typed
<1>2. UNCHANGED <<kept, pending, ops, truth, scope, making, queue, epoch, asked>>
  BY DEF Refuse, server, memory, call
<1>3. PICK m \in sent : m.kind = "call" /\ sent' = sent \ {m} /\ Answer(m, "not accepted", m.map)
  BY DEF Refuse
<1>4. m \in Request /\ m.from \in Procs /\ m.map \in Map
  BY <1>1, Parts DEF Typed, ServerTyped
<1>5. Active(q)' = Active(q)
  BY <1>2 DEF Active
<1>6. \/ q = m.from /\ asked[q] = m /\ reply'[q] # None /\ reply'[q].answer = "not accepted"
      \/ reply'[q] = reply[q]
  <2>1. PICK answer \in Answers, map \in Map : answer = "not accepted" /\ Answer(m, answer, map)
    BY <1>3, <1>4 DEF Answers
  <2> QED BY <1>1, <1>4, <2>1, AnswerEffect
<1>7. CASE q = m.from
  <2>1. m \in Calls(q)
    BY <1>3, <1>7 DEF Calls
  <2>2. /\ m = pending[q] /\ pending[q] # None /\ Calls(q) = {m} /\ making[q] = None /\ Active(q) = None
        /\ kept[q].content = truth[q] /\ (scope[q] # None => scope[q].map = kept[q])
    BY <1>1, <2>1, CallInFlight
  <2>3. Calls(q)' = {}
    BY <1>3, <2>2 DEF Calls
  <2>4. Flight(q)' = {}
    BY <1>2, <1>5, <2>2, <2>3 DEF Flight
  <2>5. reply[q] = None \/ reply[q].answer # "applied"
    BY <1>1, <2>1, FlightIs DEF Consistent, ReplyIsFinal, Replied
  <2>6. reply'[q] = reply[q] \/ (asked[q] # None /\ reply'[q].answer = "not accepted")
    BY <1>6, <2>2
  <2>7. KeptIsCurrent(q)'
    BY <1>2, <2>2 DEF KeptIsCurrent
  <2>8. ReplyIsFinal(q)'
    BY <2>4, <2>5, <2>6 DEF ReplyIsFinal, Replied
  <2>9. LastOperation(q)' /\ AskedIsPending(q)' /\ OneInFlight(q)' /\ ScopeIsCurrent(q)'
    BY <1>1, <1>2, <1>5, <2>3, <2>4, <2>6 DEF Consistent, LastOperation, AskedIsPending, CallAsked, OneInFlight,
       ScopeIsCurrent
  <2> QED BY <2>7, <2>8, <2>9 DEF Consistent
<1>8. CASE q # m.from
  <2>1. Calls(q)' = Calls(q)
    BY <1>3, <1>8 DEF Calls
  <2>2. reply'[q] = reply[q]
    BY <1>6, <1>8
  <2> QED BY <1>1, <1>2, <2>1, <2>2, UntouchedIsConsistent DEF Untouched
<1> QED BY <1>7, <1>8
LEMMA BeginKeeps ==
    ASSUME AuthInv, Begin, NEW q \in Procs
    PROVE  Consistent(q)'
<1>1. Typed /\ Consistent(q) /\ ServerTyped
  BY DEF AuthInv, Typed
<1>2. UNCHANGED <<kept, pending, ops, truth, queue, epoch, asked, reply>>
  BY DEF Begin, memory, call
<1>3. PICK m \in sent :
        /\ m.kind = "call" /\ sent' = sent \ {m}
        /\ IF scope[m.from] = None
             THEN making' = [making EXCEPT ![m.from] = m] /\ UNCHANGED scope
             ELSE scope' = [scope EXCEPT ![m.from].active = m] /\ UNCHANGED making
  BY DEF Begin
<1>4. m \in Request /\ m.from \in Procs /\ m # None
  BY <1>1, Parts DEF ServerTyped
<1>5. CASE q = m.from
  <2>1. m \in Calls(q)
    BY <1>3, <1>5 DEF Calls
  <2>2. /\ m = pending[q] /\ pending[q] # None /\ Calls(q) = {m} /\ making[q] = None /\ Active(q) = None
        /\ kept[q].content = truth[q] /\ Flight(q) = {m}
        /\ scope[q] # None => scope[q].map = kept[q] /\ scope[q].last < ops[q]
    BY <1>1, <2>1, CallInFlight
  <2>3. Calls(q)' = {}
    BY <1>3, <2>2 DEF Calls
  <2>4. LastOperation(q)' /\ AskedIsPending(q)'
    BY <1>1, <1>2 DEF Consistent, LastOperation, AskedIsPending, CallAsked
  <2>5. ~Replied(q, "applied")' /\ ~Replied(q, "not accepted")'
    BY <1>1, <1>2, <2>2 DEF Consistent, ReplyIsFinal, Replied
  <2>6. CASE scope[q] = None
    <3>1. making'[q] = m /\ scope'[q] = None
      BY <1>1, <1>3, <1>5, <2>6 DEF ServerTyped
    <3>2. Active(q)' = None
      BY <3>1 DEF Active
    <3>3. Flight(q)' = {m}
      BY <1>4, <2>3, <3>1, <3>2 DEF Flight
    <3>4. OneInFlight(q)'
      BY <1>2, <2>2, <2>3, <3>1, <3>3 DEF OneInFlight
    <3> QED BY <1>2, <2>2, <2>4, <2>5, <3>1, <3>4 DEF Consistent, ScopeIsCurrent, KeptIsCurrent, ReplyIsFinal
  <2>7. CASE scope[q] # None
    <3>1. PICK s : s = [scope[q] EXCEPT !.active = m]
      OBVIOUS
    <3>2. scope[q] \in Scope
      BY <1>1, <2>7 DEF ServerTyped
    <3>3. s \in Scope /\ s.active = m /\ s.map = scope[q].map /\ s.last = scope[q].last
      BY <1>4, <3>1, <3>2 DEF Scope
    <3>4. scope' = [scope EXCEPT ![q] = s] /\ making' = making
      BY <1>3, <1>5, <2>7, <3>1
    <3>5. scope'[q] = s /\ s # None /\ making'[q] = None
      BY <1>1, <2>2, <3>3, <3>4, Parts DEF ServerTyped
    <3>6. Active(q)' = m
      BY <3>3, <3>5 DEF Active
    <3>7. Flight(q)' = {m}
      BY <1>4, <2>3, <3>5, <3>6 DEF Flight
    <3>8. OneInFlight(q)'
      BY <1>2, <2>2, <2>3, <3>5, <3>7 DEF OneInFlight
    <3>9. ScopeIsCurrent(q)' /\ KeptIsCurrent(q)'
      BY <1>1, <1>2, <2>2, <2>7, <3>3, <3>5 DEF Consistent, ScopeIsCurrent, KeptIsCurrent
    <3> QED BY <2>4, <2>5, <3>8, <3>9 DEF Consistent, ReplyIsFinal
  <2> QED BY <2>6, <2>7
<1>6. CASE q # m.from
  <2>1. Calls(q)' = Calls(q)
    BY <1>3, <1>6 DEF Calls
  <2>2. scope'[q] = scope[q] /\ making'[q] = making[q]
    BY <1>1, <1>3, <1>6 DEF ServerTyped
  <2> QED BY <1>1, <1>2, <2>1, <2>2, UntouchedIsConsistent DEF Untouched
<1> QED BY <1>5, <1>6

\* What is known of a request for which a scope is being made.
LEMMA MakingInFlight ==
    ASSUME Typed, NEW p \in Procs, Consistent(p), making[p] # None
    PROVE  /\ making[p] = pending[p] /\ making[p] \in Request /\ making[p].from = p
           /\ scope[p] = None /\ Calls(p) = {} /\ Active(p) = None
           /\ making[p].map = kept[p] /\ kept[p].content = truth[p] /\ kept[p].version <= ops[p]
           /\ ~Replied(p, "applied") /\ ~Replied(p, "not accepted")
           /\ 0 < ops[p]
<1>1. making[p] \in Flight(p) /\ making[p] \in Request
  BY FlightIs DEF Typed, ServerTyped
<1>2. making[p] = pending[p] /\ scope[p] = None /\ Calls(p) = {}
  BY <1>1 DEF Consistent, OneInFlight
<1>3. Active(p) = None
  BY <1>2 DEF Active
<1>4. making[p].from = p /\ making[p].map = kept[p] /\ kept[p].version < ops[p] /\ kept[p].version <= ops[p]
  BY <1>2 DEF Consistent, LastOperation
<1>5. kept[p].version \in Nat
  BY Parts DEF Typed, MemoryTyped
<1>6. 0 < ops[p]
  BY <1>4, <1>5, BoundsAreNumbers
<1>7. kept[p].content = truth[p] /\ ~Replied(p, "applied") /\ ~Replied(p, "not accepted")
  BY <1>1 DEF Consistent, KeptIsCurrent, ReplyIsFinal
<1> QED BY <1>1, <1>2, <1>3, <1>4, <1>6, <1>7

LEMMA CreatedKeeps ==
    ASSUME AuthInv, NEW p \in Procs, Created(p), NEW q \in Procs
    PROVE  Consistent(q)'
<1>1. Typed /\ Consistent(q) /\ ServerTyped
  BY DEF AuthInv, Typed
<1>2. UNCHANGED <<kept, pending, ops, truth, queue, epoch, asked, reply, sent>>
  BY DEF Created, memory, call
<1>3. Calls(q)' = Calls(q)
  BY <1>2 DEF Calls
<1>4. CASE q = p
  <2>1. PICK m : m = making[p]
    OBVIOUS
  <2>2. /\ m = pending[p] /\ m \in Request /\ m # None /\ scope[p] = None /\ Calls(p) = {} /\ Active(p) = None
        /\ m.map = kept[p] /\ kept[p].content = truth[p] /\ kept[p].version <= ops[p] /\ 0 < ops[p]
        /\ ~Replied(p, "applied") /\ ~Replied(p, "not accepted")
    BY <1>1, <1>4, <2>1, MakingInFlight DEF Created
  <2>3. PICK s : s = [map |-> m.map, active |-> m, last |-> 0]
    OBVIOUS
  <2>4. m.map \in Map /\ m \in Request \cup {None} /\ 0 \in 0..MaxOps
    <3>1. m.map \in Map
      BY <2>2, Parts
    <3>2. 0 \in 0..MaxOps
      BY AuthorityAssumption
    <3> QED BY <2>2, <3>1, <3>2
  <2>5. s \in Scope /\ s # None /\ s.map = kept[p] /\ s.active = m /\ s.last = 0
    BY <2>2, <2>3, <2>4, ScopeIs, Parts
  <2>6. scope' = [scope EXCEPT ![p] = s] /\ making' = [making EXCEPT ![p] = None]
    BY <2>1, <2>3 DEF Created
  <2>7. scope'[p] = s /\ making'[p] = None
    BY <1>1, <2>6 DEF ServerTyped
  <2>8. Active(p)' = m
    BY <2>5, <2>7 DEF Active
  <2>9. Flight(p)' = {m}
    BY <1>3, <1>4, <2>2, <2>7, <2>8 DEF Flight
  <2>10. LastOperation(p)' /\ AskedIsPending(p)'
    BY <1>1, <1>2, <1>4 DEF Consistent, LastOperation, AskedIsPending, CallAsked
  <2>11. OneInFlight(p)'
    BY <1>2, <1>3, <1>4, <2>2, <2>7, <2>9 DEF OneInFlight
  <2>12. ScopeIsCurrent(p)'
    <3>1. 0 < ops[p] /\ 0 <= ops[p]
      <4>1. PICK n : n = ops[p]
        OBVIOUS
      <4>2. n \in Nat
        BY <1>1, <4>1, BoundsAreNumbers
      <4>3. 0 < n
        BY <2>2, <4>1
      <4> QED BY <4>1, <4>2, <4>3
    <3>2. s.map.content = truth[p] /\ s.map.version <= ops[p] /\ s.last <= ops[p] /\ s.last < ops[p]
      BY <2>2, <2>5, <3>1
    <3> QED BY <1>2, <2>7, <3>2 DEF ScopeIsCurrent
  <2>13. KeptIsCurrent(p)' /\ ReplyIsFinal(p)'
    BY <1>2, <2>2, <2>5, <2>7 DEF KeptIsCurrent, ReplyIsFinal, Replied
  <2> QED BY <1>4, <2>10, <2>11, <2>12, <2>13 DEF Consistent
<1>5. CASE q # p
  <2>1. scope'[q] = scope[q] /\ making'[q] = making[q]
    BY <1>1, <1>5 DEF Created, ServerTyped
  <2> QED BY <1>1, <1>2, <1>3, <2>1, UntouchedIsConsistent DEF Untouched
<1> QED BY <1>4, <1>5

LEMMA CreationFailsKeeps ==
    ASSUME AuthInv, NEW p \in Procs, CreationFails(p), NEW q \in Procs
    PROVE  Consistent(q)'
<1>1. Typed /\ Consistent(q) /\ Consistent(p) /\ ServerTyped
  BY DEF AuthInv, Typed
<1>2. UNCHANGED <<kept, pending, ops, truth, queue, epoch, asked, scope, sent>>
  BY DEF CreationFails, memory, call
<1>3. Calls(q)' = Calls(q) /\ Active(q)' = Active(q)
  BY <1>2 DEF Calls, Active
<1>4. PICK m : m = making[p]
  OBVIOUS
<1>5. /\ m = pending[p] /\ m \in Request /\ m # None /\ m.from = p /\ scope[p] = None
      /\ Calls(p) = {} /\ Active(p) = None
      /\ ~Replied(p, "applied") /\ ~Replied(p, "not accepted")
  BY <1>1, <1>4, MakingInFlight DEF CreationFails
<1>6. PICK answer \in Answers, map \in Map : answer = "not applied" /\ Answer(m, answer, map)
  BY <1>4, <1>5, Parts DEF CreationFails, Answers
<1>7. \/ q = m.from /\ asked[q] = m /\ reply'[q] # None /\ reply'[q].answer = answer
      \/ reply'[q] = reply[q]
  <2>1. Typed /\ m \in Request
    BY <1>1, <1>5
  <2> QED BY <2>1, <1>6, AnswerIsTo
<1>8. CASE q = p
  <2>1. making'[p] = None
    BY <1>1 DEF CreationFails, ServerTyped
  <2>2. Flight(p)' = {}
    BY <1>3, <1>5, <1>8, <2>1 DEF Flight
  <2>3. \/ reply'[p] = reply[p]
        \/ asked[p] # None /\ reply'[p].answer = "not applied"
    BY <1>5, <1>6, <1>7, <1>8
  <2>4. ~Replied(p, "applied")' /\ ~Replied(p, "not accepted")'
    BY <1>5, <2>3 DEF Replied
  <2>5. LastOperation(p)' /\ AskedIsPending(p)'
    BY <1>1, <1>2, <1>8, <2>3 DEF Consistent, LastOperation, AskedIsPending, CallAsked
  <2>6. OneInFlight(p)' /\ ScopeIsCurrent(p)' /\ KeptIsCurrent(p)' /\ ReplyIsFinal(p)'
    BY <1>2, <1>3, <1>5, <1>8, <2>1, <2>2, <2>4 DEF OneInFlight, ScopeIsCurrent, KeptIsCurrent, ReplyIsFinal
  <2> QED BY <1>8, <2>5, <2>6 DEF Consistent
<1>9. CASE q # p
  <2>1. making'[q] = making[q] /\ reply'[q] = reply[q]
    BY <1>1, <1>5, <1>7, <1>9 DEF CreationFails, ServerTyped
  <2> QED BY <1>1, <1>2, <1>3, <2>1, UntouchedIsConsistent DEF Untouched
<1> QED BY <1>8, <1>9
LEMMA FinishKeeps ==
    ASSUME AuthInv, NEW p \in Procs, Finish(p), NEW q \in Procs
    PROVE  Consistent(q)'
<1>1. Typed /\ Consistent(q) /\ Consistent(p) /\ ServerTyped /\ ProcessesTyped
  BY DEF AuthInv, Typed
<1>2. UNCHANGED <<kept, pending, ops, queue, epoch, asked, making, sent>>
  BY DEF Finish, memory, call
<1>3. Calls(q)' = Calls(q)
  BY <1>2 DEF Calls
<1>4. PICK m : m = Active(p)
  OBVIOUS
<1>5. /\ scope[p] \in Scope /\ scope[p] # None /\ m = scope[p].active /\ m = pending[p]
      /\ m # None /\ m \in Request /\ m.job \in Jobs /\ m.op = ops[p] /\ m.from = p
      /\ scope[p].map = kept[p] /\ kept[p] \in Map
      /\ kept[p].version + 1 \in 0..MaxOps /\ kept[p].version + 1 <= ops[p]
  BY <1>1, <1>4, FinishFits DEF Finish
<1>6. m \in Flight(p)
  BY <1>1, <1>4, <1>5, FlightIs
<1>7. Calls(p) = {} /\ making[p] = None /\ ~Replied(p, "applied") /\ ~Replied(p, "not accepted")
  BY <1>1, <1>4, <1>5, <1>6 DEF Consistent, OneInFlight, ReplyIsFinal
<1>8. PICK c \in Outcomes(p, m.job, kept[p].content) :
        LET map == [version |-> kept[p].version + 1, content |-> c] IN
        /\ scope' = [scope EXCEPT ![p] = [map |-> map, active |-> None, last |-> m.op]]
        /\ truth' = [truth EXCEPT ![p] = c]
        /\ Answer(m, "applied", map)
  <2>1. PICK c \in Outcomes(p, scope[p].active.job, scope[p].map.content) :
          LET map == [version |-> scope[p].map.version + 1, content |-> c] IN
          /\ scope' = [scope EXCEPT ![p] = [map |-> map, active |-> None, last |-> scope[p].active.op]]
          /\ truth' = [truth EXCEPT ![p] = c]
          /\ Answer(scope[p].active, "applied", map)
    BY Zenon DEF Finish
  <2>2. scope[p].active = m /\ scope[p].map = kept[p]
    BY <1>5
  <2> QED BY <2>1, <2>2, Zenon
<1>9. PICK map : map = [version |-> kept[p].version + 1, content |-> c]
  OBVIOUS
<1>10. c \in Content /\ map \in Map /\ map.version = kept[p].version + 1 /\ map.content = c
  <2>1. c \in Content
    BY <1>5, <1>8, OutcomesAre, Parts
  <2> QED BY <1>5, <1>9, <2>1, MapIs
<1>11. PICK s : s = [map |-> map, active |-> None, last |-> m.op]
  OBVIOUS
<1>12. s \in Scope /\ s # None /\ s.map = map /\ s.active = None /\ s.last = ops[p]
  <2>1. m.op \in 0..MaxOps /\ None \in Request \cup {None}
    BY <1>5, Parts
  <2> QED BY <1>5, <1>10, <1>11, <2>1, ScopeIs, Parts
<1>13. scope' = [scope EXCEPT ![p] = s] /\ truth' = [truth EXCEPT ![p] = c]
  BY <1>8, <1>9, <1>11
<1>14. PICK answer \in Answers : answer = "applied" /\ Answer(m, answer, map)
  BY <1>8, <1>9 DEF Answers
<1>15. CASE q = p
  <2>1. scope'[p] = s /\ truth'[p] = c /\ making'[p] = None
    BY <1>1, <1>2, <1>7, <1>13 DEF ServerTyped, ProcessesTyped
  <2>2. Active(p)' = None
    BY <1>12, <2>1 DEF Active
  <2>3. Flight(p)' = {}
    BY <1>3, <1>7, <1>15, <2>1, <2>2 DEF Flight
  <2>4. \/ reply'[p] # None /\ reply'[p].answer = "applied" /\ reply'[p].map = map /\ asked[p] # None
        \/ reply'[p] = reply[p]
    <3>1. CASE asked[p] = m
      <4>1. asked[m.from] = m
        BY <1>5, <3>1
      <4>2. reply'[m.from] # None /\ reply'[m.from].answer = answer /\ reply'[m.from].map = map
        BY <1>1, <1>5, <1>10, <1>14, <4>1, AnswerIsHeard
      <4> QED BY <1>5, <1>14, <3>1, <4>2
    <3>2. CASE asked[p] # m
      <4>1. m \in Request /\ Typed
        BY <1>1, <1>5
      <4> QED BY <1>10, <1>14, <3>2, <4>1, AnswerIsTo
    <3> QED BY <3>1, <3>2
  <2>5. ~Replied(p, "not accepted")'
    BY <1>7, <2>4 DEF Replied
  <2>6. LastOperation(p)' /\ AskedIsPending(p)'
    BY <1>1, <1>2, <1>15, <2>4 DEF Consistent, LastOperation, AskedIsPending, CallAsked
  <2>7. OneInFlight(p)'
    BY <1>3, <1>7, <1>15, <2>1, <2>3 DEF OneInFlight
  <2>8. map.version <= ops[p] /\ ops[p] <= ops[p]
    BY <1>1, <1>5, <1>10, BoundsAreNumbers
  <2>9. ScopeIsCurrent(p)' /\ KeptIsCurrent(p)'
    BY <1>2, <1>5, <1>10, <1>12, <2>1, <2>3, <2>5, <2>8 DEF ScopeIsCurrent, KeptIsCurrent
  <2>10. ReplyIsFinal(p)'
    <3>1. ASSUME Replied(p, "applied")'
          PROVE  reply'[p].map = map
      BY <1>7, <2>4, <3>1 DEF Replied
    <3> QED BY <1>2, <1>10, <1>12, <2>1, <2>3, <2>8, <3>1 DEF ReplyIsFinal
  <2> QED BY <1>15, <2>6, <2>7, <2>9, <2>10 DEF Consistent
<1>16. CASE q # p
  <2>1. scope'[q] = scope[q] /\ truth'[q] = truth[q]
    BY <1>1, <1>13, <1>16 DEF ServerTyped, ProcessesTyped
  <2>2. reply'[q] = reply[q]
    <3>1. m \in Request /\ Typed /\ q # m.from
      BY <1>1, <1>5, <1>16
    <3> QED BY <1>10, <1>14, <3>1, AnswerIsTo
  <2> QED BY <1>1, <1>2, <1>3, <2>1, <2>2, UntouchedIsConsistent DEF Untouched
<1> QED BY <1>15, <1>16

LEMMA PrimaryDiesKeeps ==
    ASSUME AuthInv, PrimaryDies, NEW q \in Procs
    PROVE  Consistent(q)'
<1>1. Consistent(q)
  BY DEF AuthInv
<1>2. UNCHANGED <<kept, pending, ops, truth, queue, epoch, asked, reply>>
  BY DEF PrimaryDies, memory, call
<1>3. Calls(q)' = {} /\ making'[q] = None /\ scope'[q] = None
  BY DEF PrimaryDies, Calls
<1>4. Active(q)' = None
  BY <1>3 DEF Active
<1>5. Flight(q)' = {}
  BY <1>3, <1>4 DEF Flight
<1>6. LastOperation(q)' /\ AskedIsPending(q)' /\ OneInFlight(q)'
  BY <1>1, <1>2, <1>3, <1>5 DEF Consistent, LastOperation, AskedIsPending, CallAsked, OneInFlight
<1>7. ScopeIsCurrent(q)' /\ KeptIsCurrent(q)' /\ ReplyIsFinal(q)'
  BY <1>1, <1>2, <1>3, <1>5 DEF Consistent, ScopeIsCurrent, KeptIsCurrent, ReplyIsFinal, Replied
<1> QED BY <1>6, <1>7 DEF Consistent

LEMMA ConsistencyKept == AuthInv /\ [Next]_vars => \A q \in Procs : Consistent(q)'
<1> SUFFICES ASSUME AuthInv, [Next]_vars, NEW q \in Procs PROVE Consistent(q)'
  OBVIOUS
<1>1. CASE UNCHANGED <<memory, call, reply, sent, server, ops>>
  <2>1. Consistent(q)
    BY DEF AuthInv
  <2> QED BY <1>1, <2>1, UntouchedIsConsistent DEF Untouched, Calls, memory, call, server
<1>2. ASSUME NEW p \in Procs, Try(p) \/ Bind(p)
      PROVE  UNCHANGED <<memory, call, reply, sent, server, ops>>
  BY <1>2 DEF Try, Bind
<1> QED
  BY <1>1, <1>2, InvokeKeeps, AskKeeps, RecoverKeeps, SendKeeps, RefusedKeeps, HearKeeps, LeaveKeeps,
     StatusKeeps, ReleaseKeeps, RefuseKeeps, BeginKeeps, CreatedKeeps, CreationFailsKeeps, FinishKeeps,
     PrimaryDiesKeeps DEF Next, vars

-----------------------------------------------------------------------------
(* The theorems. *)

LEMMA AuthInvInit == Init => AuthInv
<1> SUFFICES ASSUME Init PROVE AuthInv
  OBVIOUS
<1>1. PICK p \in Procs : mode = [q \in Procs |-> IF q = p THEN "primary" ELSE "proxy"]
  BY DEF Init
<1>2. PICK plain : plain = [bound |-> FALSE, tried |-> FALSE]
  OBVIOUS
<1>3. plain \in Content /\ ~plain.bound
  BY <1>2 DEF Content
<1>4. PICK map : map = [version |-> 0, content |-> plain]
  OBVIOUS
<1>5. 0 \in 0..MaxOps /\ 0 \in 0..MaxFaults
  BY AuthorityAssumption
<1>6. map \in Map /\ map.version = 0 /\ map.content = plain
  BY <1>3, <1>4, <1>5, MapIs
<1>7. truth = [q \in Procs |-> plain] /\ kept = [q \in Procs |-> map]
  BY <1>2, <1>4 DEF Init
<1>8. <<>> \in Seq(Jobs) /\ Len(<<>>) = 0
  OBVIOUS
<1>9. Typed
  <2>1. ProcessesTyped
    <3>1. mode \in [Procs -> {"proxy", "trying", "primary", "down"}]
      BY <1>1
    <3>2. intent \subseteq Procs
      BY AuthorityAssumption DEF Init
    <3>3. truth \in [Procs -> Content]
      BY <1>3, <1>7
    <3>4. faults \in 0..MaxFaults
      BY <1>5 DEF Init
    <3> QED BY <3>1, <3>2, <3>3, <3>4 DEF ProcessesTyped
  <2>2. MemoryTyped
    BY <1>5, <1>6, <1>7 DEF Init, MemoryTyped
  <2>3. CallTyped
    BY <1>8, AuthorityAssumption DEF Init, CallTyped
  <2>4. ServerTyped
    BY DEF Init, ServerTyped
  <2> QED BY <2>1, <2>2, <2>3, <2>4 DEF Typed
<1>10. PlainPrimary
  BY <1>1, <1>3, <1>6, <1>7 DEF Init, Primary, PlainPrimary
<1>11. ASSUME NEW q \in Procs
       PROVE  Consistent(q)
  <2>1. /\ kept[q] = map /\ truth[q] = plain /\ ops[q] = 0 /\ queue[q] = <<>>
        /\ pending[q] = None /\ epoch[q] = None /\ asked[q] = None /\ reply[q] = None
        /\ scope[q] = None /\ making[q] = None /\ Calls(q) = {}
    BY <1>7 DEF Init, Calls
  <2>2. Active(q) = None
    BY <2>1 DEF Active
  <2>3. Flight(q) = {}
    BY <2>1, <2>2 DEF Flight
  <2>4. LastOperation(q) /\ OneInFlight(q)
    BY <1>6, <2>1, <2>3 DEF LastOperation, OneInFlight
  <2>5. AskedIsPending(q)
    BY <1>8, <2>1, AuthorityAssumption DEF AskedIsPending, CallAsked
  <2>6. ScopeIsCurrent(q) /\ KeptIsCurrent(q) /\ ReplyIsFinal(q)
    BY <1>6, <2>1, <2>3 DEF ScopeIsCurrent, KeptIsCurrent, ReplyIsFinal, Replied
  <2> QED BY <2>4, <2>5, <2>6 DEF Consistent
<1> QED BY <1>9, <1>10, <1>11 DEF AuthInv

LEMMA AuthInvKept == AuthInv /\ [Next]_vars => AuthInv'
BY TypesKept, PrimaryKept, ConsistencyKept DEF AuthInv

LEMMA AuthInvHolds == Spec => []AuthInv
BY AuthInvInit, AuthInvKept, PTL DEF Spec

\* Every process, its memory, its calls and the primary's memory are well formed;
\* in particular the numbers of operations and the versions of maps stay within
\* what the client has asked for.
THEOREM AuthorityTypes == Spec => []AuthTypeOK
<1>1. AuthInv => AuthTypeOK
  <2> SUFFICES ASSUME AuthInv PROVE AuthTypeOK
    OBVIOUS
  <2>1. \A p \in Procs : (queue[p] = <<>> => asked[p] = None) /\ (reply[p] # None => asked[p] # None)
    BY DEF AuthInv, Consistent, AskedIsPending
  <2> QED
    BY <2>1 DEF AuthInv, Typed, ProcessesTyped, MemoryTyped, CallTyped, ServerTyped, AuthTypeOK
<1> QED BY <1>1, AuthInvHolds, PTL

\* One process at most owns the port, and it has no source call under way, no
\* pending operation and no binding of its own (promotion in server.ts).
THEOREM PromotionIsPlain == Spec => []PromotedIsPlain
<1>1. AuthInv => PromotedIsPlain
  BY PrimaryIsSingle DEF AuthInv
<1> QED BY <1>1, AuthInvHolds, PTL

\* What a primary keeps for a client is what its last operation left, and a
\* client without a pending operation keeps the same: no old map is replayed
\* (recover and the acknowledgements in primary-client.ts).
THEOREM NoOldMap == Spec => []MapsAreCurrent
<1>1. AuthInv => MapsAreCurrent
  BY DEF AuthInv, Consistent, ScopeIsCurrent, KeptIsCurrent, MapsAreCurrent
<1> QED BY <1>1, AuthInvHolds, PTL

\* A primary begins no operation that its client does not wait for or ask about
\* any more (uncertain in primary-client.ts).
THEOREM NothingTakesEffectLate == Spec => NoLateEffect
<1>1. AuthInv /\ [Next]_vars =>
        [\A p \in Procs : Client(p) /\ Active(p)' \notin {None, Active(p)}
                          => pending[p] # None /\ pending[p].op = Active(p)'.op]_vars
  <2> SUFFICES ASSUME AuthInv, Next, NEW p \in Procs, Active(p)' \notin {None, Active(p)}
               PROVE  pending[p] # None /\ pending[p].op = Active(p)'.op
    OBVIOUS
  <2>1. Typed /\ Consistent(p)
    BY DEF AuthInv
  <2>2. Active(p)' # None /\ Consistent(p)' /\ Typed'
    BY ConsistencyKept, TypesKept
  <2>3. Active(p)' = pending'[p] /\ pending'[p] # None
    BY <2>2 DEF Consistent, OneInFlight, Flight
  <2>4. pending'[p] = pending[p]
    <3>1. CASE scope' = scope
      <4>1. Active(p)' = Active(p)
        BY <3>1 DEF Active
      <4> QED BY <4>1
    <3>2. CASE pending' = pending
      BY <3>2
    <3> QED
      BY <3>1, <3>2 DEF Next, memory, server, Invoke, Ask, Recover, Send, Refused, Hear, GiveUp, Leave, Status,
         Release, Refuse, Begin, Created, CreationFails, Finish, PrimaryDies, Try, Bind
  <2> QED BY <2>3, <2>4
<1> QED BY <1>1, AuthInvHolds, PTL DEF Spec, NoLateEffect
=============================================================================
