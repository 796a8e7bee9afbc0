-------------------------- MODULE SourceWritesProofs --------------------------
(***************************************************************************)
(* What TLAPS proves of SourceWrites, for any number of processes, calls,   *)
(* edits and failures: a call that renames its copy over the file holds the *)
(* lease, and replaces only what it was planned against.                    *)
(***************************************************************************)
EXTENDS SourceWrites, TLAPS

-----------------------------------------------------------------------------
(* Types, and who is in the guarded section. *)

\* A call that fails in its guarded section is over, or tries its release again.
LEMMA AfterFailurePhases ==
    ASSUME NEW w
    PROVE  /\ AfterFailure(w) \subseteq {"unlock", "done", "abandoned"}
           /\ pc[w] \in Releasing => AfterFailure(w) \subseteq {"unlock", "abandoned"}
           /\ pc[w] \notin Releasing => AfterFailure(w) = {"done"}
<1>1. CASE pc[w] = "release"
  <2>1. AfterFailure(w) = {"unlock"}
    BY <1>1 DEF AfterFailure, Releasing
  <2> QED BY <1>1, <2>1 DEF Releasing
<1>2. CASE pc[w] = "unlock"
  <2>1. AfterFailure(w) = {"unlock", "abandoned"}
    BY <1>2 DEF AfterFailure, Releasing
  <2> QED BY <1>2, <2>1 DEF Releasing
<1>3. CASE pc[w] \notin Releasing
  <2>1. AfterFailure(w) = {"done"}
    BY <1>3 DEF AfterFailure, Releasing
  <2> QED BY <1>3, <2>1
<1> QED BY <1>1, <1>2, <1>3 DEF Releasing

LEMMA LeaveGuardEffect ==
    ASSUME SourceTypeOK, NEW w \in Writers, NEW next \in Phases, LeaveGuard(w, next)
    PROVE  /\ guard' \in {NoOne, Left} /\ faults' \in 0..MaxFaults
           /\ \E ph \in {next, "unlock", "done", "abandoned"} : pc' = [pc EXCEPT ![w] = ph]
BY WritesAssumption, AfterFailurePhases DEF LeaveGuard, Fault, Go, SourceTypeOK

\* A step of the write goes on, which its checks allow, or the call releases.
LEMMA ContinueEffect ==
    ASSUME NEW w \in Writers,
           Compare(w) \/ WriteTemporary(w) \/ CompareAgain(w) \/ Check(w)
    PROVE  \/ \E ph \in Releasing : pc' = [pc EXCEPT ![w] = ph]
           \/ Compare(w) /\ pc' = [pc EXCEPT ![w] = "read"]
           \/ WriteTemporary(w) /\ pc' = [pc EXCEPT ![w] = "written"]
           \/ /\ CompareAgain(w) /\ pc' = [pc EXCEPT ![w] = "compared"]
              /\ file.text = plan[w].text
           \/ /\ Check(w) /\ pc' = [pc EXCEPT ![w] = "checked"]
              /\ Held(w) /\ file.ino = plan[w].ino
<1>1. CASE Compare(w)
  BY <1>1 DEF Compare, Continue, Go, Releasing
<1>2. CASE WriteTemporary(w)
  BY <1>2 DEF WriteTemporary, Continue, Go, Releasing
<1>3. CASE CompareAgain(w)
  BY <1>3 DEF CompareAgain, Continue, Go, Releasing
<1>4. CASE Check(w)
  BY <1>4 DEF Check, Continue, Go, Releasing
<1> QED BY <1>1, <1>2, <1>3, <1>4

\* Its owner file and its age change, never whose it is.
LEMMA AgeChanges ==
    ASSUME NEW l \in Lease, NEW b \in BOOLEAN
    PROVE  /\ [l EXCEPT !.stale = b] \in Lease
           /\ [l EXCEPT !.stale = b].by = l.by
           /\ [l EXCEPT !.stale = b].owner = l.owner
BY DEF Lease

LEMMA OwnerLost ==
    ASSUME NEW l \in Lease, NEW b \in BOOLEAN
    PROVE  /\ [l EXCEPT !.owner = "none", !.stale = b] \in Lease
           /\ [l EXCEPT !.owner = "none", !.stale = b].by = l.by
BY DEF Lease

LEMMA HalfRemovedTyped ==
    ASSUME lease \in Lease
    PROVE  /\ HalfRemoved \subseteq Lease
           /\ \A l \in HalfRemoved : l.by = lease.by
<1>1. (lease.stale /\ lease.owner = "none") \in BOOLEAN
  OBVIOUS
<1> QED BY <1>1, OwnerLost DEF HalfRemoved

LEMMA NewLease ==
    ASSUME NEW w \in Writers, NEW o \in {"named", "none", "torn"}
    PROVE  [by |-> w, owner |-> o, stale |-> FALSE] \in Lease
BY DEF Lease

\* A crash in a guarded section leaves a lease, or none.
LEMMA RemainsTyped ==
    ASSUME SourceTypeOK, guard \in Writers
    PROVE  Remains(guard) \subseteq Lease \cup {NoLease}
<1> SUFFICES ASSUME NEW l \in Remains(guard), l # NoLease, l # lease PROVE l \in Lease
  BY DEF SourceTypeOK
<1>1. CASE l \in [by : {guard}, owner : {"named", "none", "torn"}, stale : {FALSE}]
  BY <1>1 DEF Lease
<1>2. CASE lease # NoLease /\ l = [lease EXCEPT !.owner = "none", !.stale = FALSE]
  BY <1>2, OwnerLost DEF SourceTypeOK
<1> QED BY <1>1, <1>2 DEF Remains

LEMMA TypesStart == Init => SourceTypeOK
BY WritesAssumption DEF Init, SourceTypeOK, File, Contents, Phases, Over

LEMMA TypesKept == SourceTypeOK /\ [Next]_vars => SourceTypeOK'
<1> SUFFICES ASSUME SourceTypeOK, [Next]_vars PROVE SourceTypeOK'
  OBVIOUS
<1> USE WritesAssumption
<1>1. ASSUME NEW w \in Writers,
             \/ Begin(w) \/ EnterGuard(w) \/ GuardBusy(w) \/ Stat(w) \/ Rename(w) \/ GivesUp(w)
      PROVE  SourceTypeOK'
  BY <1>1 DEF SourceTypeOK, Begin, EnterGuard, GuardBusy, Stat, Rename, GivesUp, Go, Turn, Phases,
              Holding, Guarded, Releasing, Over, File, Contents
<1>16. ASSUME NEW w \in Writers,
              Compare(w) \/ WriteTemporary(w) \/ CompareAgain(w) \/ Check(w)
      PROVE  SourceTypeOK'
  <2>1. PICK ph \in Phases \ {"idle", "dead"} : pc' = [pc EXCEPT ![w] = ph]
    BY <1>16, ContinueEffect DEF Phases, Holding, Guarded, Releasing
  <2>2. /\ UNCHANGED <<lease, guard, proc, file, plan, edits, faults>>
        /\ raced' \subseteq raced /\ pc[w] \in Holding /\ proc[Proc[w]] = "up"
    BY <1>16 DEF Compare, WriteTemporary, CompareAgain, Check, Turn, Holding
  <2>3. guard # w
    BY <2>2 DEF SourceTypeOK, Holding, Guarded, Releasing
  <2> QED BY <2>1, <2>2, <2>3 DEF SourceTypeOK
<1>2. ASSUME NEW w \in Writers, \/ Taken(w) \/ Reclaim(w) \/ Refused(w) \/ Unlock(w)
      PROVE  SourceTypeOK'
  <2>1. /\ pc[w] \in Guarded /\ guard = w
        /\ lease' \in {lease, NoLease}
        /\ UNCHANGED <<proc, file, plan, raced, edits>>
    BY <1>2 DEF Taken, Reclaim, Refused, Unlock, Guarded
  <2>2. PICK next \in Phases : LeaveGuard(w, next)
    BY <1>2 DEF Taken, Reclaim, Refused, Unlock, Phases, Guarded, Over
  <2>3. PICK ph \in Phases : pc' = [pc EXCEPT ![w] = ph]
    BY <2>2, LeaveGuardEffect DEF Phases, Guarded, Releasing, Over
  <2>4. guard' \in {NoOne, Left} /\ faults' \in 0..MaxFaults
    BY <2>2, LeaveGuardEffect
  <2> QED BY <2>1, <2>3, <2>4 DEF SourceTypeOK, Guarded, Releasing
<1>3. ASSUME NEW w \in Writers, Publish(w)
      PROVE  SourceTypeOK'
  <2>1. lease' \in Lease
    BY <1>3, NewLease DEF Publish
  <2>2. PICK ph \in {"probe", "unlock", "done", "abandoned"} : pc' = [pc EXCEPT ![w] = ph]
    BY <1>3, LeaveGuardEffect DEF Publish, Phases
  <2>3. guard' \in {NoOne, Left} /\ faults' \in 0..MaxFaults
    BY <1>3, LeaveGuardEffect DEF Publish, Phases
  <2> QED BY <1>3, <2>1, <2>2, <2>3 DEF SourceTypeOK, Publish, Phases, Guarded, Releasing, Over
<1>4. ASSUME NEW w \in Writers, PublishFails(w)
      PROVE  SourceTypeOK'
  <2>1. lease' \in Lease \cup {NoLease}
    BY <1>4, NewLease DEF PublishFails
  <2> QED BY <1>4, <2>1 DEF SourceTypeOK, PublishFails, Fault, Go, Phases, Guarded, Over
<1>10. ASSUME NEW w \in Writers, ReclaimFails(w)
      PROVE  SourceTypeOK'
  <2>1. lease' \in Lease
    BY <1>10, HalfRemovedTyped DEF ReclaimFails, SourceTypeOK
  <2> QED BY <1>10, <2>1 DEF SourceTypeOK, ReclaimFails, Fault, Go, Phases, Guarded, Over
<1>11. ASSUME NEW w \in Writers, UnlockFails(w)
      PROVE  SourceTypeOK'
  <2>1. lease' \in Lease
    BY <1>11, HalfRemovedTyped DEF UnlockFails, SourceTypeOK
  <2>2. PICK ph \in {"unlock", "done", "abandoned"} : pc' = [pc EXCEPT ![w] = ph]
    BY <1>11, AfterFailurePhases DEF UnlockFails, Go
  <2> QED BY <1>11, <2>1, <2>2 DEF SourceTypeOK, UnlockFails, Fault, Phases, Guarded, Releasing, Over
<1>15. ASSUME NEW w \in Writers, GuardFails(w)
      PROVE  SourceTypeOK'
  <2>1. PICK ph \in {"unlock", "done", "abandoned"} : pc' = [pc EXCEPT ![w] = ph]
    BY <1>15, AfterFailurePhases DEF GuardFails, Go
  <2> QED BY <1>15, <2>1 DEF SourceTypeOK, GuardFails, Turn, Fault, Phases, Guarded, Releasing, Over
<1>12. ASSUME NEW w \in Writers, Probe(w)
      PROVE  SourceTypeOK'
  <2>1. lease' \in Lease \cup {NoLease}
    BY <1>12, AgeChanges DEF SourceTypeOK, Probe
  <2> QED BY <1>12, <2>1 DEF SourceTypeOK, Probe, Turn, Go, Phases, Holding, Guarded, Releasing, Over
<1>13. ASSUME NEW w \in Writers, ProbeFails(w) \/ WriteFails(w)
      PROVE  SourceTypeOK'
  BY <1>13 DEF SourceTypeOK, ProbeFails, WriteFails, Turn, Fault, Go, Phases, Holding, Guarded, Releasing, Over
<1>14. ASSUME NEW w \in Writers, Heartbeat(w)
      PROVE  SourceTypeOK'
  <2>1. lease' \in Lease
    BY <1>14, AgeChanges DEF SourceTypeOK, Heartbeat
  <2> QED BY <1>14, <2>1 DEF SourceTypeOK, Heartbeat
<1>5. ASSUME NEW p \in Procs, Crash(p)
      PROVE  SourceTypeOK'
  BY <1>5, RemainsTyped DEF SourceTypeOK, Crash, Fault, Phases, Over
<1>6. ASSUME NEW p \in Procs, PidReused(p)
      PROVE  SourceTypeOK'
  BY <1>6 DEF SourceTypeOK, PidReused
<1>7. CASE Expire \/ ClearGuard
  <2>1. lease' \in Lease \cup {NoLease}
    BY <1>7, AgeChanges DEF SourceTypeOK, Expire, ClearGuard
  <2> QED BY <1>7, <2>1 DEF SourceTypeOK, Expire, ClearGuard, Fault
<1>8. CASE Edit
  BY <1>8 DEF SourceTypeOK, Edit, File, Contents
<1>9. CASE UNCHANGED vars
  BY <1>9 DEF SourceTypeOK, vars
<1> QED BY <1>1, <1>2, <1>3, <1>4, <1>5, <1>6, <1>7, <1>8, <1>9, <1>10, <1>11,
   <1>12, <1>13, <1>14, <1>15, <1>16 DEF Next, Step

-----------------------------------------------------------------------------
(* Who holds the lease. *)

\* Between its last check and its rename, a call is alone in its process.
Alone == \A w, v \in Writers : pc[w] = "checked" /\ guard = v => Proc[v] # Proc[w]

HeldInv == SourceTypeOK /\ HeldAtRename /\ Alone

\* The lease of a call that is about to rename is nobody's to take: its process
\* is up, and only a call of the same process could take it for an orphan.
LEMMA NotReclaimable ==
    ASSUME HeldInv, NEW w \in Writers, pc[w] = "checked",
           NEW v \in Writers, guard = v, pc[v] = "reclaim"
    PROVE  ~Reclaimable(v)
BY DEF HeldInv, SourceTypeOK, HeldAtRename, Alone, Reclaimable, Orphaned, OwnerGone

\* What the lease says of its owner stays, while a call is about to rename.
LEMMA LeaseStays ==
    ASSUME HeldInv, [Next]_vars, NEW w \in Writers, pc[w] = "checked", pc'[w] = "checked"
    PROVE  lease' # NoLease /\ lease'.by = w /\ lease'.owner = "named"
<1> DEFINE Named(l) == l # NoLease /\ l.by = w /\ l.owner = "named"
<1>1. lease \in Lease /\ Named(lease)
  BY DEF HeldInv, SourceTypeOK, HeldAtRename
<1>2. ASSUME NEW b \in BOOLEAN PROVE Named([lease EXCEPT !.stale = b])
  BY <1>1, AgeChanges, LeaseAssumption
<1>3. ASSUME NEW v \in Writers, pc[v] = "reclaim", guard = v PROVE ~Reclaimable(v)
  BY <1>3, NotReclaimable
<1>4. ASSUME NEW v \in Writers,
             \/ Begin(v) \/ EnterGuard(v) \/ GuardBusy(v) \/ Taken(v) \/ Stat(v) \/ Refused(v)
             \/ ProbeFails(v) \/ Compare(v) \/ WriteTemporary(v) \/ CompareAgain(v) \/ Check(v)
             \/ Rename(v) \/ WriteFails(v) \/ GivesUp(v) \/ GuardFails(v)
      PROVE  Named(lease')
  <2>1. lease' = lease
    BY <1>4 DEF Begin, EnterGuard, GuardBusy, Taken, Stat, Refused, ProbeFails, Compare,
                WriteTemporary, CompareAgain, Check, Rename, WriteFails, GivesUp, GuardFails
  <2> QED BY <1>1, <2>1
<1>5. ASSUME NEW v \in Writers, Publish(v) \/ PublishFails(v) \/ Reclaim(v) \/ ReclaimFails(v)
      PROVE  FALSE
  BY <1>1, <1>3, <1>5 DEF Publish, PublishFails, Reclaim, ReclaimFails
<1>6. ASSUME NEW v \in Writers, Unlock(v) \/ UnlockFails(v)
      PROVE  Named(lease')
  <2>1. guard = v /\ pc[v] # "checked"
    BY <1>6 DEF Unlock, UnlockFails, Releasing
  <2>2. v # w
    BY <2>1
  <2> QED BY <1>1, <1>6, <2>2 DEF Unlock, UnlockFails
<1>7. ASSUME NEW v \in Writers, Probe(v) \/ Heartbeat(v)
      PROVE  Named(lease')
  BY <1>1, <1>2, <1>7 DEF Probe, Heartbeat
<1>8. ASSUME NEW p \in Procs, Crash(p)
      PROVE  Named(lease')
  <2>1. CASE guard \in Writers /\ Proc[guard] = p
    <3>1. ~Removes(guard)
      BY <1>1, <1>3, <2>1 DEF Removes, HeldInv, Alone, Releasing
    <3>2. lease' = lease
      BY <1>1, <1>8, <2>1, <3>1 DEF Crash, Remains
    <3> QED BY <1>1, <3>2
  <2> QED BY <1>1, <1>8, <2>1 DEF Crash
<1>9. ASSUME NEW p \in Procs, PidReused(p)
      PROVE  Named(lease')
  BY <1>1, <1>9 DEF PidReused
<1>10. CASE Expire
  BY <1>1, <1>2, <1>10 DEF Expire
<1>11. CASE ClearGuard \/ Edit \/ UNCHANGED vars
  BY <1>1, <1>11 DEF ClearGuard, Edit, vars
<1> QED BY <1>4, <1>5, <1>6, <1>7, <1>8, <1>9, <1>10, <1>11 DEF Next, Step

\* A call reaches "checked" by its last check only, with the lease its own and
\* its process doing nothing else.
LEMMA EntersChecked ==
    ASSUME SourceTypeOK, [Next]_vars, NEW w \in Writers, pc[w] # "checked", pc'[w] = "checked"
    PROVE  Check(w) /\ Held(w) /\ file.ino = plan[w].ino
<1>1. ASSUME NEW v \in Writers, v # w, Begin(v) \/ Heartbeat(v) \/ Step(v) \/ PublishFails(v)
               \/ ReclaimFails(v) \/ ProbeFails(v) \/ WriteFails(v) \/ UnlockFails(v) \/ GuardFails(v)
      PROVE  pc'[w] = pc[w]
  BY <1>1 DEF SourceTypeOK, Step, Begin, Heartbeat, EnterGuard, GuardBusy, Publish, Taken, Stat,
     Reclaim, Refused, Probe, Compare, WriteTemporary, CompareAgain, Check, Rename, Unlock,
     GivesUp, PublishFails, ReclaimFails, ProbeFails, WriteFails, UnlockFails, GuardFails, LeaveGuard,
     Continue, Go
<1>2. ASSUME Begin(w) \/ Heartbeat(w) \/ PublishFails(w) \/ ReclaimFails(w) \/ ProbeFails(w)
               \/ WriteFails(w) \/ UnlockFails(w) \/ GuardFails(w)
      PROVE  FALSE
  BY <1>2, AfterFailurePhases DEF SourceTypeOK, Begin, Heartbeat, PublishFails, ReclaimFails, ProbeFails,
     WriteFails, UnlockFails, GuardFails, Go, Releasing
<1>3. ASSUME Step(w), ~Check(w)
      PROVE  FALSE
  BY <1>3, AfterFailurePhases DEF SourceTypeOK, Step, EnterGuard, GuardBusy, Publish, Taken, Stat, Reclaim,
     Refused, Probe, Compare, WriteTemporary, CompareAgain, Rename, Unlock, GivesUp, LeaveGuard, Continue,
     Go, Releasing
<1>4. ASSUME NEW p \in Procs, Crash(p) \/ PidReused(p)
      PROVE  FALSE
  BY <1>4 DEF SourceTypeOK, Crash, PidReused
<1>5. ~(Expire \/ ClearGuard \/ Edit \/ UNCHANGED vars)
  BY DEF Expire, ClearGuard, Edit, vars
<1>6. Check(w)
  BY <1>1, <1>2, <1>3, <1>4, <1>5 DEF Next
<1> QED BY <1>6, ContinueEffect DEF SourceTypeOK, Compare, WriteTemporary, CompareAgain, Releasing

\* The guard is entered in a turn of one's own process.
LEMMA EntersGuard ==
    ASSUME [Next]_vars, NEW v \in Writers, guard # v, guard' = v
    PROVE  EnterGuard(v)
<1>1. ASSUME NEW u \in Writers, ~EnterGuard(u), Begin(u) \/ Heartbeat(u) \/ Step(u) \/ PublishFails(u)
               \/ ReclaimFails(u) \/ ProbeFails(u) \/ WriteFails(u) \/ UnlockFails(u) \/ GuardFails(u)
      PROVE  FALSE
  BY <1>1, WritesAssumption DEF Step, Begin, Heartbeat, GuardBusy, Publish, Taken, Stat,
     Reclaim, Refused, Probe, Compare, WriteTemporary, CompareAgain, Check, Rename, Unlock,
     GivesUp, PublishFails, ReclaimFails, ProbeFails, WriteFails, UnlockFails, GuardFails, LeaveGuard
<1>2. ASSUME NEW p \in Procs, Crash(p) \/ PidReused(p)
      PROVE  FALSE
  BY <1>2, WritesAssumption DEF Crash, PidReused
<1>3. ~(Expire \/ ClearGuard \/ Edit \/ UNCHANGED vars)
  BY WritesAssumption DEF Expire, ClearGuard, Edit, vars
<1> QED BY <1>1, <1>2, <1>3 DEF Next, EnterGuard

LEMMA HeldStart == Init => HeldInv
BY TypesStart DEF Init, HeldInv, HeldAtRename, Alone

LEMMA HeldKept == HeldInv /\ [Next]_vars => HeldInv'
<1> SUFFICES ASSUME HeldInv, [Next]_vars PROVE HeldInv'
  OBVIOUS
<1>1. SourceTypeOK /\ SourceTypeOK'
  BY TypesKept DEF HeldInv
<1>2. HeldAtRename'
  <2> SUFFICES ASSUME NEW w \in Writers, pc'[w] = "checked"
               PROVE  lease' # NoLease /\ lease'.by = w /\ lease'.owner = "named"
    BY DEF HeldAtRename
  <2>1. CASE pc[w] = "checked"
    BY <2>1, LeaseStays
  <2>2. CASE pc[w] # "checked"
    BY <1>1, <2>2, EntersChecked DEF Check, Held
  <2> QED BY <2>1, <2>2
<1>3. Alone'
  <2> SUFFICES ASSUME NEW w \in Writers, NEW v \in Writers, pc'[w] = "checked", guard' = v,
                      Proc[v] = Proc[w]
               PROVE  FALSE
    BY DEF Alone
  <2>1. v # w /\ pc'[v] \in Guarded
    BY <1>1 DEF SourceTypeOK, Guarded, Releasing
  <2>2. CASE pc[w] # "checked"
    <3>1. Check(w)
      BY <1>1, <2>2, EntersChecked
    <3> QED BY <2>1, <3>1 DEF Check, Turn
  <2>3. CASE pc[w] = "checked" /\ guard # v
    <3>1. EnterGuard(v)
      BY <2>3, EntersGuard
    <3> QED BY <2>1, <2>3, <3>1 DEF EnterGuard, Turn
  <2> QED BY <2>2, <2>3 DEF HeldInv, Alone
<1> QED BY <1>1, <1>2, <1>3 DEF HeldInv

\* The model keeps its types, and a call is in the guarded section only in a
\* phase that goes through it.
THEOREM WritesAreTyped == Spec => []SourceTypeOK
BY TypesStart, TypesKept, PTL DEF Spec

\* No call renames its copy over the file with the lease in other hands.
THEOREM LeaseIsHeld == Spec => []HeldAtRename
<1>1. HeldInv => HeldAtRename
  BY DEF HeldInv
<1> QED BY HeldStart, HeldKept, <1>1, PTL DEF Spec

-----------------------------------------------------------------------------
(* What a save replaces. *)

\* Files that are or have been at the path: the first one, that of a call that
\* has renamed its copy, that of an edit.  None of them comes again.
Past(i) ==
    \/ i = Initial
    \/ i \in Writers /\ pc[i] \in Releasing \cup Over
    \/ i \in 1..edits

FilesPast == Past(file.ino) /\ \A w \in Writers : Past(plan[w].ino)

\* After its second comparison a call goes by the identity of the file; after
\* the last check the text is what it was planned against.
Compared(w) ==
    /\ pc[w] = "compared" => file.ino # plan[w].ino \/ file.text = plan[w].text \/ w \in raced
    /\ pc[w] = "checked" => file.text = plan[w].text \/ w \in raced

PlanInv == HeldInv /\ FilesPast /\ \A w \in Writers : Compared(w)

\* The only steps that change the file, a plan or the history, and that make a
\* call rely on them.
LEMMA WriteSteps ==
    ASSUME SourceTypeOK, [Next]_vars
    PROVE  \/ Edit
           \/ \E v \in Writers : Begin(v) \/ CompareAgain(v) \/ Check(v) \/ Rename(v)
           \/ /\ UNCHANGED <<file, plan, raced, edits>>
              /\ \A w \in Writers : \/ pc'[w] = pc[w]
                                    \/ pc'[w] \notin {"compared", "checked"}
<1> DEFINE Rest == /\ UNCHANGED <<file, plan, raced, edits>>
                   /\ \A w \in Writers : pc'[w] = pc[w] \/ pc'[w] \notin {"compared", "checked"}
<1>1. ASSUME NEW v \in Writers,
             \/ EnterGuard(v) \/ GuardBusy(v) \/ Publish(v) \/ Taken(v) \/ Stat(v) \/ Reclaim(v)
             \/ Refused(v) \/ Probe(v) \/ Compare(v) \/ WriteTemporary(v) \/ Unlock(v) \/ GivesUp(v)
      PROVE  Rest
  BY <1>1, AfterFailurePhases DEF SourceTypeOK, EnterGuard, GuardBusy, Publish, Taken, Stat, Reclaim, Refused,
     Probe, Compare, WriteTemporary, Unlock, GivesUp, LeaveGuard, Continue, Go, Releasing
<1>2. ASSUME NEW v \in Writers, \/ Heartbeat(v) \/ PublishFails(v) \/ ReclaimFails(v) \/ ProbeFails(v)
                                \/ WriteFails(v) \/ UnlockFails(v) \/ GuardFails(v)
      PROVE  Rest
  BY <1>2, AfterFailurePhases DEF SourceTypeOK, Heartbeat, PublishFails, ReclaimFails, ProbeFails, WriteFails,
     UnlockFails, GuardFails, Go, Releasing
<1>3. ASSUME NEW p \in Procs, Crash(p) \/ PidReused(p)
      PROVE  Rest
  BY <1>3 DEF SourceTypeOK, Crash, PidReused
<1>4. Expire \/ ClearGuard \/ UNCHANGED vars => Rest
  BY DEF Expire, ClearGuard, vars
<1> QED BY <1>1, <1>2, <1>3, <1>4 DEF Next, Step

\* A call that is done with its rename never comes back to it.
LEMMA DoneStays ==
    ASSUME SourceTypeOK, [Next]_vars, NEW w \in Writers, pc[w] \in Releasing \cup Over
    PROVE  pc'[w] \in Releasing \cup Over
<1>1. ASSUME NEW v \in Writers, Begin(v) \/ Heartbeat(v) \/ Step(v) \/ PublishFails(v)
               \/ ReclaimFails(v) \/ ProbeFails(v) \/ WriteFails(v) \/ UnlockFails(v) \/ GuardFails(v)
      PROVE  pc'[w] \in Releasing \cup Over
  BY <1>1, AfterFailurePhases DEF SourceTypeOK, Step, Begin, Heartbeat, EnterGuard, GuardBusy, Publish, Taken,
     Stat, Reclaim, Refused, Probe, Compare, WriteTemporary, CompareAgain, Check, Rename, Unlock,
     GivesUp, PublishFails, ReclaimFails, ProbeFails, WriteFails, UnlockFails, GuardFails, LeaveGuard,
     Continue, Go, Holding, Guarded, Releasing, Over
<1>2. ASSUME NEW p \in Procs, Crash(p) \/ PidReused(p)
      PROVE  pc'[w] \in Releasing \cup Over
  BY <1>2 DEF SourceTypeOK, Crash, PidReused, Over
<1>3. Expire \/ ClearGuard \/ Edit \/ UNCHANGED vars => pc' = pc
  BY DEF Expire, ClearGuard, Edit, vars
<1> QED BY <1>1, <1>2, <1>3 DEF Next

LEMMA PastStays ==
    ASSUME SourceTypeOK, [Next]_vars, NEW i, Past(i)
    PROVE  Past(i)'
<1>1. edits \in Nat /\ edits' \in Nat /\ edits <= edits'
  BY WriteSteps, WritesAssumption DEF SourceTypeOK, Edit, Begin, CompareAgain, Check, Rename
<1> QED BY <1>1, DoneStays DEF Past

LEMMA PlanStart == Init => PlanInv
BY HeldStart DEF Init, PlanInv, FilesPast, Past, Compared

\* A save of one call is a different file for the others, and falls after no
\* other's last check.
LEMMA RenameKeepsPlan ==
    ASSUME PlanInv, NEW v \in Writers, Rename(v)
    PROVE  FilesPast' /\ \A w \in Writers : Compared(w)'
<1>1. /\ pc[v] = "checked" /\ pc' = [pc EXCEPT ![v] = "release"]
      /\ file' = [text |-> v, ino |-> v] /\ UNCHANGED <<plan, raced, edits>>
  BY DEF Rename, Go
<1>2. pc \in [Writers -> Phases] /\ plan \in [Writers -> File]
  BY DEF PlanInv, HeldInv, SourceTypeOK
<1>3. FilesPast'
  BY <1>1, <1>2 DEF PlanInv, FilesPast, Releasing, Over, Past, Releasing, Over
<1>4. ASSUME NEW w \in Writers PROVE Compared(w)'
  <2>1. CASE pc[w] = "checked"
    <3>1. w = v
      BY <1>1, <2>1 DEF PlanInv, HeldInv, HeldAtRename
    <3> QED BY <1>1, <1>2, <3>1 DEF Compared
  <2>2. CASE pc[w] = "compared"
    <3>1. plan[w].ino # v
      BY <1>1, WritesAssumption DEF PlanInv, FilesPast, Past, HeldInv, SourceTypeOK, Releasing, Over
    <3> QED BY <1>1, <1>2, <2>2, <3>1 DEF Compared
  <2>3. CASE pc[w] \notin {"compared", "checked"}
    BY <1>1, <1>2, <2>3 DEF Compared
  <2> QED BY <2>1, <2>2, <2>3
<1> QED BY <1>3, <1>4

\* Another editor's save is a file that was never there, or one that keeps the
\* identity and is noted for those who have compared.
LEMMA EditKeepsPlan ==
    ASSUME PlanInv, Edit
    PROVE  FilesPast' /\ \A w \in Writers : Compared(w)'
<1>1. /\ file'.ino \in {file.ino, edits + 1} /\ edits' = edits + 1 /\ UNCHANGED <<pc, plan>>
      /\ \A w \in Writers : w \in raced' <=>
            \/ w \in raced
            \/ pc[w] = "checked" \/ (pc[w] = "compared" /\ file'.ino = file.ino)
  BY DEF Edit
<1>2. edits \in Nat /\ edits + 1 \in 1..MaxEdits
  BY WritesAssumption DEF Edit, PlanInv, HeldInv, SourceTypeOK
<1>3. \A i : Past(i) => Past(i)'
  BY <1>1, <1>2 DEF Past
<1>4. FilesPast'
  <2>1. PICK i : i = file'.ino
    OBVIOUS
  <2>2. Past(i)'
    <3>1. CASE i = file.ino
      BY <1>3, <3>1 DEF PlanInv, FilesPast
    <3>2. CASE i = edits + 1
      BY <1>1, <1>2, <3>2 DEF Past
    <3> QED BY <1>1, <2>1, <3>1, <3>2
  <2>3. ASSUME NEW w \in Writers PROVE Past(plan[w].ino)'
    BY <1>1, <1>3 DEF PlanInv, FilesPast, Past
  <2> QED BY <2>1, <2>2, <2>3 DEF FilesPast, Past
<1>5. ASSUME NEW w \in Writers, file'.ino = edits + 1, pc[w] = "compared"
      PROVE  plan[w].ino # file'.ino
  BY <1>2, <1>5, WritesAssumption DEF PlanInv, FilesPast, Past
<1>6. ASSUME NEW w \in Writers PROVE Compared(w)'
  BY <1>1, <1>5 DEF PlanInv, Compared
<1> QED BY <1>4, <1>6

LEMMA PlanKept == PlanInv /\ [Next]_vars => PlanInv'
<1> SUFFICES ASSUME PlanInv, [Next]_vars PROVE PlanInv'
  OBVIOUS
<1>1. HeldInv'
  BY HeldKept DEF PlanInv
<1>2. SourceTypeOK /\ FilesPast /\ \A w \in Writers : Compared(w)
  BY DEF PlanInv, HeldInv
<1>3. ASSUME UNCHANGED file, \A w \in Writers : plan'[w] \in {plan[w], file}
      PROVE  FilesPast'
  <2>1. ASSUME NEW i, Past(i)
        PROVE  \/ i = Initial \/ (i \in Writers /\ pc'[i] \in Releasing \cup Over)
               \/ i \in 1..edits'
    BY <1>2, <2>1, PastStays DEF Past
  <2> QED BY <1>2, <1>3, <2>1 DEF FilesPast, Past
<1>4. ASSUME NEW v \in Writers, Begin(v)
      PROVE  FilesPast' /\ \A w \in Writers : Compared(w)'
  <2>1. \A w \in Writers : plan'[w] \in {plan[w], file}
    BY <1>2, <1>4 DEF Begin, SourceTypeOK
  <2>2. \A w \in Writers : Compared(w)'
    BY <1>2, <1>4 DEF Begin, Go, Compared, SourceTypeOK
  <2> QED BY <1>3, <1>4, <2>1, <2>2 DEF Begin
<1>5. ASSUME NEW v \in Writers, CompareAgain(v)
      PROVE  FilesPast' /\ \A w \in Writers : Compared(w)'
  <2>1. \A w \in Writers : Compared(w)'
    BY <1>2, <1>5, ContinueEffect DEF Compare, WriteTemporary, CompareAgain, Check, Releasing, Compared, SourceTypeOK
  <2> QED BY <1>3, <1>5, <2>1 DEF CompareAgain
<1>6. ASSUME NEW v \in Writers, Check(v)
      PROVE  FilesPast' /\ \A w \in Writers : Compared(w)'
  <2>1. \A w \in Writers : Compared(w)'
    BY <1>2, <1>6, ContinueEffect DEF Compare, WriteTemporary, CompareAgain, Check, Releasing, Compared, SourceTypeOK
  <2> QED BY <1>3, <1>6, <2>1 DEF Check
<1>7. ASSUME UNCHANGED <<file, plan, raced, edits>>,
             \A w \in Writers : pc'[w] = pc[w] \/ pc'[w] \notin {"compared", "checked"}
      PROVE  FilesPast' /\ \A w \in Writers : Compared(w)'
  <2>1. \A w \in Writers : Compared(w)'
    BY <1>2, <1>7 DEF Compared
  <2> QED BY <1>3, <1>7, <2>1
<1>8. FilesPast' /\ \A w \in Writers : Compared(w)'
  BY <1>2, <1>4, <1>5, <1>6, <1>7, WriteSteps, EditKeepsPlan, RenameKeepsPlan
<1> QED BY <1>1, <1>8 DEF PlanInv

\* A save replaces what it was planned against: another Roqer writer's save is
\* never lost, another editor's only if it falls after the last comparison.
THEOREM NoSaveIsLost == Spec => NoLostUpdate
<1>1. PlanInv => \A w \in Writers :
                   pc[w] = "checked" /\ file' # file /\ file'.text = w =>
                      file.text = plan[w].text \/ w \in raced
  BY DEF PlanInv, Compared
<1> QED BY PlanStart, PlanKept, <1>1, PTL DEF Spec, NoLostUpdate
=============================================================================
