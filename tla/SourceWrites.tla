----------------------------- MODULE SourceWrites -----------------------------
(***************************************************************************)
(* Writes of one Rojo source file by the Roqer processes of a machine      *)
(* (compareAndWrite): each takes the file's write lease, a directory that  *)
(* names its owner, compares the file with the revision it planned for,    *)
(* twice, and renames a finished copy over it.  The short guard directory  *)
(* <lease>.guard serialises every change to the lease directory; it is     *)
(* never reclaimed.  Editors outside Roqer save when they like.            *)
(*                                                                         *)
(* A writer is one call.  Everything one JavaScript turn does on the disk  *)
(* still interleaves with other processes, so a guarded section and the    *)
(* final check and rename are two steps each, between which the writer's   *)
(* own process runs nothing else.  proper-lockfile (the mkdir, stat and    *)
(* rmdir that acquire and release, the heartbeat) is modelled from its use.*)
(***************************************************************************)
EXTENDS Naturals

CONSTANTS
    Writers,      \* calls of compareAndWrite; each has its own lease token
    Procs,
    Proc,         \* the process of each writer
    Unverified,   \* processes that cannot observe their own start time
    MaxEdits,     \* bound: saves by other editors
    MaxFaults,    \* bound: crashes, suspensions and I/O errors
    Initial, NoOne, Left, NoLease

Contents == {Initial} \cup Writers \cup (1..MaxEdits)

ASSUME WritesAssumption ==
    /\ Proc \in [Writers -> Procs]
    /\ MaxEdits \in Nat /\ MaxFaults \in Nat
    /\ NoOne \notin Writers /\ Left \notin Writers /\ NoOne # Left
    /\ Initial \notin Writers \cup (1..MaxEdits) /\ Writers \cap (1..MaxEdits) = {}

VARIABLES
    pc,       \* where each call stands
    lease,    \* the lease directory: its creator, who is in its owner file, whether
              \* the owner file is there and readable, and whether it is stale
    guard,    \* who is in the guarded section; Left: a guard nobody will remove
    proc,     \* "up", "dead", or "reused": dead and its PID given to another program
    file,     \* what the source file holds, and which file it is (inode)
    plan,     \* what the file was when the call was planned
    raced,    \* history: writers that can no longer notice an editor's save
    edits, faults

vars == <<pc, lease, guard, proc, file, plan, raced, edits, faults>>

File == [text : Contents, ino : Contents]
Lease == [by : Writers, owner : {"named", "none", "torn"}, stale : BOOLEAN]

ASSUME LeaseAssumption == NoLease \notin Lease

\* Phases of a call: acquiring, holding the lease (its token is in liveTokens),
\* and those that go through the guard.  A release is one attempt by the library
\* ("release"), then its repetitions ("unlock"); "abandoned" is a release that
\* met a failure it does not retry.
Holding == {"held", "read", "written", "compared", "checked"}
Releasing == {"release", "unlock"}
Guarded == {"create", "reclaim", "recreate", "undo"} \cup Releasing
Over == {"done", "abandoned", "dead"}
Phases == {"idle", "stat", "probe"} \cup Holding \cup Guarded \cup Over

SourceTypeOK ==
    /\ pc \in [Writers -> Phases]
    /\ lease \in Lease \cup {NoLease}
    /\ guard \in Writers \cup {NoOne, Left}
    /\ proc \in [Procs -> {"up", "dead", "reused"}]
    /\ file \in File
    /\ plan \in [Writers -> File]
    /\ raced \subseteq Writers
    /\ edits \in 0..MaxEdits /\ faults \in 0..MaxFaults
    /\ guard \in Writers => pc[guard] \in Guarded
    /\ \A w \in Writers : pc[w] \notin {"idle", "dead"} => proc[Proc[w]] = "up"

Init ==
    /\ pc = [w \in Writers |-> "idle"]
    /\ lease = NoLease
    /\ guard = NoOne
    /\ proc = [p \in Procs |-> "up"]
    /\ file = [text |-> Initial, ino |-> Initial]
    /\ plan = [w \in Writers |-> file]
    /\ raced = {}
    /\ edits = 0 /\ faults = 0

-----------------------------------------------------------------------------
Fault == faults < MaxFaults /\ faults' = faults + 1
Go(w, phase) == pc' = [pc EXCEPT ![w] = phase]
Live(w) == pc[w] \in Holding

\* In JavaScript terms: no other call of w's process is in the middle of a
\* synchronous section.
Turn(w) ==
    /\ proc[Proc[w]] = "up"
    /\ \A v \in Writers \ {w} : Proc[v] = Proc[w] => guard # v /\ pc[v] # "checked"

\* MUTANT of OwnerGone: a stale lease is given up whoever holds it.
OwnerGoneStale(w) == TRUE

\* sourceWriteOwnerStatus says "gone".
OwnerGone(w) ==
    \/ proc[Proc[w]] = "dead"
    \/ proc[Proc[w]] = "reused" /\ Proc[w] \notin Unverified

\* The lease of v was left behind by a call of w's own process.
Orphaned(w, v) == Proc[v] = Proc[w] /\ ~Live(v)

\* MUTANT of Held: only the heartbeat is trusted, not the owner file.
HeldFresh(w) == lease # NoLease /\ ~lease.stale

\* assertHeld, assertHeldSync.
Held(w) == lease # NoLease /\ lease.by = w /\ lease.owner = "named" /\ ~lease.stale

\* Where a failure leaves a call in its guarded section.  The library's attempt
\* to release is always repeated, a repetition only after some failures
\* (RETRYABLE_RELEASE_CODES); everywhere else the call is over.
AfterFailure(w) ==
    CASE pc[w] = "release" -> {"unlock"}
      [] pc[w] = "unlock" -> {"unlock", "abandoned"}
      [] pc[w] \notin Releasing -> {"done"}

\* MUTANT of LeaveGuard: the guard is removed only when the lease was taken or
\* released.
LeaveGuardOnSuccess(w, next) ==
    /\ guard' = IF next = "done" /\ pc[w] \notin Releasing THEN guard ELSE NoOne
    /\ Go(w, next) /\ UNCHANGED faults

\* Leaving the guarded section; removing the guard directory may fail, and then
\* the call fails as well.
LeaveGuard(w, next) ==
    \/ guard' = NoOne /\ Go(w, next) /\ UNCHANGED faults
    \/ Fault /\ guard' = Left /\ \E ph \in AfterFailure(w) : Go(w, ph)

-----------------------------------------------------------------------------
(* Acquiring the lease. *)

\* _scriptWrite has compared Studio's revision and the file's identity.
Begin(w) ==
    /\ pc[w] = "idle" /\ Turn(w)
    /\ plan' = [plan EXCEPT ![w] = file]
    /\ Go(w, "create")
    /\ UNCHANGED <<lease, guard, proc, file, raced, edits, faults>>

\* withSourceWriteGuard makes the guard directory.
EnterGuard(w) ==
    /\ pc[w] \in Guarded /\ guard = NoOne /\ Turn(w)
    /\ guard' = w
    /\ UNCHANGED <<pc, lease, proc, file, plan, raced, edits, faults>>

\* EGUARDBUSY ends an attempt; a release is tried again.
GuardBusy(w) ==
    /\ pc[w] \in Guarded \ {"unlock"} /\ guard \notin {NoOne, w} /\ Turn(w)
    /\ Go(w, IF pc[w] = "release" THEN "unlock" ELSE "done")
    /\ UNCHANGED <<lease, guard, proc, file, plan, raced, edits, faults>>

\* The guard cannot be made, or its owner file not be written: the new directory
\* is removed, or stays.
GuardFails(w) ==
    /\ pc[w] \in Guarded /\ guard = NoOne /\ Turn(w)
    /\ Fault
    /\ guard' \in {NoOne, Left}
    /\ \E ph \in AfterFailure(w) : Go(w, ph)
    /\ UNCHANGED <<lease, proc, file, plan, raced, edits>>

\* The lease directory is made and its owner file published.
Publish(w) ==
    /\ pc[w] \in {"create", "recreate"} /\ guard = w /\ lease = NoLease
    /\ lease' = [by |-> w, owner |-> "named", stale |-> FALSE]
    /\ LeaveGuard(w, "probe")
    /\ UNCHANGED <<proc, file, plan, raced, edits>>

\* The owner file cannot be written: the new directory is removed, or stays empty.
PublishFails(w) ==
    /\ pc[w] \in {"create", "recreate"} /\ guard = w /\ lease = NoLease
    /\ Fault
    /\ lease' \in {NoLease, [by |-> w, owner |-> "none", stale |-> FALSE]}
    /\ guard' = NoOne /\ Go(w, "done")
    /\ UNCHANGED <<proc, file, plan, raced, edits>>

\* EEXIST: the library looks at the directory's age once.
Taken(w) ==
    /\ pc[w] \in {"create", "recreate"} /\ guard = w /\ lease # NoLease
    /\ LeaveGuard(w, IF pc[w] = "create" THEN "stat" ELSE "done")
    /\ UNCHANGED <<lease, proc, file, plan, raced, edits>>

Stat(w) ==
    /\ pc[w] = "stat" /\ Turn(w)
    /\ Go(w, IF lease = NoLease THEN "recreate" ELSE IF lease.stale THEN "reclaim" ELSE "done")
    /\ UNCHANGED <<lease, guard, proc, file, plan, raced, edits, faults>>

\* remove, with no directory of its own: someone else's lease goes if it is
\* stale still and empty, an orphan of this process, or its owner is gone.
Reclaimable(w) ==
    /\ lease.stale
    /\ \/ lease.owner = "none"
       \/ lease.owner = "named" /\ (Orphaned(w, lease.by) \/ OwnerGone(lease.by))

Reclaim(w) ==
    /\ pc[w] = "reclaim" /\ guard = w
    /\ lease # NoLease => Reclaimable(w)
    /\ lease' = NoLease
    /\ LeaveGuard(w, "recreate")
    /\ UNCHANGED <<proc, file, plan, raced, edits>>

\* A lease that could not be removed: untouched, or its owner file unlinked, by
\* which the directory looks young again.
HalfRemoved == {lease, [lease EXCEPT !.owner = "none", !.stale = lease.stale /\ lease.owner = "none"]}

\* The owner file or the directory cannot be removed.
ReclaimFails(w) ==
    /\ pc[w] = "reclaim" /\ guard = w
    /\ lease # NoLease /\ Reclaimable(w)
    /\ Fault
    /\ lease' \in HalfRemoved
    /\ guard' = NoOne /\ Go(w, "done")
    /\ UNCHANGED <<proc, file, plan, raced, edits>>

\* Busy, also when the owner's process cannot be observed.
Refused(w) ==
    /\ pc[w] = "reclaim" /\ guard = w /\ lease # NoLease
    /\ ~Reclaimable(w) \/ (lease.owner = "named" /\ ~Orphaned(w, lease.by))
    /\ LeaveGuard(w, "done")
    /\ UNCHANGED <<lease, proc, file, plan, raced, edits>>

\* The library touches the directory at the path, whoever's it is by now, and
\* the token becomes live.
Probe(w) ==
    /\ pc[w] = "probe" /\ Turn(w)
    /\ IF lease = NoLease
         THEN Go(w, "done") /\ UNCHANGED lease
         ELSE Go(w, "held") /\ lease' = [lease EXCEPT !.stale = FALSE]
    /\ UNCHANGED <<guard, proc, file, plan, raced, edits, faults>>

ProbeFails(w) ==
    /\ pc[w] = "probe" /\ Turn(w)
    /\ Fault
    /\ Go(w, "undo")
    /\ UNCHANGED <<lease, guard, proc, file, plan, raced, edits>>

-----------------------------------------------------------------------------
(* Writing. *)

\* A step of compareAndWriteLocked: it goes on, or the call releases the lease.
\* A lease that is lost the library may have forgotten by then (onCompromised);
\* it refuses to release it, which leaves that to the repetitions.
Continue(w, ok, next) ==
    \E ph \in (IF ok THEN {next} ELSE IF Held(w) THEN {"release"} ELSE Releasing) : Go(w, ph)

Compare(w) ==
    /\ pc[w] = "held" /\ Turn(w)
    /\ Continue(w, Held(w) /\ file.text = plan[w].text, "read")
    /\ UNCHANGED <<lease, guard, proc, file, plan, raced, edits, faults>>

WriteTemporary(w) ==
    /\ pc[w] = "read" /\ Turn(w)
    /\ Continue(w, Held(w) /\ file.ino = plan[w].ino, "written")
    /\ UNCHANGED <<lease, guard, proc, file, plan, raced, edits, faults>>

CompareAgain(w) ==
    /\ pc[w] = "written" /\ Turn(w)
    /\ Continue(w, Held(w) /\ file.text = plan[w].text, "compared")
    /\ raced' = raced \ {w}
    /\ UNCHANGED <<lease, guard, proc, file, plan, edits, faults>>

\* The synchronous commit: the last checks ...
Check(w) ==
    /\ pc[w] = "compared" /\ Turn(w)
    /\ Continue(w, Held(w) /\ file.ino = plan[w].ino, "checked")
    /\ UNCHANGED <<lease, guard, proc, file, plan, raced, edits, faults>>

\* ... and the rename.
Rename(w) ==
    /\ pc[w] = "checked"
    /\ file' = [text |-> w, ino |-> w]
    /\ Go(w, "release")
    /\ UNCHANGED <<lease, guard, proc, plan, raced, edits, faults>>

\* Reading or writing fails, or the heartbeat, by which the library forgets the
\* lease.
WriteFails(w) ==
    /\ pc[w] \in Holding \ {"checked"} /\ Turn(w)
    /\ Fault
    /\ \E ph \in Releasing : Go(w, ph)
    /\ UNCHANGED <<lease, guard, proc, file, plan, raced, edits>>

-----------------------------------------------------------------------------
(* Releasing it. *)

\* remove, of its own directory: gone already, replaced by another, or removed.
Unlock(w) ==
    /\ pc[w] \in {"undo"} \cup Releasing /\ guard = w
    /\ lease' = IF lease # NoLease /\ lease.by = w THEN NoLease ELSE lease
    /\ LeaveGuard(w, "done")
    /\ UNCHANGED <<proc, file, plan, raced, edits>>

\* The owner file or the directory cannot be removed.
UnlockFails(w) ==
    /\ pc[w] \in {"undo"} \cup Releasing /\ guard = w
    /\ lease # NoLease /\ lease.by = w
    /\ Fault
    /\ lease' \in HalfRemoved
    /\ guard' = NoOne
    /\ \E ph \in AfterFailure(w) : Go(w, ph)
    /\ UNCHANGED <<proc, file, plan, raced, edits>>

\* MUTANT of GivesUp: one failed attempt is enough.
GivesUpAtOnce(w) ==
    /\ pc[w] = "unlock" /\ guard # w /\ lease # NoLease /\ lease.owner = "none"
    /\ Go(w, "done")
    /\ UNCHANGED <<lease, guard, proc, file, plan, raced, edits, faults>>

\* The release has met the guard at every one of its twelve attempts, over more
\* than a minute: it is one that nobody removes.
GivesUp(w) ==
    /\ pc[w] = "unlock" /\ guard = Left
    /\ Go(w, "done")
    /\ UNCHANGED <<lease, guard, proc, file, plan, raced, edits, faults>>

-----------------------------------------------------------------------------
(* Time, crashes and other programs. *)

\* Thirty seconds without heartbeat.  A call that is under way lets them pass
\* only when its process is suspended.
Expire ==
    /\ lease # NoLease /\ ~lease.stale
    /\ lease' = [lease EXCEPT !.stale = TRUE]
    /\ IF pc[lease.by] \in Over THEN UNCHANGED faults ELSE Fault
    /\ UNCHANGED <<pc, guard, proc, file, plan, raced, edits>>

Heartbeat(w) ==
    /\ Live(w) /\ Turn(w)
    /\ lease # NoLease /\ lease.by = w /\ lease.stale
    /\ lease' = [lease EXCEPT !.stale = FALSE]
    /\ UNCHANGED <<pc, guard, proc, file, plan, raced, edits, faults>>

\* The guarded section w is in removes the lease that is there.
Removes(w) ==
    \/ pc[w] = "reclaim" /\ Reclaimable(w)
    \/ pc[w] \in {"undo"} \cup Releasing /\ lease.by = w

\* What a crash in the middle of w's guarded section leaves of the lease.
Remains(w) ==
    {lease}
    \cup (IF lease = NoLease /\ pc[w] \in {"create", "recreate"}
            THEN [by : {w}, owner : {"named", "none", "torn"}, stale : {FALSE}] ELSE {})
    \cup (IF lease # NoLease /\ Removes(w)
            THEN {[lease EXCEPT !.owner = "none", !.stale = FALSE], NoLease} ELSE {})

Crash(p) ==
    /\ proc[p] = "up"
    /\ Fault
    /\ proc' = [proc EXCEPT ![p] = "dead"]
    /\ pc' = [w \in Writers |-> IF Proc[w] = p THEN "dead" ELSE pc[w]]
    /\ IF guard \in Writers /\ Proc[guard] = p
         THEN guard' = Left /\ lease' \in Remains(guard)
         ELSE UNCHANGED <<guard, lease>>
    /\ UNCHANGED <<file, plan, raced, edits>>

PidReused(p) ==
    /\ proc[p] = "dead"
    /\ proc' = [proc EXCEPT ![p] = "reused"]
    /\ UNCHANGED <<pc, lease, guard, file, plan, raced, edits, faults>>

\* The user clears a guard that persists, once all writers are stopped.
ClearGuard ==
    /\ guard = Left
    /\ \A w \in Writers : pc[w] \in {"idle"} \cup Over
    /\ guard' = NoOne
    /\ UNCHANGED <<pc, lease, proc, file, plan, raced, edits, faults>>

\* Another editor saves, into the file or by replacing it.
Edit ==
    /\ edits < MaxEdits
    /\ edits' = edits + 1
    /\ file' \in {[text |-> edits', ino |-> i] : i \in {file.ino, edits'}}
    /\ raced' = raced \cup {w \in Writers :
                            pc[w] = "checked" \/ (pc[w] = "compared" /\ file'.ino = file.ino)}
    /\ UNCHANGED <<pc, lease, guard, proc, plan, faults>>

-----------------------------------------------------------------------------
Step(w) ==
    \/ EnterGuard(w) \/ GuardBusy(w) \/ Publish(w) \/ Taken(w) \/ Stat(w)
    \/ Reclaim(w) \/ Refused(w) \/ Probe(w)
    \/ Compare(w) \/ WriteTemporary(w) \/ CompareAgain(w) \/ Check(w) \/ Rename(w)
    \/ Unlock(w) \/ GivesUp(w)

Next ==
    \/ \E w \in Writers :
         \/ Begin(w) \/ Heartbeat(w) \/ Step(w)
         \/ GuardFails(w) \/ PublishFails(w) \/ ReclaimFails(w) \/ ProbeFails(w) \/ WriteFails(w) \/ UnlockFails(w)
    \/ \E p \in Procs : Crash(p) \/ PidReused(p)
    \/ Expire \/ ClearGuard \/ Edit

Spec == Init /\ [][Next]_vars

\* A call that has begun goes on while its process runs.
FairSpec == Spec /\ \A w \in Writers : SF_vars(EnterGuard(w)) /\ WF_vars(Step(w))

-----------------------------------------------------------------------------
(* Safety. *)

\* A writer that has passed its last check owns the lease until it has renamed:
\* no other process, and no other call of its own, however long it was
\* suspended, takes a stale lease from it (remove, liveTokens, assertHeldSync).
HeldAtRename ==
    \A w \in Writers : pc[w] = "checked" =>
        lease # NoLease /\ lease.by = w /\ lease.owner = "named"

\* A save replaces exactly what it was planned against: no save of another Roqer
\* writer is lost, and a save by another editor only if it falls between the
\* last comparison and the rename, as the comment of compareAndWrite admits, and
\* there only if it keeps the file or comes after the last check.
NoLostUpdate ==
    [][\A w \in Writers :
         pc[w] = "checked" /\ file' # file /\ file'.text = w =>
            file.text = plan[w].text \/ w \in raced]_vars

-----------------------------------------------------------------------------
(* Liveness.  Failures are finitely many, fewer than the attempts a release     *)
(* makes; every process that is up runs.                                        *)

\* A release that meets another writer's guard, or a delete that is refused for a
\* while, does not leave the file locked (RELEASE_RETRY_DELAYS_MS,
\* retryReleaseInBackground): the lease of a call goes, unless the process dies,
\* a guard is left behind, or a repeated release meets a failure of another kind
\* (such as a full disk when it makes the guard), at which it stops and the lease
\* stays with a live process.
LeaseReturned ==
    lease # NoLease /\ Live(lease.by)
        ~> \/ lease = NoLease \/ guard = Left
           \/ proc[Proc[lease.by]] # "up" \/ pc[lease.by] = "abandoned"
=============================================================================
