----------------------------- MODULE RunRecords -----------------------------
(***************************************************************************)
(* The runs of Roqer's desktop application and what is kept of them.  A run *)
(* holds its chat and its Studio place from the start (RunHolds); a start    *)
(* can be cancelled at every wait (PendingRuns); a journal file keeps what   *)
(* the run did (RunJournal) until the window has put it into its chat and    *)
(* that is saved (WorkspaceStore); what an earlier process left in the       *)
(* journal is put into the chats at the next launch (mergeRecoveredRuns).    *)
(*                                                                          *)
(* What a run does in Studio, the deletion of chats and the compaction of    *)
(* conversations are left out.  A workspace is how often each run is in it.  *)
(***************************************************************************)
EXTENDS WorkspaceStore, FiniteSets, Naturals, Sequences

CONSTANTS
    Runs, Chats, Places,
    ChatOf,      \* the chat of a run
    Wanted,      \* the place its window names for it, or None
    MaxFaults,   \* bound: deaths of the application and writes that fail
    MaxOpens     \* bound: windows opened

ASSUME RunAssumption ==
    /\ IsFiniteSet(Runs) /\ Chats \cap Places = {}
    /\ None \notin Runs \cup Chats \cup Places \cup {"open", "done"}
    /\ ChatOf \in [Runs -> Chats] /\ Wanted \in [Runs -> Places \cup {None}]
    /\ MaxFaults \in Nat /\ MaxOpens \in Nat
    /\ Workspaces = [Runs -> 0..2] /\ Empty = [r \in Runs |-> 0]

VARIABLES
    stage,     \* "new", "starting", "placed", "opening" its journal, "running",
               \* "discarding" its journal, or "over"
    aborted,   \* starts that were cancelled
    holder,    \* the run that holds each chat and place
    place,     \* the place a run holds
    mem,       \* its snapshot in memory: None, "open" or "done"
    file,      \* and on the disk
    dirty,     \* snapshots to write
    attempts,  \* writes of snapshots, one after the other
    broken,    \* a write in the background failed: no more runs
    window,    \* "down" (no process), "closed", "loading" or "open"
    view,      \* the workspace the window shows
    tracked,   \* the runs it follows
    ready,     \* storage is initialised: "no", "merging" or "yes"
    saveQueue, \* workspaces to save
    ran,       \* history: runs that have worked
    faults, opens

runs == <<stage, aborted, holder, place>>
journal == <<mem, file, dirty, attempts, broken>>
ui == <<window, view, tracked>>
vars == <<storeVars, runs, journal, ui, ready, saveQueue, ran, faults, opens>>

Keys == Chats \cup Places
Snapshots == {"open", "done", None}
Attempt == [ids : (SUBSET Runs) \ {{}}, background : BOOLEAN]
ChatFiles(w) == {<<c, [r \in {x \in Runs : ChatOf[x] = c} |-> w[r]]>> : c \in Chats}

RecordsTypeOK ==
    /\ StoreTypeOK
    /\ stage \in [Runs -> {"new", "starting", "placed", "opening", "running", "discarding", "over"}]
    /\ aborted \subseteq Runs /\ tracked \subseteq Runs /\ ran \subseteq Runs
    /\ holder \in [Keys -> Runs \cup {None}] /\ place \in [Runs -> Places \cup {None}]
    /\ mem \in [Runs -> Snapshots] /\ file \in [Runs -> Snapshots]
    /\ dirty \subseteq {r \in Runs : mem[r] # None}
    /\ attempts \in Seq(Attempt)
    /\ broken \in BOOLEAN /\ ready \in {"no", "merging", "yes"}
    /\ window \in {"down", "closed", "loading", "open"}
    /\ view \in Workspaces /\ saveQueue \in Seq(Workspaces)
    /\ faults \in 0..MaxFaults /\ opens \in 0..MaxOpens

Nobody == [r \in Runs |-> None]

Init ==
    /\ StoreInit
    /\ stage = [r \in Runs |-> "new"] /\ aborted = {} /\ place = Nobody
    /\ holder = [k \in Keys |-> None]
    /\ mem = Nobody /\ file = Nobody /\ dirty = {} /\ attempts = <<>> /\ broken = FALSE
    /\ window = "down" /\ view = Empty /\ tracked = {}
    /\ ready = "no" /\ saveQueue = <<>>
    /\ ran = {} /\ faults = 0 /\ opens = 0

-----------------------------------------------------------------------------
(* What a run holds (RunHolds). *)

\* MUTANT of LetGo: a release frees the keys whoever holds them now.
LetGoOfAll(r) == [k \in Keys |-> IF k \in {ChatOf[r], place[r]} THEN None ELSE holder[k]]

\* A release frees only what this run still holds.
LetGo(r) == [k \in Keys |-> IF holder[k] = r THEN None ELSE holder[k]]

LetGoOf(some) == [k \in Keys |-> IF holder[k] \in some THEN None ELSE holder[k]]

Unstarted == {"starting", "placed", "opening"}

\* A cancelled start lets go at once, and stops at its next step.
Abort(some) ==
    /\ aborted' = aborted \cup some
    /\ holder' = LetGoOf(some)
Starting == {r \in Runs : stage[r] \in Unstarted}

-----------------------------------------------------------------------------
(* A start (startRun). *)

Begin(r) ==
    LET keys == {ChatOf[r], Wanted[r]} \ {None} IN
    /\ window = "open" /\ stage[r] = "new"
    /\ IF \A k \in keys : holder[k] = None
         THEN /\ stage' = [stage EXCEPT ![r] = "starting"]
              /\ holder' = [k \in Keys |-> IF k \in keys THEN r ELSE holder[k]]
              /\ place' = [place EXCEPT ![r] = Wanted[r]]
              /\ tracked' = tracked \cup {r}
         ELSE /\ stage' = [stage EXCEPT ![r] = "over"]
              /\ UNCHANGED <<holder, place, tracked>>
    /\ UNCHANGED <<storeVars, aborted, journal, window, view, ready, saveQueue, ran, faults, opens>>

\* The start returns without a run, before its journal is opened.
GivesUp(r) ==
    /\ stage' = [stage EXCEPT ![r] = "over"]
    /\ holder' = LetGo(r)
    /\ tracked' = tracked \ {r}
    /\ UNCHANGED <<aborted, place>>

\* Storage, compaction, sign-in and attachments are there; a run without a place
\* gets the first one the bridge lists.
FindPlace(r) ==
    /\ stage[r] = "starting" /\ ready = "yes" /\ r \notin aborted /\ ~broken
    /\ \E p \in IF Wanted[r] = None THEN Places \cup {None} ELSE {Wanted[r]} :
         IF Wanted[r] # None \/ p = None \/ holder[p] = None
           THEN /\ stage' = [stage EXCEPT ![r] = "placed"]
                /\ place' = [place EXCEPT ![r] = p]
                /\ holder' = IF p = None THEN holder ELSE [holder EXCEPT ![p] = r]
                /\ UNCHANGED <<aborted, tracked>>
           ELSE GivesUp(r)
    /\ UNCHANGED <<storeVars, journal, window, view, ready, saveQueue, ran, faults, opens>>

\* The start was cancelled, or something it waits for fails.
StartFails(r) ==
    /\ stage[r] \in {"starting", "placed"}
    /\ GivesUp(r)
    /\ UNCHANGED <<storeVars, journal, window, view, ready, saveQueue, ran, faults, opens>>

Flushed(ids, background) == Append(attempts, [ids |-> ids, background |-> background])

OpenJournal(r) ==
    /\ stage[r] = "placed" /\ r \notin aborted
    /\ stage' = [stage EXCEPT ![r] = "opening"]
    /\ mem' = [mem EXCEPT ![r] = "open"]
    /\ attempts' = Flushed(dirty \cup {r}, FALSE)
    /\ dirty' = {}
    /\ UNCHANGED <<storeVars, aborted, holder, place, file, broken, ui, ready, saveQueue, ran, faults, opens>>

Queued == UNION {attempts[i].ids : i \in DOMAIN attempts}

Gone(some) == [r \in Runs |-> IF r \in some THEN None ELSE mem[r]]

\* Their files go; those of back are written once more.
Unlinked(some, back) ==
    [r \in Runs |-> IF r \in back THEN mem[r] ELSE IF r \in some THEN None ELSE file[r]]

\* MUTANT of Acknowledged: what failed to be written is tried again.
AcknowledgedOnly(some) ==
    /\ some \cap Queued = {}
    /\ mem' = Gone(some) /\ file' = Unlinked(some, {}) /\ UNCHANGED dirty

\* acknowledge: the journal of these runs is removed when the writes that were
\* under way have ended.  A snapshot whose write failed is still to be written,
\* and a flush for another run, between the removal of its file and its own,
\* puts the file back.
Acknowledged(some) ==
    /\ some \cap Queued = {}
    /\ mem' = Gone(some)
    /\ \E back \in SUBSET (some \cap dirty) : file' = Unlinked(some, back)
    /\ dirty' = dirty \ some

\* The first snapshot is on the disk: the run starts to work, unless cancelled.
Opened(r) ==
    /\ stage[r] = "opening" /\ r \notin Queued
    /\ IF r \in aborted
         THEN /\ stage' = [stage EXCEPT ![r] = "discarding"]
              /\ holder' = LetGo(r) /\ tracked' = tracked \ {r}
              /\ UNCHANGED ran
         ELSE /\ stage' = [stage EXCEPT ![r] = "running"]
              /\ ran' = ran \cup {r}
              /\ UNCHANGED <<holder, tracked>>
    /\ UNCHANGED <<storeVars, aborted, place, journal, window, view, ready, saveQueue, faults, opens>>

\* The journal of a run that never worked is removed.
Discard(r) ==
    /\ stage[r] = "discarding" /\ Acknowledged({r})
    /\ stage' = [stage EXCEPT ![r] = "over"]
    /\ UNCHANGED <<storeVars, aborted, holder, place, attempts, broken, ui, ready, saveQueue, ran, faults, opens>>

\* The run ends, by itself or cancelled.
Complete(r) ==
    /\ stage[r] = "running"
    /\ stage' = [stage EXCEPT ![r] = "over"]
    /\ holder' = LetGo(r)
    /\ mem' = [mem EXCEPT ![r] = "done"]
    /\ attempts' = Flushed(dirty \cup {r}, TRUE)
    /\ dirty' = {}
    /\ UNCHANGED <<storeVars, aborted, place, file, broken, ui, ready, saveQueue, ran, faults, opens>>

-----------------------------------------------------------------------------
(* The journal (RunJournal). *)

Written(ids) == [r \in Runs |-> IF r \in ids /\ mem[r] # None THEN mem[r] ELSE file[r]]

WriteJournal ==
    /\ attempts # <<>>
    /\ file' = Written(Head(attempts).ids)
    /\ attempts' = Tail(attempts)
    /\ UNCHANGED <<storeVars, runs, mem, dirty, broken, ui, ready, saveQueue, ran, faults, opens>>

\* What failed is written again, in the background by the timer of a running
\* run, or by the drain before something is removed.
Flush ==
    /\ dirty # {}
    /\ \E background \in BOOLEAN : attempts' = Flushed(dirty, background)
    /\ dirty' = {}
    /\ UNCHANGED <<storeVars, runs, mem, file, broken, ui, ready, saveQueue, ran, faults, opens>>

\* What failed is to be written again.  A start that waits for it fails; a
\* first failure in the background ends every run and every start.
JournalFails ==
    LET a == Head(attempts)
        waiting == {r \in a.ids : stage[r] = "opening"} IN
    /\ attempts # <<>> /\ faults < MaxFaults
    /\ \E done \in SUBSET a.ids : done # a.ids /\ file' = Written(done)
    /\ attempts' = Tail(attempts)
    /\ dirty' = dirty \cup {r \in a.ids : mem[r] # None}
    /\ broken' = (broken \/ a.background)
    /\ stage' = [r \in Runs |-> IF r \in waiting THEN "discarding" ELSE stage[r]]
    /\ tracked' = tracked \ waiting
    /\ IF broken' /\ ~broken THEN Abort(Starting) ELSE holder' = LetGoOf(waiting) /\ UNCHANGED aborted
    /\ faults' = faults + 1
    /\ UNCHANGED <<storeVars, place, mem, window, view, ready, saveQueue, ran, opens>>

\* Nothing could be removed: it stays for the next launch.
DiscardFails(r) ==
    /\ stage[r] = "discarding" /\ faults < MaxFaults
    /\ stage' = [stage EXCEPT ![r] = "over"]
    /\ faults' = faults + 1
    /\ UNCHANGED <<storeVars, aborted, holder, place, journal, ui, ready, saveQueue, ran, opens>>

-----------------------------------------------------------------------------
(* The window. *)

\* The start is stopped.  When the answer that it has become a run is on its
\* way, the run is cancelled later and the window does not follow it.
StopStart(r) ==
    /\ window = "open" /\ r \in tracked /\ stage[r] \in Unstarted \cup {"running"}
    /\ IF stage[r] = "running" THEN UNCHANGED <<aborted, holder>> ELSE Abort({r})
    /\ tracked' = tracked \ {r}
    /\ UNCHANGED <<storeVars, stage, place, journal, window, view, ready, saveQueue, ran, faults, opens>>

\* A finished run becomes a message of its chat, and every change is saved.
Record(r) ==
    /\ window = "open" /\ r \in tracked /\ stage[r] = "over"
    /\ view' = [view EXCEPT ![r] = @ + 1]
    /\ saveQueue' = Append(saveQueue, view')
    /\ tracked' = tracked \ {r}
    /\ UNCHANGED <<storeVars, runs, journal, window, ready, ran, faults, opens>>

\* The window goes, with a last save; nothing it started may go on.
Close ==
    /\ window = "open"
    /\ window' = "closed" /\ tracked' = {}
    /\ saveQueue' = Append(saveQueue, view)
    /\ Abort(Starting)
    /\ UNCHANGED <<storeVars, stage, place, journal, view, ready, ran, faults, opens>>

\* The application is launched, or, on macOS, gets a window again.
Open ==
    /\ window \in {"down", "closed"} /\ opens < MaxOpens
    /\ window' = "loading" /\ opens' = opens + 1
    /\ UNCHANGED <<storeVars, runs, journal, view, tracked, ready, saveQueue, ran, faults>>

\* A load waits for the save that is going on, not for those that wait.
Load ==
    /\ window = "loading" /\ ready = "yes" /\ step = "idle"
    /\ window' = "open" /\ view' = Saved
    /\ saveQueue' = Append(saveQueue, Saved)
    /\ UNCHANGED <<storeVars, runs, journal, tracked, ready, ran, faults, opens>>

-----------------------------------------------------------------------------
(* Saving (main.ts). *)

\* MUTANT of Merged: every run of the journal is added.
MergedAgain == [r \in Runs |-> Saved[r] + IF file[r] # None THEN 1 ELSE 0]

\* mergeRecoveredRuns.
Merged == [r \in Runs |-> IF Saved[r] = 0 /\ file[r] # None THEN 1 ELSE Saved[r]]

\* initializeStorage, up to its save.
Initialize ==
    /\ window = "loading" /\ ready = "no" /\ step = "idle"
    /\ mem' = file
    /\ IF file = Nobody THEN ready' = "yes" /\ UNCHANGED saveQueue
                        ELSE ready' = "merging" /\ saveQueue' = <<Merged>>
    /\ UNCHANGED <<storeVars, runs, file, dirty, attempts, broken, ui, ran, faults, opens>>

Save ==
    /\ saveQueue # <<>>
    /\ StartSave(Head(saveQueue))
    /\ UNCHANGED <<runs, journal, ui, ready, saveQueue, ran, faults, opens>>

\* MUTANT of Recorded: what is complete is taken for saved.
RecordedOrDone(w) == {r \in Runs : mem[r] = "done"}

\* The runs whose journal a save makes superfluous.
Recorded(w) == {r \in Runs : w[r] > 0 /\ mem[r] = "done"}

Superfluous == IF ready = "merging" THEN {r \in Runs : mem[r] # None} ELSE Recorded(Head(saveQueue))

\* The last step of a save, and the acknowledgement of what it has recorded.
FinishSave ==
    /\ Collect
    /\ Acknowledged(Superfluous)
    /\ saveQueue' = Tail(saveQueue)
    /\ ready' = "yes"
    /\ UNCHANGED <<runs, attempts, broken, ui, ran, faults, opens>>

GoOn == (WriteChat \/ ChatsWritten \/ WritePrevious \/ WriteManifest)
        /\ UNCHANGED <<runs, journal, ui, ready, saveQueue, ran, faults, opens>>

\* A write fails, or the acknowledgement does: the journal stays.
SaveFails ==
    /\ Stop /\ faults < MaxFaults
    /\ saveQueue' = Tail(saveQueue)
    /\ ready' = IF ready = "merging" THEN "no" ELSE ready
    /\ faults' = faults + 1
    /\ UNCHANGED <<runs, journal, ui, ran, opens>>

\* The application dies, or quits.
Die ==
    /\ window # "down" /\ faults < MaxFaults
    /\ IF step = "idle" THEN UNCHANGED storeVars ELSE Stop
    /\ IF attempts = <<>> THEN UNCHANGED file
                          ELSE \E done \in SUBSET Head(attempts).ids : file' = Written(done)
    /\ stage' = [r \in Runs |-> IF stage[r] = "new" THEN "new" ELSE "over"]
    /\ aborted' = {} /\ place' = Nobody /\ holder' = [k \in Keys |-> None]
    /\ mem' = Nobody /\ dirty' = {} /\ attempts' = <<>> /\ broken' = FALSE
    /\ window' = "down" /\ view' = Empty /\ tracked' = {}
    /\ ready' = "no" /\ saveQueue' = <<>>
    /\ faults' = faults + 1
    /\ UNCHANGED <<ran, opens>>

-----------------------------------------------------------------------------
Next ==
    \/ \E r \in Runs : Begin(r) \/ FindPlace(r) \/ StartFails(r) \/ OpenJournal(r) \/ Opened(r)
    \/ \E r \in Runs : Discard(r) \/ DiscardFails(r) \/ Complete(r) \/ StopStart(r) \/ Record(r)
    \/ WriteJournal \/ Flush \/ JournalFails
    \/ Close \/ Open \/ Load \/ Initialize
    \/ Save \/ GoOn \/ FinishSave \/ SaveFails \/ Die

Spec == Init /\ [][Next]_vars

-----------------------------------------------------------------------------
(* Properties. *)

\* A run that starts or works, and was not cancelled before it worked, holds its
\* chat and its place, and nothing is held by any other: one run per chat, one
\* per place, no start that was cancelled ever works, and no key is left behind
\* (run-claims.ts).
HoldsAreExact ==
    LET live == {r \in Runs : stage[r] = "running" \/ (stage[r] \in Unstarted /\ r \notin aborted)} IN
    \A k \in Keys : {r \in live : k \in {ChatOf[r], place[r]}} = {holder[k]} \ {None}

\* A run that has worked is in the journal or in the saved chats, whatever fails
\* and whenever the application dies ("Chats are saved on your computer",
\* README.md:49; the journal keeps a run "until it is acknowledged",
\* run-journal.test.ts:130).
NothingLost == \A r \in ran : file[r] # None \/ Saved[r] > 0

\* A window is opened again only when nothing waits to be saved: what NothingLost
\* presumes, because a load does not wait for it.
Quiet == window' = "loading" /\ window # "loading" => saveQueue = <<>>

\* No run is put into its chat twice, however often recovery is interrupted
\* ("Keeps recovery idempotent", recovered-runs.ts).
RecordedOnce == \A r \in Runs : Saved[r] <= 1 /\ view[r] <= 1
==============================================================================
