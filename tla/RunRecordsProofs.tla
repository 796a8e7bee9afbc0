-------------------------- MODULE RunRecordsProofs --------------------------
(***************************************************************************)
(* What TLAPS proves of RunRecords and of the store it uses, for any number *)
(* of runs, chats and places: whatever fails and whenever the application   *)
(* dies, what is saved can be loaded, and chats and places are held by the  *)
(* runs that start or work, and only by these.                              *)
(***************************************************************************)
EXTENDS RunRecords, TLAPS

\* AlwaysLoadable alone is not inductive: the manifest that is written next
\* needs its chats, too, until it is.
StoreInv ==
    /\ AlwaysLoadable
    /\ step \in {"previous", "manifest"} => FilesOf(saving) \subseteq files

LEMMA StoreStarts == StoreInit => StoreInv
BY DEF StoreInit, StoreInv, AlwaysLoadable, Named

LEMMA StartKeepsStore ==
    ASSUME NEW w, StoreInv, StartSave(w)
    PROVE  StoreInv'
BY DEF StoreInv, AlwaysLoadable, Named, StartSave, disk

LEMMA WriteChatKeepsStore == StoreInv /\ WriteChat => StoreInv'
BY DEF StoreInv, AlwaysLoadable, Named, WriteChat

LEMMA ChatsWrittenKeepsStore == StoreInv /\ ChatsWritten => StoreInv'
BY DEF StoreInv, AlwaysLoadable, Named, ChatsWritten, disk

LEMMA PreviousKeepsStore == StoreInv /\ WritePrevious => StoreInv'
BY DEF StoreInv, AlwaysLoadable, Named, WritePrevious

LEMMA ManifestKeepsStore == StoreInv /\ WriteManifest => StoreInv'
BY DEF StoreInv, AlwaysLoadable, Named, WriteManifest

\* What is collected is named by neither manifest.
LEMMA RemovingKeepsLoadable ==
    ASSUME NEW gone, AlwaysLoadable, Removes(gone), UNCHANGED <<manifest, previous>>
    PROVE  AlwaysLoadable'
BY DEF AlwaysLoadable, Removes, Retained, Named

LEMMA CollectKeepsStore == StoreInv /\ Collect => StoreInv'
BY RemovingKeepsLoadable DEF StoreInv, Collect

LEMMA StopKeepsStore == StoreInv /\ Stop => StoreInv'
<1> SUFFICES ASSUME StoreInv, Stop PROVE StoreInv'
  OBVIOUS
<1>1. step' = "idle"
  BY DEF Stop
<1>2. AlwaysLoadable'
  <2>1. CASE step = "collect"
    BY <2>1, RemovingKeepsLoadable DEF StoreInv, Stop
  <2>2. CASE step # "collect"
    BY <2>2 DEF StoreInv, AlwaysLoadable, Named, Stop
  <2> QED BY <2>1, <2>2
<1> QED BY <1>1, <1>2 DEF StoreInv

LEMMA IdleKeepsStore == StoreInv /\ UNCHANGED storeVars => StoreInv'
BY DEF StoreInv, AlwaysLoadable, Named, storeVars, disk

LEMMA StoreNextKeepsStore == StoreInv /\ [StoreNext]_storeVars => StoreInv'
BY StartKeepsStore, WriteChatKeepsStore, ChatsWrittenKeepsStore, PreviousKeepsStore,
   ManifestKeepsStore, CollectKeepsStore, StopKeepsStore, IdleKeepsStore
   DEF StoreNext, StoreStep

\* A store that saves whatever it is given, fails and stops at any moment has
\* both manifests on their chats.
THEOREM StoreIsLoadable == StoreSpec => []AlwaysLoadable
<1>1. StoreInv => AlwaysLoadable
  BY DEF StoreInv
<1> QED BY StoreStarts, StoreNextKeepsStore, <1>1, PTL DEF StoreSpec

-----------------------------------------------------------------------------
\* A step of the application is a step of its store, or leaves it alone.
LEMMA StepKeepsStore == StoreInv /\ [Next]_vars => StoreInv'
<1> SUFFICES ASSUME StoreInv, [Next]_vars PROVE StoreInv'
  OBVIOUS
<1>1. ASSUME NEW r \in Runs,
             \/ Begin(r) \/ FindPlace(r) \/ StartFails(r) \/ OpenJournal(r) \/ Opened(r)
             \/ Discard(r) \/ DiscardFails(r) \/ Complete(r) \/ StopStart(r) \/ Record(r)
      PROVE  UNCHANGED storeVars
  BY <1>1 DEF Begin, FindPlace, StartFails, OpenJournal, Opened, Discard, DiscardFails,
              Complete, StopStart, Record
<1>2. CASE \/ WriteJournal \/ Flush \/ JournalFails \/ Close \/ Open \/ Load \/ Initialize
           \/ UNCHANGED vars
  <2>1. UNCHANGED storeVars
    BY <1>2 DEF WriteJournal, Flush, JournalFails, Close, Open, Load, Initialize, vars
  <2> QED BY <2>1, IdleKeepsStore
<1>3. CASE Save
  BY <1>3, StartKeepsStore DEF Save
<1>4. CASE GoOn
  BY <1>4, WriteChatKeepsStore, ChatsWrittenKeepsStore, PreviousKeepsStore, ManifestKeepsStore DEF GoOn
<1>5. CASE FinishSave
  BY <1>5, CollectKeepsStore DEF FinishSave
<1>6. CASE SaveFails
  BY <1>6, StopKeepsStore DEF SaveFails
<1>7. CASE Die
  BY <1>7, StopKeepsStore, IdleKeepsStore DEF Die
<1> QED BY <1>1, <1>2, <1>3, <1>4, <1>5, <1>6, <1>7, IdleKeepsStore DEF Next

\* In the desktop application, whatever fails and whenever it dies, both
\* manifests refer only to chat files that are there.
THEOREM SavedIsLoadable == Spec => []AlwaysLoadable
<1>1. Init => StoreInv
  BY StoreStarts DEF Init
<1>2. StoreInv => AlwaysLoadable
  BY DEF StoreInv
<1> QED BY <1>1, <1>2, StepKeepsStore, PTL DEF Spec

-----------------------------------------------------------------------------
Stages == {"new", "starting", "placed", "opening", "running", "discarding", "over"}

Live(r) == stage[r] = "running" \/ (stage[r] \in Unstarted /\ r \notin aborted)

HoldsTypeOK ==
    /\ stage \in [Runs -> Stages]
    /\ aborted \subseteq Runs
    /\ holder \in [Keys -> Runs \cup {None}]
    /\ place \in [Runs -> Places \cup {None}]

\* HoldsAreExact, one run and one key at a time.
Exact == \A k \in Keys, r \in Runs : holder[k] = r <=> Live(r) /\ k \in {ChatOf[r], place[r]}

\* A run that could be cancelled has begun, and one that looks for a place has
\* no other than the one it asked for.
Fresh ==
    \A r \in Runs : /\ stage[r] = "new" => r \notin aborted
                    /\ stage[r] = "starting" => place[r] = Wanted[r]

HoldsInv == HoldsTypeOK /\ Exact /\ Fresh

LEMMA ExactHolds == HoldsTypeOK /\ Exact => HoldsAreExact
BY RunAssumption DEF HoldsTypeOK, Exact, HoldsAreExact, Live, Keys

LEMMA HoldsStart == Init => HoldsInv
BY RunAssumption DEF Init, HoldsInv, HoldsTypeOK, Exact, Fresh, Live, Stages, Unstarted, Keys, Nobody

LEMMA BeginKeepsHolds ==
    ASSUME NEW r \in Runs, HoldsInv, Begin(r)
    PROVE  HoldsInv'
<1> DEFINE keys == {ChatOf[r], Wanted[r]} \ {None}
<1>1. CASE \A k \in keys : holder[k] = None
  <2>1. /\ stage[r] = "new"
        /\ stage' = [stage EXCEPT ![r] = "starting"]
        /\ holder' = [k \in Keys |-> IF k \in keys THEN r ELSE holder[k]]
        /\ place' = [place EXCEPT ![r] = Wanted[r]]
        /\ UNCHANGED aborted
    BY <1>1 DEF Begin
  <2>2. HoldsTypeOK' /\ Fresh'
    BY <2>1, RunAssumption DEF HoldsInv, HoldsTypeOK, Fresh, Stages
  <2>3. \A k \in Keys : k \in keys <=> k \in {ChatOf[r], place'[r]}
    BY <2>1, RunAssumption DEF HoldsInv, HoldsTypeOK, Keys
  <2>4. Live(r)' /\ ~Live(r)
    BY <2>1 DEF HoldsInv, HoldsTypeOK, Fresh, Live, Unstarted
  <2>5. \A x \in Runs \ {r} : (Live(x)' <=> Live(x)) /\ place'[x] = place[x]
    BY <2>1 DEF HoldsInv, HoldsTypeOK, Live
  <2> HIDE DEF keys
  <2>6. ASSUME NEW k \in Keys, NEW x \in Runs
        PROVE  holder'[k] = x <=> Live(x)' /\ k \in {ChatOf[x], place'[x]}
    <3>1. CASE x = r
      BY <1>1, <2>1, <2>3, <2>4, <3>1 DEF HoldsInv, Exact
    <3>2. CASE x # r
      BY <1>1, <2>1, <2>5, <3>2, RunAssumption DEF HoldsInv, Exact
    <3> QED BY <3>1, <3>2
  <2> QED BY <2>2, <2>6 DEF HoldsInv, Exact
<1>2. CASE ~(\A k \in keys : holder[k] = None)
  BY <1>2 DEF Begin, HoldsInv, HoldsTypeOK, Exact, Fresh, Live, Stages, Unstarted
<1> QED BY <1>1, <1>2

\* A start that gives up holds nothing and touches no other run.
LEMMA GivingUpKeepsHolds ==
    ASSUME NEW r \in Runs, HoldsInv, GivesUp(r)
    PROVE  HoldsInv'
BY RunAssumption DEF GivesUp, LetGo, HoldsInv, HoldsTypeOK, Exact, Fresh, Live, Stages, Unstarted, Keys

LEMMA FindPlaceKeepsHolds ==
    ASSUME NEW r \in Runs, HoldsInv, FindPlace(r)
    PROVE  HoldsInv'
<1>1. CASE GivesUp(r)
  BY <1>1, GivingUpKeepsHolds
<1>2. CASE stage' = [stage EXCEPT ![r] = "placed"]
  BY <1>2, RunAssumption DEF FindPlace, GivesUp, HoldsInv, HoldsTypeOK, Exact, Fresh, Live, Stages, Unstarted, Keys
<1> QED BY <1>1, <1>2 DEF FindPlace

LEMMA OpenJournalKeepsHolds ==
    ASSUME NEW r \in Runs, HoldsInv, OpenJournal(r)
    PROVE  HoldsInv'
BY DEF OpenJournal, HoldsInv, HoldsTypeOK, Exact, Fresh, Live, Stages, Unstarted

LEMMA OpenedKeepsHolds ==
    ASSUME NEW r \in Runs, HoldsInv, Opened(r)
    PROVE  HoldsInv'
<1>1. CASE r \in aborted
  BY <1>1, RunAssumption DEF Opened, LetGo, HoldsInv, HoldsTypeOK, Exact, Fresh, Live, Stages, Unstarted, Keys
<1>2. CASE r \notin aborted
  BY <1>2 DEF Opened, HoldsInv, HoldsTypeOK, Exact, Fresh, Live, Stages, Unstarted
<1> QED BY <1>1, <1>2

LEMMA DiscardKeepsHolds ==
    ASSUME NEW r \in Runs, HoldsInv, Discard(r) \/ DiscardFails(r)
    PROVE  HoldsInv'
BY DEF Discard, DiscardFails, HoldsInv, HoldsTypeOK, Exact, Fresh, Live, Stages, Unstarted

LEMMA CompleteKeepsHolds ==
    ASSUME NEW r \in Runs, HoldsInv, Complete(r)
    PROVE  HoldsInv'
BY RunAssumption DEF Complete, LetGo, HoldsInv, HoldsTypeOK, Exact, Fresh, Live, Stages, Unstarted, Keys

\* Cancelling starts frees exactly what these hold.
LEMMA AbortKeepsHolds ==
    ASSUME NEW some, some \subseteq Starting, HoldsInv, Abort(some), UNCHANGED <<stage, place>>
    PROVE  HoldsInv'
BY RunAssumption DEF Abort, LetGoOf, Starting, HoldsInv, HoldsTypeOK, Exact, Fresh, Live, Stages, Unstarted, Keys

LEMMA StopStartKeepsHolds ==
    ASSUME NEW r \in Runs, HoldsInv, StopStart(r)
    PROVE  HoldsInv'
<1>1. CASE stage[r] = "running"
  BY <1>1 DEF StopStart, HoldsInv, HoldsTypeOK, Exact, Fresh, Live
<1>2. CASE stage[r] # "running"
  <2>1. {r} \subseteq Starting
    BY <1>2 DEF StopStart, Starting
  <2> QED BY <1>2, <2>1, AbortKeepsHolds DEF StopStart
<1> QED BY <1>1, <1>2

LEMMA JournalFailsKeepsHolds == HoldsInv /\ JournalFails => HoldsInv'
<1> SUFFICES ASSUME HoldsInv, JournalFails PROVE HoldsInv'
  OBVIOUS
<1> DEFINE waiting == {r \in Head(attempts).ids : stage[r] = "opening"}
<1>1. /\ stage' = [r \in Runs |-> IF r \in waiting THEN "discarding" ELSE stage[r]]
      /\ UNCHANGED place
  BY DEF JournalFails
<1>2. \/ holder' = LetGoOf(waiting) /\ UNCHANGED aborted
      \/ Abort(Starting)
  BY DEF JournalFails
<1>3. \A r \in Runs : r \in waiting => stage[r] = "opening"
  OBVIOUS
<1> HIDE DEF waiting
<1>4. CASE holder' = LetGoOf(waiting) /\ UNCHANGED aborted
  BY <1>1, <1>3, <1>4, RunAssumption
     DEF LetGoOf, HoldsInv, HoldsTypeOK, Exact, Fresh, Live, Stages, Unstarted, Keys
<1>5. CASE Abort(Starting)
  BY <1>1, <1>3, <1>5, RunAssumption
     DEF Abort, LetGoOf, Starting, HoldsInv, HoldsTypeOK, Exact, Fresh, Live, Stages, Unstarted, Keys
<1> QED BY <1>2, <1>4, <1>5

LEMMA DieKeepsHolds == HoldsInv /\ Die => HoldsInv'
BY RunAssumption DEF Die, Nobody, HoldsInv, HoldsTypeOK, Exact, Fresh, Live, Stages, Unstarted, Keys

LEMMA OtherStepsKeepHolds ==
    HoldsInv /\ UNCHANGED <<stage, aborted, holder, place>> => HoldsInv'
BY DEF HoldsInv, HoldsTypeOK, Exact, Fresh, Live

LEMMA StepKeepsHolds == HoldsInv /\ [Next]_vars => HoldsInv'
<1> SUFFICES ASSUME HoldsInv, [Next]_vars PROVE HoldsInv'
  OBVIOUS
<1>1. ASSUME NEW r \in Runs, Begin(r) \/ FindPlace(r) \/ StartFails(r) \/ OpenJournal(r) \/ Opened(r)
      PROVE  HoldsInv'
  BY <1>1, BeginKeepsHolds, FindPlaceKeepsHolds, GivingUpKeepsHolds, OpenJournalKeepsHolds,
     OpenedKeepsHolds DEF StartFails
<1>2. ASSUME NEW r \in Runs, Discard(r) \/ DiscardFails(r) \/ Complete(r) \/ StopStart(r)
      PROVE  HoldsInv'
  BY <1>2, DiscardKeepsHolds, CompleteKeepsHolds, StopStartKeepsHolds
<1>3. CASE Close
  BY <1>3, AbortKeepsHolds DEF Close
<1>4. CASE JournalFails
  BY <1>4, JournalFailsKeepsHolds
<1>5. CASE Die
  BY <1>5, DieKeepsHolds
<1>6. CASE \/ \E r \in Runs : Record(r)
           \/ WriteJournal \/ Flush \/ Open \/ Load \/ Initialize
           \/ Save \/ GoOn \/ FinishSave \/ SaveFails \/ UNCHANGED vars
  <2>1. UNCHANGED <<stage, aborted, holder, place>>
    BY <1>6 DEF Record, WriteJournal, Flush, Open, Load, Initialize, Save, GoOn, FinishSave,
                SaveFails, vars, runs
  <2> QED BY <2>1, OtherStepsKeepHolds
<1> QED BY <1>1, <1>2, <1>3, <1>4, <1>5, <1>6 DEF Next

\* Every run that starts or works, and was not cancelled before it worked, holds
\* its chat and its place, and no other run holds anything: one run per chat, one
\* per place, and nothing is left behind (run-claims.ts).
THEOREM HoldsStayExact == Spec => []HoldsAreExact
<1>1. HoldsInv => HoldsAreExact
  BY ExactHolds DEF HoldsInv
<1> QED BY <1>1, HoldsStart, StepKeepsHolds, PTL DEF Spec
-----------------------------------------------------------------------------
(* Sequences. *)

LEMMA AppendIs ==
    ASSUME NEW S, NEW s \in Seq(S), NEW x \in S
    PROVE  /\ Append(s, x) \in Seq(S) /\ Append(s, x) # <<>>
           /\ Len(s) \in Nat /\ Len(Append(s, x)) = Len(s) + 1
           /\ DOMAIN s = 1..Len(s) /\ DOMAIN Append(s, x) = 1..(Len(s) + 1)
           /\ Append(s, x)[Len(s) + 1] = x
           /\ \A i \in 1..Len(s) : Append(s, x)[i] = s[i] /\ i \in 1..(Len(s) + 1)
OBVIOUS

LEMMA TailIs ==
    ASSUME NEW S, NEW s \in Seq(S), s # <<>>
    PROVE  /\ Head(s) \in S /\ Head(s) = s[1] /\ Tail(s) \in Seq(S)
           /\ Len(s) \in Nat /\ Len(s) > 0 /\ Len(Tail(s)) = Len(s) - 1
           /\ DOMAIN s = 1..Len(s) /\ DOMAIN Tail(s) = 1..(Len(s) - 1)
           /\ \A i \in 1..(Len(s) - 1) : Tail(s)[i] = s[i + 1] /\ i + 1 \in 1..Len(s)
OBVIOUS

-----------------------------------------------------------------------------
(* Types, and what is recorded. *)

JournalTyped ==
    /\ mem \in [Runs -> Snapshots] /\ file \in [Runs -> Snapshots]
    /\ dirty \subseteq {r \in Runs : mem[r] # None}
    /\ attempts \in Seq(Attempt)
    /\ broken \in BOOLEAN

WorkspacesTyped == StoreTypeOK /\ view \in Workspaces /\ saveQueue \in Seq(Workspaces)

RestTyped ==
    /\ tracked \subseteq Runs /\ ran \subseteq Runs
    /\ ready \in {"no", "merging", "yes"}
    /\ window \in {"down", "closed", "loading", "open"}
    /\ faults \in 0..MaxFaults /\ opens \in 0..MaxOpens

\* No journal is written before storage is initialised.
Recovering ==
    ready # "yes" => /\ attempts = <<>> /\ dirty = {}
                     /\ \A r \in Runs : stage[r] \in {"new", "starting", "over"}

\* A workspace has each run at most once, and none that has not begun.
OnceIn(w) == \A r \in Runs : w[r] <= 1 /\ (stage[r] = "new" => w[r] = 0)

Once ==
    /\ OnceIn(Saved) /\ OnceIn(view)
    /\ saving # None => OnceIn(saving)
    /\ \A i \in DOMAIN saveQueue : OnceIn(saveQueue[i])

\* What the window follows it has not recorded yet.
Unrecorded ==
    /\ window # "open" => tracked = {}
    /\ \A r \in tracked : view[r] = 0 /\ stage[r] # "new"

\* The journal knows only runs that have begun.
Begun == \A r \in Runs : stage[r] = "new" => mem[r] = None /\ file[r] = None

\* The save that is going on is of the first workspace that waits.
HeadIsSaved ==
    /\ saving # None => saveQueue # <<>> /\ saving = Head(saveQueue)
    /\ step = "collect" => manifest = saving

OnceInv ==
    /\ HoldsInv /\ JournalTyped /\ WorkspacesTyped /\ RestTyped
    /\ Recovering /\ Once /\ Unrecorded /\ Begun /\ HeadIsSaved

LEMMA OnceStart == Init => OnceInv
<1> SUFFICES ASSUME Init PROVE OnceInv
  OBVIOUS
<1>1. HoldsInv
  BY HoldsStart
<1>2. JournalTyped /\ Begun
  <2>1. <<>> \in Seq(Attempt)
    OBVIOUS
  <2> QED BY <2>1 DEF Init, JournalTyped, Begun, Nobody, Snapshots
<1>3. WorkspacesTyped
  BY WorkspaceAssumption DEF Init, WorkspacesTyped, StoreInit, StoreTypeOK, Steps
<1>4. RestTyped
  BY RunAssumption DEF Init, RestTyped
<1>5. Recovering /\ Unrecorded
  BY DEF Init, Recovering, Unrecorded
<1>6. Once /\ HeadIsSaved
  BY RunAssumption DEF Init, StoreInit, Once, OnceIn, Saved, HeadIsSaved
<1> QED BY <1>1, <1>2, <1>3, <1>4, <1>5, <1>6 DEF OnceInv

\* A run begins once.
LEMMA BeginsOnce ==
    ASSUME HoldsInv, [Next]_vars, NEW r \in Runs, stage'[r] = "new"
    PROVE  stage[r] = "new"
<1>1. ASSUME NEW x \in Runs,
             \/ Begin(x) \/ FindPlace(x) \/ StartFails(x) \/ OpenJournal(x) \/ Opened(x)
             \/ Discard(x) \/ DiscardFails(x) \/ Complete(x)
      PROVE  stage[r] = "new"
  BY <1>1 DEF HoldsInv, HoldsTypeOK, Begin, FindPlace, GivesUp, StartFails, OpenJournal, Opened,
              Discard, DiscardFails, Complete
<1>2. CASE JournalFails
  BY <1>2 DEF HoldsInv, HoldsTypeOK, JournalFails
<1>3. CASE Die
  BY <1>3 DEF HoldsInv, HoldsTypeOK, Die
<1>4. CASE UNCHANGED stage
  BY <1>4
<1> QED
  BY <1>1, <1>2, <1>3, <1>4 DEF Next, vars, runs, StopStart, Record, WriteJournal, Flush, Close, Open,
     Load, Initialize, Save, GoOn, FinishSave, SaveFails

LEMMA FlushedTyped ==
    ASSUME attempts \in Seq(Attempt), NEW ids \in SUBSET Runs, ids # {}, NEW b \in BOOLEAN
    PROVE  Flushed(ids, b) \in Seq(Attempt)
<1>1. [ids |-> ids, background |-> b] \in Attempt
  BY DEF Attempt
<1> QED BY <1>1, AppendIs DEF Flushed

LEMMA WrittenTyped ==
    ASSUME JournalTyped, NEW ids
    PROVE  Written(ids) \in [Runs -> Snapshots]
BY DEF JournalTyped, Written

\* An acknowledgement touches the journal of its runs only.
LEMMA AcknowledgedEffect ==
    ASSUME JournalTyped, NEW some \in SUBSET Runs, Acknowledged(some)
    PROVE  /\ mem' \in [Runs -> Snapshots] /\ file' \in [Runs -> Snapshots]
           /\ dirty' \subseteq {r \in Runs : mem'[r] # None}
           /\ \A r \in Runs \ some : mem'[r] = mem[r] /\ file'[r] = file[r]
           /\ \A r \in some : mem'[r] = None
<1>1. mem' = Gone(some) /\ dirty' = dirty \ some
  BY DEF Acknowledged
<1>2. PICK back \in SUBSET some : file' = Unlinked(some, back)
  BY DEF Acknowledged
<1>3. mem \in [Runs -> Snapshots] /\ file \in [Runs -> Snapshots] /\ dirty \subseteq {r \in Runs : mem[r] # None}
  BY DEF JournalTyped
<1> QED BY <1>1, <1>2, <1>3 DEF Gone, Unlinked, Snapshots

LEMMA JournalTypedKept == OnceInv /\ [Next]_vars => JournalTyped'
<1> SUFFICES ASSUME OnceInv, [Next]_vars PROVE JournalTyped'
  OBVIOUS
<1>1. JournalTyped /\ dirty \subseteq Runs
  BY DEF OnceInv, JournalTyped
<1>2. ASSUME NEW r \in Runs, OpenJournal(r) \/ Complete(r)
      PROVE  JournalTyped'
  <2>1. /\ attempts \in Seq(Attempt) /\ dirty \cup {r} \in SUBSET Runs /\ dirty \cup {r} # {}
        /\ \E b \in BOOLEAN : attempts' = Flushed(dirty \cup {r}, b)
    BY <1>1, <1>2 DEF JournalTyped, OpenJournal, Complete
  <2>2. attempts' \in Seq(Attempt)
    BY <2>1, FlushedTyped
  <2> QED BY <1>1, <1>2, <2>2 DEF JournalTyped, OpenJournal, Complete, Snapshots
<1>3. ASSUME NEW r \in Runs, Discard(r)
      PROVE  JournalTyped'
  <2>1. Acknowledged({r}) /\ UNCHANGED <<attempts, broken>>
    BY <1>3 DEF Discard
  <2> QED BY <1>1, <2>1, AcknowledgedEffect DEF JournalTyped
<1>4. CASE WriteJournal
  BY <1>1, <1>4, WrittenTyped, TailIs DEF JournalTyped, WriteJournal
<1>5. CASE Flush
  <2>1. attempts' \in Seq(Attempt)
    BY <1>1, <1>5, FlushedTyped DEF JournalTyped, Flush
  <2> QED BY <1>1, <1>5, <2>1 DEF JournalTyped, Flush
<1>6. CASE JournalFails
  <2>1. Head(attempts) \in Attempt /\ Tail(attempts) \in Seq(Attempt)
    BY <1>1, <1>6, TailIs DEF JournalTyped, JournalFails
  <2>2. Head(attempts).ids \subseteq Runs /\ Head(attempts).background \in BOOLEAN
    BY <2>1 DEF Attempt
  <2>3. file' \in [Runs -> Snapshots]
    BY <1>1, <1>6, WrittenTyped DEF JournalFails
  <2>4. broken' \in BOOLEAN
    BY <1>1, <1>6, <2>2 DEF JournalTyped, JournalFails
  <2>5. dirty' \subseteq {r \in Runs : mem[r] # None} /\ mem' = mem /\ attempts' = Tail(attempts)
    BY <1>1, <1>6, <2>2 DEF JournalTyped, JournalFails
  <2> QED BY <1>1, <2>1, <2>3, <2>4, <2>5 DEF JournalTyped
<1>7. CASE Initialize
  BY <1>1, <1>7 DEF JournalTyped, Initialize, OnceInv, Recovering
<1>8. CASE FinishSave
  <2>1. Acknowledged(Superfluous) /\ Superfluous \in SUBSET Runs /\ UNCHANGED <<attempts, broken>>
    BY <1>8 DEF FinishSave, Superfluous, Recorded
  <2> QED BY <1>1, <2>1, AcknowledgedEffect DEF JournalTyped
<1>9. CASE Die
  <2>1. file' \in [Runs -> Snapshots]
    BY <1>1, <1>9, WrittenTyped DEF Die, JournalTyped
  <2>2. <<>> \in Seq(Attempt)
    OBVIOUS
  <2> QED BY <1>9, <2>1, <2>2 DEF Die, JournalTyped, Nobody, Snapshots
<1>10. CASE UNCHANGED journal
  BY <1>1, <1>10 DEF journal, JournalTyped
<1> QED
  BY <1>2, <1>3, <1>4, <1>5, <1>6, <1>7, <1>8, <1>9, <1>10 DEF Next, vars, journal, Begin, FindPlace, StartFails,
     Opened, DiscardFails, StopStart, Record, Close, Open, Load, Save, GoOn, SaveFails
LEMMA RestTypedKept == OnceInv /\ [Next]_vars => RestTyped'
<1> SUFFICES ASSUME OnceInv, [Next]_vars PROVE RestTyped'
  OBVIOUS
<1>1. RestTyped /\ MaxFaults \in Nat /\ MaxOpens \in Nat
  BY RunAssumption DEF OnceInv
<1>2. ASSUME NEW r \in Runs, Begin(r) \/ FindPlace(r) \/ StartFails(r) \/ OpenJournal(r) \/ Opened(r)
      PROVE  RestTyped'
  BY <1>1, <1>2 DEF RestTyped, Begin, FindPlace, GivesUp, StartFails, OpenJournal, Opened, journal, ui
<1>3. ASSUME NEW r \in Runs, Discard(r) \/ Complete(r) \/ StopStart(r) \/ Record(r)
      PROVE  RestTyped'
  BY <1>1, <1>3 DEF RestTyped, Discard, Complete, StopStart, Record, ui
<1>4. CASE WriteJournal \/ Flush
  BY <1>1, <1>4 DEF RestTyped, WriteJournal, Flush, ui
<1>5. CASE Close \/ Open \/ Load
  BY <1>1, <1>5 DEF RestTyped, Close, Open, Load
<1>6. CASE Initialize
  BY <1>1, <1>6 DEF RestTyped, Initialize, ui
<1>7. CASE Save \/ GoOn \/ FinishSave \/ UNCHANGED vars
  BY <1>1, <1>7 DEF RestTyped, Save, GoOn, FinishSave, vars, ui
<1>8. CASE SaveFails \/ Die \/ JournalFails \/ \E r \in Runs : DiscardFails(r)
  <2>1. /\ ready' \in {ready, "no"} /\ window' \in {window, "down"} /\ tracked' \subseteq tracked
        /\ faults < MaxFaults /\ faults' = faults + 1 /\ UNCHANGED <<ran, opens>>
    BY <1>1, <1>8 DEF RestTyped, SaveFails, Die, JournalFails, DiscardFails, ui
  <2> QED BY <1>1, <2>1 DEF RestTyped
<1> QED BY <1>2, <1>3, <1>4, <1>5, <1>6, <1>7, <1>8 DEF Next

LEMMA RecoveringKept == OnceInv /\ [Next]_vars => Recovering'
<1> SUFFICES ASSUME OnceInv, [Next]_vars PROVE Recovering'
  OBVIOUS
<1>1. Recovering /\ HoldsTypeOK
  BY DEF OnceInv, HoldsInv
<1>2. ASSUME NEW r \in Runs, Begin(r) \/ FindPlace(r) \/ StartFails(r) \/ OpenJournal(r) \/ Opened(r)
      PROVE  Recovering'
  BY <1>1, <1>2 DEF Recovering, HoldsTypeOK, Begin, FindPlace, GivesUp, StartFails, OpenJournal, Opened, journal
<1>3. ASSUME NEW r \in Runs, Discard(r) \/ DiscardFails(r) \/ Complete(r) \/ StopStart(r) \/ Record(r)
      PROVE  Recovering'
  BY <1>1, <1>3 DEF Recovering, HoldsTypeOK, Discard, DiscardFails, Complete, StopStart, Record, journal, runs
<1>4. CASE WriteJournal \/ Flush \/ JournalFails
  BY <1>1, <1>4 DEF Recovering, WriteJournal, Flush, JournalFails, runs
<1>5. CASE Close \/ Open \/ Load \/ Initialize
  BY <1>1, <1>5 DEF Recovering, Close, Open, Load, Initialize, runs, journal
<1>6. CASE Save \/ GoOn \/ FinishSave \/ SaveFails \/ UNCHANGED vars
  BY <1>1, <1>6 DEF Recovering, Save, GoOn, FinishSave, SaveFails, vars, runs, journal
<1>7. CASE Die
  BY <1>1, <1>7 DEF Recovering, Die
<1> QED BY <1>2, <1>3, <1>4, <1>5, <1>6, <1>7 DEF Next

LEMMA BegunKept == OnceInv /\ [Next]_vars => Begun'
<1> SUFFICES ASSUME OnceInv, [Next]_vars, NEW r \in Runs, stage'[r] = "new"
             PROVE  mem'[r] = None /\ file'[r] = None
  BY DEF Begun
<1>1. /\ stage[r] = "new" /\ mem[r] = None /\ file[r] = None
      /\ mem \in [Runs -> Snapshots] /\ file \in [Runs -> Snapshots] /\ HoldsTypeOK
  BY BeginsOnce DEF OnceInv, Begun, JournalTyped, HoldsInv
<1>2. \A ids : Written(ids)[r] = None
  BY <1>1 DEF Written
<1>3. ASSUME NEW x \in Runs, OpenJournal(x) \/ Complete(x)
      PROVE  mem'[r] = None /\ file'[r] = None
  BY <1>1, <1>3 DEF OpenJournal, Complete
<1>12. ASSUME NEW x \in Runs, Discard(x)
      PROVE  mem'[r] = None /\ file'[r] = None
  <2>1. r # x /\ Acknowledged({x}) /\ JournalTyped
    BY <1>1, <1>12 DEF Discard, OnceInv
  <2> QED BY <1>1, <2>1, AcknowledgedEffect
<1>4. CASE WriteJournal \/ JournalFails
  BY <1>1, <1>2, <1>4 DEF WriteJournal, JournalFails
<1>5. CASE Initialize
  BY <1>1, <1>5 DEF Initialize
<1>13. CASE FinishSave
  <2>1. Acknowledged(Superfluous) /\ Superfluous \in SUBSET Runs /\ JournalTyped
    BY <1>1, <1>13 DEF FinishSave, OnceInv, Superfluous, Recorded
  <2>2. r \notin Superfluous
    <3>1. r \in Superfluous => mem[r] # None
      BY RunAssumption DEF Superfluous, Recorded
    <3> QED BY <1>1, <3>1
  <2> QED BY <1>1, <2>1, <2>2, AcknowledgedEffect
<1>6. CASE Die
  BY <1>1, <1>2, <1>6 DEF Die, Nobody
<1>7. CASE UNCHANGED <<mem, file>>
  BY <1>1, <1>7
<1> QED
  BY <1>3, <1>4, <1>5, <1>6, <1>7, <1>12, <1>13 DEF Next, vars, journal, Begin, FindPlace, StartFails, Opened,
     DiscardFails, StopStart, Record, Flush, Close, Open, Load, Save, GoOn, SaveFails

LEMMA UnrecordedKept == OnceInv /\ [Next]_vars => Unrecorded'
<1> SUFFICES ASSUME OnceInv, [Next]_vars PROVE Unrecorded'
  OBVIOUS
<1>1. /\ Unrecorded /\ tracked \subseteq Runs /\ view \in [Runs -> 0..2]
      /\ \A r \in Runs : stage'[r] = "new" => stage[r] = "new"
  BY BeginsOnce, RunAssumption DEF OnceInv, RestTyped, WorkspacesTyped
<1>2. ASSUME NEW r \in Runs, Begin(r)
      PROVE  Unrecorded'
  <2>1. stage[r] = "new" /\ view[r] = 0 /\ window = "open" /\ window' = window /\ view' = view
    BY <1>2 DEF Begin, OnceInv, Once, OnceIn
  <2>2. \/ tracked' = tracked
        \/ tracked' = tracked \cup {r} /\ stage'[r] = "starting"
    BY <1>2 DEF Begin, OnceInv, HoldsInv, HoldsTypeOK
  <2> QED BY <1>1, <2>1, <2>2 DEF Unrecorded
<1>3. ASSUME NEW r \in Runs,
             \/ FindPlace(r) \/ StartFails(r) \/ OpenJournal(r) \/ Opened(r)
             \/ Discard(r) \/ DiscardFails(r) \/ Complete(r) \/ StopStart(r)
      PROVE  Unrecorded'
  <2>1. tracked' \subseteq tracked /\ window' = window /\ view' = view
    BY <1>3 DEF FindPlace, GivesUp, StartFails, OpenJournal, Opened, Discard, DiscardFails, Complete, StopStart, ui
  <2> QED BY <1>1, <2>1 DEF Unrecorded
<1>4. ASSUME NEW r \in Runs, Record(r)
      PROVE  Unrecorded'
  BY <1>1, <1>4 DEF Unrecorded, Record
<1>5. CASE Close \/ Open \/ Load \/ Die
  BY <1>1, <1>5 DEF Unrecorded, Close, Open, Load, Die
<1>6. CASE \/ WriteJournal \/ Flush \/ JournalFails \/ Initialize
           \/ Save \/ GoOn \/ FinishSave \/ SaveFails \/ UNCHANGED vars
  <2>1. tracked' \subseteq tracked /\ window' = window /\ view' = view
    BY <1>6 DEF WriteJournal, Flush, JournalFails, Initialize, Save, GoOn, FinishSave, SaveFails, vars, ui
  <2> QED BY <1>1, <2>1 DEF Unrecorded
<1> QED BY <1>2, <1>3, <1>4, <1>5, <1>6 DEF Next
\* What is being saved is what was, or the first workspace that waits; what is
\* saved is what was, or what was being saved.
LEMMA StoreMoves ==
    ASSUME StoreTypeOK, [Next]_vars
    PROVE  /\ manifest' = manifest \/ (saving # None /\ manifest' = saving)
           /\ saving' \in {None, saving} \/ (saveQueue # <<>> /\ saving' = Head(saveQueue))
<1>1. CASE UNCHANGED storeVars
  BY <1>1 DEF storeVars, disk
<1>2. CASE Save
  BY <1>2 DEF Save, StartSave, disk
<1>3. CASE GoOn
  BY <1>3 DEF GoOn, WriteChat, ChatsWritten, WritePrevious, WriteManifest, StoreTypeOK, disk
<1>4. CASE Collect \/ Stop
  BY <1>4 DEF Collect, Stop
<1> QED
  BY <1>1, <1>2, <1>3, <1>4 DEF Next, vars, Begin, FindPlace, StartFails, OpenJournal, Opened, Discard,
     DiscardFails, Complete, StopStart, Record, WriteJournal, Flush, JournalFails, Close, Open, Load,
     Initialize, FinishSave, SaveFails, Die

LEMMA StoreTypesKept == OnceInv /\ [Next]_vars => StoreTypeOK'
<1> SUFFICES ASSUME OnceInv, [Next]_vars PROVE StoreTypeOK'
  OBVIOUS
<1>1. StoreTypeOK /\ saveQueue \in Seq(Workspaces)
  BY DEF OnceInv, WorkspacesTyped
<1>2. CASE UNCHANGED storeVars
  BY <1>1, <1>2 DEF StoreTypeOK, storeVars, disk
<1>3. CASE Save
  <2>1. Head(saveQueue) \in Workspaces
    BY <1>1, <1>3, TailIs DEF Save
  <2> QED BY <1>1, <1>3, <2>1, WorkspaceAssumption DEF Save, StartSave, StoreTypeOK, Steps, disk
<1>4. CASE GoOn
  BY <1>1, <1>4 DEF GoOn, WriteChat, ChatsWritten, WritePrevious, WriteManifest, StoreTypeOK, Steps, disk
<1>5. CASE Collect \/ Stop
  BY <1>1, <1>5 DEF Collect, Stop, StoreTypeOK, Steps
<1> QED
  BY <1>2, <1>3, <1>4, <1>5 DEF Next, vars, Begin, FindPlace, StartFails, OpenJournal, Opened, Discard,
     DiscardFails, Complete, StopStart, Record, WriteJournal, Flush, JournalFails, Close, Open, Load,
     Initialize, FinishSave, SaveFails, Die

LEMMA SavedIs == StoreTypeOK => Saved \in Workspaces
BY WorkspaceAssumption DEF StoreTypeOK, Saved

\* OnceIn after a step.
OnceThen(w) == \A r \in Runs : w[r] <= 1 /\ (stage'[r] = "new" => w[r] = 0)

\* A workspace with every run once is still one after the step.
LEMMA OnceStays ==
    ASSUME OnceInv, [Next]_vars, NEW w, OnceIn(w)
    PROVE  OnceThen(w)
BY BeginsOnce DEF OnceInv, OnceIn, OnceThen

LEMMA MergedIs == StoreTypeOK => Merged \in Workspaces
BY SavedIs, RunAssumption DEF Merged

LEMMA MergedOnce == OnceInv => OnceIn(Merged)
<1> SUFFICES ASSUME OnceInv, NEW r \in Runs
             PROVE  Merged[r] <= 1 /\ (stage[r] = "new" => Merged[r] = 0)
  BY DEF OnceIn
<1>1. Merged[r] = IF Saved[r] = 0 /\ file[r] # None THEN 1 ELSE Saved[r]
  BY DEF Merged
<1>2. Saved[r] <= 1 /\ (stage[r] = "new" => Saved[r] = 0 /\ file[r] = None)
  BY DEF OnceInv, Once, OnceIn, Begun
<1> QED BY <1>1, <1>2

\* The window's workspace: what it showed, with a run recorded, or what it loads.
LEMMA ViewKept == OnceInv /\ [Next]_vars => view' \in Workspaces /\ OnceThen(view')
<1> SUFFICES ASSUME OnceInv, [Next]_vars PROVE view' \in Workspaces /\ OnceThen(view')
  OBVIOUS
<1>1. view \in Workspaces /\ OnceIn(view) /\ Saved \in Workspaces /\ OnceIn(Saved)
  BY SavedIs DEF OnceInv, WorkspacesTyped, Once
<1>2. CASE view' = view
  BY <1>1, <1>2, OnceStays
<1>3. ASSUME NEW r \in Runs, Record(r)
      PROVE  view' \in Workspaces /\ OnceThen(view')
  <2>1. view[r] = 0 /\ stage[r] # "new" /\ view \in [Runs -> 0..2] /\ view' = [view EXCEPT ![r] = @ + 1]
    BY <1>1, <1>3, RunAssumption DEF Record, OnceInv, Unrecorded
  <2>2. view' \in [Runs -> 0..2] /\ view'[r] = 1 /\ \A x \in Runs \ {r} : view'[x] = view[x]
    BY <2>1
  <2>3. OnceThen(view) /\ stage'[r] # "new"
    BY <1>1, <2>1, OnceStays, BeginsOnce DEF OnceInv
  <2> QED BY <2>2, <2>3, RunAssumption DEF OnceThen
<1>4. CASE Load
  BY <1>1, <1>4, OnceStays DEF Load
<1>5. CASE Die
  BY <1>5, WorkspaceAssumption, RunAssumption DEF Die, OnceThen
<1> QED
  BY <1>2, <1>3, <1>4, <1>5 DEF Next, vars, ui, Begin, FindPlace, StartFails, OpenJournal, Opened, Discard,
     DiscardFails, Complete, StopStart, WriteJournal, Flush, JournalFails, Close, Open,
     Initialize, Save, GoOn, FinishSave, SaveFails

\* How the queue of saves moves.
LEMMA QueueMoves ==
    ASSUME [Next]_vars
    PROVE  \/ UNCHANGED saveQueue
           \/ saveQueue' \in {Append(saveQueue, view), Append(saveQueue, view'), Append(saveQueue, Saved)}
           \/ saveQueue' = <<Merged>> \/ saveQueue' = <<>>
           \/ step # "idle" /\ saveQueue' = Tail(saveQueue)
BY DEF Next, vars, Begin, FindPlace, StartFails, OpenJournal, Opened, Discard,
     DiscardFails, Complete, StopStart, WriteJournal, Flush, JournalFails, Close, Open, Record, Load, Collect,
     Initialize, Save, GoOn, FinishSave, SaveFails, Stop, Die
LEMMA HeadKept == OnceInv /\ [Next]_vars => HeadIsSaved'
<1> SUFFICES ASSUME OnceInv, [Next]_vars PROVE HeadIsSaved'
  OBVIOUS
<1>1. /\ HeadIsSaved /\ StoreTypeOK /\ saveQueue \in Seq(Workspaces)
      /\ view \in Workspaces /\ view' \in Workspaces /\ Saved \in Workspaces
  BY SavedIs, ViewKept DEF OnceInv, WorkspacesTyped
<1>2. CASE UNCHANGED <<storeVars, saveQueue>>
  BY <1>2, <1>1 DEF HeadIsSaved, storeVars, disk
<1>3. ASSUME UNCHANGED storeVars, NEW w \in Workspaces, saveQueue' = Append(saveQueue, w)
      PROVE  HeadIsSaved'
  <2>1. saveQueue' # <<>> /\ (saveQueue # <<>> => Head(saveQueue') = Head(saveQueue))
    BY <1>1, <1>3
  <2> QED BY <1>1, <1>3, <2>1 DEF HeadIsSaved, storeVars, disk
<1>4. CASE Initialize
  BY <1>1, <1>4 DEF Initialize, HeadIsSaved, StoreTypeOK, storeVars, disk
<1>5. CASE Save
  BY <1>1, <1>5 DEF Save, StartSave, HeadIsSaved
<1>6. CASE GoOn
  BY <1>1, <1>6 DEF GoOn, WriteChat, ChatsWritten, WritePrevious, WriteManifest, HeadIsSaved, disk
<1>7. CASE Collect \/ Stop
  BY <1>7 DEF Collect, Stop, HeadIsSaved
<1>8. CASE Die
  <2>1. saving' = None /\ step' = "idle"
    BY <1>1, <1>8 DEF Die, Stop, StoreTypeOK, storeVars
  <2> QED BY <2>1 DEF HeadIsSaved
<1>9. ASSUME NEW r \in Runs, Record(r)
      PROVE  HeadIsSaved'
  BY <1>1, <1>3, <1>9 DEF Record
<1>10. CASE Close \/ Load
  BY <1>1, <1>3, <1>10 DEF Close, Load
<1> QED
  BY <1>2, <1>4, <1>5, <1>6, <1>7, <1>8, <1>9, <1>10 DEF Next, vars, Begin, FindPlace, StartFails, OpenJournal,
     Opened, Discard, DiscardFails, Complete, StopStart, WriteJournal, Flush, JournalFails, Open,
     FinishSave, SaveFails

LEMMA QueueKept ==
    OnceInv /\ [Next]_vars =>
        /\ saveQueue' \in Seq(Workspaces)
        /\ \A i \in DOMAIN saveQueue' : OnceThen(saveQueue'[i])
<1> SUFFICES ASSUME OnceInv, [Next]_vars
             PROVE  /\ saveQueue' \in Seq(Workspaces)
                    /\ \A i \in DOMAIN saveQueue' : OnceThen(saveQueue'[i])
  OBVIOUS
<1>1. /\ saveQueue \in Seq(Workspaces) /\ \A i \in DOMAIN saveQueue : OnceThen(saveQueue[i])
  BY OnceStays DEF OnceInv, WorkspacesTyped, Once
<1>2. /\ view \in Workspaces /\ OnceThen(view) /\ view' \in Workspaces /\ OnceThen(view')
      /\ Saved \in Workspaces /\ OnceThen(Saved) /\ Merged \in Workspaces /\ OnceThen(Merged)
  BY OnceStays, ViewKept, SavedIs, MergedIs, MergedOnce DEF OnceInv, WorkspacesTyped, Once
<1>3. ASSUME NEW w \in Workspaces, OnceThen(w), saveQueue' = Append(saveQueue, w)
      PROVE  saveQueue' \in Seq(Workspaces) /\ \A i \in DOMAIN saveQueue' : OnceThen(saveQueue'[i])
  BY <1>1, <1>3, AppendIs
<1>4. CASE step # "idle" /\ saveQueue' = Tail(saveQueue)
  <2>1. saveQueue # <<>>
    BY <1>4 DEF OnceInv, HeadIsSaved, WorkspacesTyped, StoreTypeOK
  <2>2. /\ Tail(saveQueue) \in Seq(Workspaces)
        /\ \A i \in DOMAIN Tail(saveQueue) : i + 1 \in DOMAIN saveQueue /\ Tail(saveQueue)[i] = saveQueue[i + 1]
    BY <1>1, <2>1, TailIs
  <2>3. ASSUME NEW i \in DOMAIN saveQueue'
        PROVE  OnceThen(saveQueue'[i])
    <3>1. i + 1 \in DOMAIN saveQueue /\ saveQueue'[i] = saveQueue[i + 1]
      BY <1>4, <2>2
    <3>2. OnceThen(saveQueue[i + 1])
      BY <1>1, <3>1
    <3> QED BY <3>1, <3>2
  <2> QED BY <1>4, <2>2, <2>3
<1>5. CASE saveQueue' = <<Merged>>
  <2>1. <<Merged>> \in Seq(Workspaces) /\ DOMAIN <<Merged>> = {1} /\ <<Merged>>[1] = Merged
    BY <1>2
  <2> QED BY <1>2, <1>5, <2>1
<1>6. CASE saveQueue' = <<>>
  <2>1. <<>> \in Seq(Workspaces) /\ DOMAIN <<>> = {}
    OBVIOUS
  <2> QED BY <1>6, <2>1
<1>7. CASE UNCHANGED saveQueue
  BY <1>1, <1>7
<1> QED BY <1>2, <1>3, <1>4, <1>5, <1>6, <1>7, QueueMoves

LEMMA OnceKept == OnceInv /\ [Next]_vars => OnceInv'
<1> SUFFICES ASSUME OnceInv, [Next]_vars PROVE OnceInv'
  OBVIOUS
<1>1. StoreTypeOK /\ StoreTypeOK' /\ HeadIsSaved /\ saveQueue \in Seq(Workspaces)
  BY StoreTypesKept DEF OnceInv, WorkspacesTyped
<1>2. saving # None => OnceThen(saving)
  BY OnceStays DEF OnceInv, Once
<1>3. saveQueue # <<>> => OnceThen(Head(saveQueue))
  <2>1. saveQueue # <<>> => 1 \in DOMAIN saveQueue /\ Head(saveQueue) = saveQueue[1]
    BY <1>1, TailIs
  <2> QED BY <2>1, OnceStays DEF OnceInv, Once
<1>4. OnceThen(Saved) /\ (manifest' = manifest => Saved' = Saved)
  BY OnceStays DEF OnceInv, Once, Saved
<1>5. saving # None /\ manifest' = saving => Saved' = saving
  BY DEF Saved
<1>6. OnceThen(Saved') /\ (saving' # None => OnceThen(saving'))
  BY <1>1, <1>2, <1>3, <1>4, <1>5, StoreMoves
<1>7. Once'
  BY <1>6, ViewKept, QueueKept DEF Once, OnceIn, OnceThen
<1>8. WorkspacesTyped'
  BY <1>1, ViewKept, QueueKept DEF WorkspacesTyped
<1> QED
  BY <1>7, <1>8, StepKeepsHolds, JournalTypedKept, RestTypedKept, RecoveringKept, UnrecordedKept, BegunKept,
     HeadKept DEF OnceInv

LEMMA OnceInvHolds == Spec => []OnceInv
BY OnceStart, OnceKept, PTL DEF Spec

\* What the application keeps of its runs has its types, for any number of runs,
\* chats, windows and failures.
THEOREM RecordsTypes == Spec => []RecordsTypeOK
<1>1. OnceInv => RecordsTypeOK
  BY DEF OnceInv, HoldsInv, HoldsTypeOK, Stages, JournalTyped, WorkspacesTyped, RestTyped, RecordsTypeOK
<1> QED BY <1>1, OnceInvHolds, PTL

\* No run is put into its chat twice, in the window or in what is saved, however
\* often windows come and go and recovery is interrupted (recovered-runs.ts).
THEOREM NoneRecordedTwice == Spec => []RecordedOnce
<1>1. OnceInv => RecordedOnce
  BY DEF OnceInv, Once, OnceIn, RecordedOnce
<1> QED BY <1>1, OnceInvHolds, PTL
-----------------------------------------------------------------------------
(* What is kept of a run that has worked. *)

QueuedIn(s) == UNION {s[i].ids : i \in DOMAIN s}

LEMMA QueuedAppend ==
    ASSUME NEW s \in Seq(Attempt), NEW a \in Attempt
    PROVE  QueuedIn(Append(s, a)) = QueuedIn(s) \cup a.ids
<1>1. \A r : r \in QueuedIn(s) => r \in QueuedIn(Append(s, a))
  BY AppendIs DEF QueuedIn
<1>2. \A r : r \in a.ids => r \in QueuedIn(Append(s, a))
  <2>1. Len(s) + 1 \in DOMAIN Append(s, a) /\ Append(s, a)[Len(s) + 1] = a
    BY AppendIs
  <2> QED BY <2>1 DEF QueuedIn
<1>3. ASSUME NEW r \in QueuedIn(Append(s, a))
      PROVE  r \in QueuedIn(s) \cup a.ids
  <2>1. PICK i \in DOMAIN Append(s, a) : r \in Append(s, a)[i].ids
    BY <1>3 DEF QueuedIn
  <2>2. (i \in DOMAIN s /\ Append(s, a)[i] = s[i]) \/ Append(s, a)[i] = a
    BY <2>1, AppendIs
  <2> QED BY <2>1, <2>2 DEF QueuedIn
<1> QED BY <1>1, <1>2, <1>3

LEMMA QueuedTail ==
    ASSUME NEW s \in Seq(Attempt), s # <<>>, NEW r \in QueuedIn(s), r \notin Head(s).ids
    PROVE  r \in QueuedIn(Tail(s))
<1>1. PICK i \in DOMAIN s : r \in s[i].ids
  BY DEF QueuedIn
<1>2. /\ DOMAIN s = 1..Len(s) /\ Len(s) \in Nat /\ Head(s) = s[1]
      /\ DOMAIN Tail(s) = 1..(Len(s) - 1) /\ \A j \in 1..(Len(s) - 1) : Tail(s)[j] = s[j + 1]
  BY TailIs
<1>3. i # 1 /\ i - 1 \in 1..(Len(s) - 1) /\ (i - 1) + 1 = i
  BY <1>1, <1>2
<1>4. Tail(s)[i - 1] = s[i]
  BY <1>2, <1>3
<1> QED BY <1>1, <1>2, <1>3, <1>4 DEF QueuedIn

\* A run works when its first snapshot is on the disk, and is waited for until then.
Worked == ran \subseteq {r \in Runs : stage[r] \in {"running", "over"}}
Opening == \A r \in Runs : stage[r] = "opening" => mem[r] = "open" /\ (r \in Queued \/ file[r] # None)

LEMMA WorkedKept == OnceInv /\ Worked /\ [Next]_vars => Worked'
<1> SUFFICES ASSUME OnceInv, Worked, [Next]_vars PROVE Worked'
  OBVIOUS
<1>1. HoldsTypeOK
  BY DEF OnceInv, HoldsInv
<1>2. ASSUME NEW r \in Runs, Begin(r) \/ FindPlace(r) \/ StartFails(r) \/ OpenJournal(r) \/ Opened(r)
      PROVE  Worked'
  <2>1. stage[r] \notin {"running", "over"} /\ \E s : stage' = [stage EXCEPT ![r] = s]
    BY <1>2 DEF Begin, FindPlace, GivesUp, StartFails, OpenJournal, Opened
  <2>2. \/ ran' = ran
        \/ ran' = ran \cup {r} /\ stage' = [stage EXCEPT ![r] = "running"]
    BY <1>2 DEF Begin, FindPlace, StartFails, OpenJournal, Opened
  <2> QED BY <1>1, <2>1, <2>2 DEF Worked, HoldsTypeOK
<1>3. ASSUME NEW r \in Runs, Discard(r) \/ DiscardFails(r) \/ Complete(r)
      PROVE  Worked'
  BY <1>1, <1>3 DEF Worked, HoldsTypeOK, Discard, DiscardFails, Complete
<1>4. CASE JournalFails \/ Die
  BY <1>1, <1>4 DEF Worked, HoldsTypeOK, JournalFails, Die
<1>5. CASE UNCHANGED <<stage, ran>>
  BY <1>5 DEF Worked
<1> QED
  BY <1>2, <1>3, <1>4, <1>5 DEF Next, vars, runs, StopStart, Record, WriteJournal, Flush, Close, Open, Load,
     Initialize, Save, GoOn, FinishSave, SaveFails

\* What is written stays written until it is removed.
LEMMA WrittenStays ==
    ASSUME JournalTyped, NEW ids, NEW r \in Runs
    PROVE  /\ file[r] # None => Written(ids)[r] # None
           /\ r \in ids /\ mem[r] # None => Written(ids)[r] # None
BY DEF JournalTyped, Written

LEMMA OpeningKept == OnceInv /\ Opening /\ [Next]_vars => Opening'
<1> SUFFICES ASSUME OnceInv, Opening, [Next]_vars, NEW x \in Runs, stage'[x] = "opening"
             PROVE  mem'[x] = "open" /\ (x \in Queued' \/ file'[x] # None)
  BY DEF Opening
<1>1. /\ HoldsTypeOK /\ JournalTyped /\ Recovering /\ attempts \in Seq(Attempt) /\ dirty \subseteq Runs
      /\ Queued = QueuedIn(attempts) /\ Queued' = QueuedIn(attempts')
  BY DEF OnceInv, HoldsInv, JournalTyped, Queued, QueuedIn
<1>2. stage[x] = "opening" => mem[x] = "open" /\ mem[x] # None /\ (x \in Queued \/ file[x] # None)
  BY RunAssumption DEF Opening
<1>3. ASSUME NEW ids \in SUBSET Runs, ids # {}, NEW b \in BOOLEAN, attempts' = Flushed(ids, b)
      PROVE  Queued' = Queued \cup ids
  <2>1. [ids |-> ids, background |-> b] \in Attempt /\ [ids |-> ids, background |-> b].ids = ids
    BY <1>3 DEF Attempt
  <2> QED BY <1>1, <1>3, <2>1, QueuedAppend DEF Flushed
<1>4. ASSUME NEW r \in Runs, OpenJournal(r)
      PROVE  mem'[x] = "open" /\ (x \in Queued' \/ file'[x] # None)
  <2>1. /\ attempts' = Flushed(dirty \cup {r}, FALSE) /\ mem' = [mem EXCEPT ![r] = "open"]
        /\ file' = file /\ stage' = [stage EXCEPT ![r] = "opening"]
    BY <1>4 DEF OpenJournal
  <2>2. Queued' = Queued \cup (dirty \cup {r})
    <3>1. dirty \cup {r} \in SUBSET Runs /\ dirty \cup {r} # {}
      BY <1>1
    <3> QED BY <1>3, <2>1, <3>1
  <2> QED BY <1>1, <1>2, <2>1, <2>2 DEF HoldsTypeOK, JournalTyped
<1>5. ASSUME NEW r \in Runs, Complete(r)
      PROVE  mem'[x] = "open" /\ (x \in Queued' \/ file'[x] # None)
  <2>1. /\ attempts' = Flushed(dirty \cup {r}, TRUE) /\ mem' = [mem EXCEPT ![r] = "done"]
        /\ file' = file /\ stage' = [stage EXCEPT ![r] = "over"]
    BY <1>5 DEF Complete
  <2>2. Queued' = Queued \cup (dirty \cup {r})
    <3>1. dirty \cup {r} \in SUBSET Runs /\ dirty \cup {r} # {}
      BY <1>1
    <3> QED BY <1>3, <2>1, <3>1
  <2> QED BY <1>1, <1>2, <2>1, <2>2 DEF HoldsTypeOK, JournalTyped
<1>6. ASSUME NEW r \in Runs, Discard(r)
      PROVE  mem'[x] = "open" /\ (x \in Queued' \/ file'[x] # None)
  <2>1. Acknowledged({r}) /\ stage[r] = "discarding" /\ stage' = [stage EXCEPT ![r] = "over"]
        /\ attempts' = attempts
    BY <1>6 DEF Discard
  <2>2. x # r /\ stage[x] = "opening"
    BY <1>1, <2>1 DEF HoldsTypeOK
  <2>3. mem'[x] = mem[x] /\ file'[x] = file[x]
    BY <1>1, <2>1, <2>2, AcknowledgedEffect
  <2> QED BY <1>1, <1>2, <2>1, <2>2, <2>3
<1>7. CASE WriteJournal
  <2>1. /\ stage[x] = "opening" /\ mem' = mem /\ file' = Written(Head(attempts).ids)
        /\ attempts # <<>> /\ attempts' = Tail(attempts)
    BY <1>7 DEF WriteJournal, runs
  <2>2. CASE x \in Head(attempts).ids
    BY <1>1, <1>2, <2>1, <2>2, WrittenStays
  <2>3. CASE x \notin Head(attempts).ids
    BY <1>1, <1>2, <2>1, <2>3, WrittenStays, QueuedTail
  <2> QED BY <2>2, <2>3
<1>8. CASE Flush
  <2>1. /\ \E b \in BOOLEAN : attempts' = Flushed(dirty, b)
        /\ dirty # {} /\ stage[x] = "opening" /\ UNCHANGED <<mem, file>>
    BY <1>8 DEF Flush, runs
  <2>2. Queued' = Queued \cup dirty
    BY <1>1, <1>3, <2>1
  <2> QED BY <1>2, <2>1, <2>2
<1>9. CASE JournalFails
  <2>1. /\ stage[x] = "opening" /\ x \notin Head(attempts).ids /\ mem' = mem
        /\ attempts # <<>> /\ attempts' = Tail(attempts)
    BY <1>1, <1>9 DEF JournalFails, HoldsTypeOK
  <2>2. \E done : file' = Written(done)
    BY <1>9 DEF JournalFails
  <2> QED BY <1>1, <1>2, <2>1, <2>2, WrittenStays, QueuedTail
<1>10. CASE Initialize \/ FinishSave
  <2>1. stage[x] = "opening" /\ ready = "yes" /\ attempts' = attempts
    BY <1>1, <1>10 DEF Initialize, FinishSave, runs, Recovering
  <2>2. FinishSave /\ x \notin Superfluous
    BY <1>2, <1>10, <2>1 DEF Initialize, Superfluous, Recorded
  <2>3. Acknowledged(Superfluous) /\ Superfluous \in SUBSET Runs
    BY <2>2 DEF FinishSave, Superfluous, Recorded
  <2>4. mem'[x] = mem[x] /\ file'[x] = file[x]
    BY <1>1, <2>2, <2>3, AcknowledgedEffect
  <2> QED BY <1>1, <1>2, <2>1, <2>4
<1>11. CASE Die
  BY <1>11 DEF Die
<1>12. CASE /\ UNCHANGED <<mem, file, attempts>>
            /\ stage'[x] = "opening" => stage[x] = "opening"
  BY <1>1, <1>2, <1>12
<1>13. ASSUME NEW r \in Runs, Begin(r) \/ FindPlace(r) \/ StartFails(r) \/ Opened(r) \/ DiscardFails(r)
       PROVE  UNCHANGED <<mem, file, attempts>> /\ stage[x] = "opening"
  BY <1>1, <1>13 DEF HoldsTypeOK, Begin, FindPlace, GivesUp, StartFails, Opened, DiscardFails, journal
<1>14. ASSUME NEW r \in Runs, StopStart(r) \/ Record(r)
       PROVE  UNCHANGED <<mem, file, attempts>> /\ stage[x] = "opening"
  BY <1>1, <1>14 DEF StopStart, Record, journal, runs
<1>15. CASE Close \/ Open \/ Load \/ Save \/ GoOn \/ SaveFails \/ UNCHANGED vars
  BY <1>12, <1>15 DEF Close, Open, Load, Save, GoOn, SaveFails, vars, journal, runs
<1> QED
  BY <1>4, <1>5, <1>6, <1>7, <1>8, <1>9, <1>10, <1>11, <1>12, <1>13, <1>14, <1>15 DEF Next
-----------------------------------------------------------------------------
(* Workspaces only grow: from what is saved, by those that wait, to the    *)
(* window's.                                                               *)

Below(v, w) == \A r \in Runs : v[r] <= w[r]

Chain(s, q) ==
    /\ \A i \in DOMAIN q : Below(s, q[i])
    /\ \A i, j \in DOMAIN q : i <= j => Below(q[i], q[j])

Shown == Below(Saved, view) /\ \A i \in DOMAIN saveQueue : Below(saveQueue[i], view)
Growing == Chain(Saved, saveQueue) /\ (window = "open" => Shown)

LEMMA BelowItself == \A w \in Workspaces : Below(w, w)
BY RunAssumption DEF Below

LEMMA BelowBelow ==
    ASSUME NEW u \in Workspaces, NEW v \in Workspaces, NEW w \in Workspaces, Below(u, v), Below(v, w)
    PROVE  Below(u, w)
<1> SUFFICES ASSUME NEW r \in Runs PROVE u[r] <= w[r]
  BY DEF Below
<1>1. u[r] \in 0..2 /\ v[r] \in 0..2 /\ w[r] \in 0..2
  BY RunAssumption
<1>2. u[r] <= v[r] /\ v[r] <= w[r]
  BY DEF Below
<1> QED BY <1>1, <1>2

LEMMA ChainAppend ==
    ASSUME NEW s \in Workspaces, NEW q \in Seq(Workspaces), NEW w \in Workspaces,
           Chain(s, q), Below(s, w), \A i \in DOMAIN q : Below(q[i], w)
    PROVE  Chain(s, Append(q, w))
<1>1. Below(w, w)
  BY BelowItself
<1>2. \A i \in DOMAIN Append(q, w) :
        \/ i \in DOMAIN q /\ Append(q, w)[i] = q[i]
        \/ i = Len(q) + 1 /\ Append(q, w)[i] = w
  BY AppendIs
<1>3. \A i \in DOMAIN Append(q, w) : Below(s, Append(q, w)[i])
  BY <1>2 DEF Chain
<1>4. ASSUME NEW i \in DOMAIN Append(q, w), NEW j \in DOMAIN Append(q, w), i <= j
      PROVE  Below(Append(q, w)[i], Append(q, w)[j])
  <2>1. CASE j = Len(q) + 1 /\ Append(q, w)[j] = w
    <3>1. Append(q, w)[i] = w \/ (i \in DOMAIN q /\ Append(q, w)[i] = q[i])
      BY <1>2
    <3> QED BY <1>1, <2>1, <3>1
  <2>2. CASE j \in DOMAIN q /\ Append(q, w)[j] = q[j]
    <3>1. DOMAIN q = 1..Len(q) /\ Len(q) \in Nat
      BY AppendIs
    <3>2. i # Len(q) + 1
      BY <1>4, <2>2, <3>1
    <3>3. i \in DOMAIN q /\ Append(q, w)[i] = q[i]
      BY <1>2, <3>2
    <3>4. Below(q[i], q[j])
      BY <1>4, <2>2, <3>3 DEF Chain
    <3> QED BY <2>2, <3>3, <3>4
  <2> QED BY <1>2, <2>1, <2>2
<1> QED BY <1>3, <1>4 DEF Chain

LEMMA ChainTail ==
    ASSUME NEW s, NEW q \in Seq(Workspaces), q # <<>>, Chain(s, q)
    PROVE  /\ Chain(s, Tail(q)) /\ Chain(Head(q), q) /\ 1 \in DOMAIN q /\ Head(q) = q[1]
           /\ \A i \in DOMAIN Tail(q) : i + 1 \in DOMAIN q /\ Tail(q)[i] = q[i + 1]
<1>1. /\ DOMAIN q = 1..Len(q) /\ Len(q) \in Nat /\ Len(q) > 0 /\ Head(q) = q[1]
      /\ DOMAIN Tail(q) = 1..(Len(q) - 1)
      /\ \A i \in 1..(Len(q) - 1) : Tail(q)[i] = q[i + 1] /\ i + 1 \in 1..Len(q)
  BY TailIs
<1>2. \A i \in DOMAIN Tail(q) : i + 1 \in DOMAIN q /\ Tail(q)[i] = q[i + 1]
  BY <1>1
<1>3. \A i \in DOMAIN Tail(q) : Below(s, Tail(q)[i])
  BY <1>2 DEF Chain
<1>4. ASSUME NEW i \in DOMAIN Tail(q), NEW j \in DOMAIN Tail(q), i <= j
      PROVE  Below(Tail(q)[i], Tail(q)[j])
  <2>1. i + 1 \in DOMAIN q /\ j + 1 \in DOMAIN q /\ i + 1 <= j + 1
    BY <1>1, <1>4
  <2>2. Below(q[i + 1], q[j + 1])
    BY <2>1 DEF Chain
  <2> QED BY <1>2, <2>2
<1>5. ASSUME NEW i \in DOMAIN q
      PROVE  Below(q[1], q[i])
  <2>1. 1 \in DOMAIN q /\ 1 <= i
    BY <1>1
  <2> QED BY <2>1 DEF Chain
<1> QED BY <1>1, <1>2, <1>3, <1>4, <1>5 DEF Chain

\* A window that loads has nothing to save but what it has recovered.
Loading ==
    /\ window = "loading" /\ ready # "merging" => saveQueue = <<>>
    /\ ready = "merging" => window = "loading" /\ Len(saveQueue) = 1

\* What it has recovered has every run of the journal.
Merging == ready = "merging" => mem = file /\ \A r \in Runs : file[r] # None => Head(saveQueue)[r] > 0

LEMMA SavingQueued ==
    ASSUME OnceInv, step # "idle"
    PROVE  saving # None /\ saveQueue # <<>> /\ saving = Head(saveQueue)
BY DEF OnceInv, WorkspacesTyped, StoreTypeOK, HeadIsSaved

LEMMA LoadingKept == OnceInv /\ Loading /\ [Next]_vars /\ [Quiet]_vars => Loading'
<1> SUFFICES ASSUME OnceInv, Loading, [Next]_vars, [Quiet]_vars PROVE Loading'
  OBVIOUS
<1>1. ASSUME NEW r \in Runs, Record(r)
      PROVE  Loading'
  BY <1>1 DEF Loading, Record
<1>2. CASE Close \/ Load \/ Die
  BY <1>2 DEF Loading, Close, Load, Die
<1>3. CASE Open
  BY <1>3 DEF Loading, Open, Quiet, vars, ui
<1>4. CASE Initialize
  <2>1. Len(<<Merged>>) = 1
    OBVIOUS
  <2> QED BY <1>4, <2>1 DEF Loading, Initialize, ui
<1>5. CASE FinishSave \/ SaveFails
  <2>1. /\ step # "idle" /\ saveQueue' = Tail(saveQueue) /\ window' = window
        /\ ready' # "merging"
    BY <1>5 DEF FinishSave, SaveFails, Collect, Stop, ui
  <2>2. saveQueue # <<>> /\ saveQueue \in Seq(Workspaces)
    BY <2>1, SavingQueued DEF OnceInv, WorkspacesTyped
  <2>3. window = "loading" => Len(saveQueue) = 1
    BY <2>2 DEF Loading
  <2>4. Len(saveQueue) = 1 => Tail(saveQueue) = <<>>
    <3>1. PICK q \in Seq(Workspaces) : q = Tail(saveQueue) /\ Len(q) = Len(saveQueue) - 1
      BY <2>2, TailIs
    <3>2. ASSUME q # <<>>
          PROVE  Len(q) > 0
      BY <3>2, TailIs
    <3>3. Len(saveQueue) = 1 => Len(q) = 0
      BY <3>1
    <3> QED BY <3>1, <3>2, <3>3
  <2>5. window' = "loading" => saveQueue' = <<>>
    BY <2>1, <2>3, <2>4
  <2> QED BY <2>1, <2>5 DEF Loading
<1>6. CASE UNCHANGED <<window, ready, saveQueue>>
  BY <1>6 DEF Loading
<1> QED
  BY <1>1, <1>2, <1>3, <1>4, <1>5, <1>6 DEF Next, vars, ui, Begin, FindPlace, StartFails, OpenJournal, Opened,
     Discard, DiscardFails, Complete, StopStart, WriteJournal, Flush, JournalFails, Save, GoOn

LEMMA MergingKept == OnceInv /\ Loading /\ Merging /\ [Next]_vars => Merging'
<1> SUFFICES ASSUME OnceInv, Loading, Merging, [Next]_vars, ready' = "merging"
             PROVE  mem' = file' /\ \A r \in Runs : file'[r] # None => Head(saveQueue')[r] > 0
  BY DEF Merging
<1>1. /\ Recovering /\ attempts \in Seq(Attempt)
      /\ ready = "merging" => window = "loading"
  BY DEF OnceInv, JournalTyped, Loading
<1>2. CASE Initialize
  <2>1. Head(saveQueue') = Merged /\ mem' = file' /\ file' = file
    BY <1>2 DEF Initialize
  <2>2. ASSUME NEW r \in Runs, file[r] # None
        PROVE  Merged[r] > 0
    <3>1. Saved[r] \in 0..2
      BY SavedIs, RunAssumption DEF OnceInv, WorkspacesTyped
    <3> QED BY <2>2, <3>1 DEF Merged
  <2> QED BY <2>1, <2>2
<1>3. CASE UNCHANGED <<mem, file, saveQueue, ready>>
  BY <1>3 DEF Merging
<1>4. ASSUME NEW r \in Runs,
             \/ Begin(r) \/ FindPlace(r) \/ StartFails(r) \/ OpenJournal(r) \/ Opened(r)
             \/ Discard(r) \/ DiscardFails(r) \/ Complete(r) \/ StopStart(r) \/ Record(r)
      PROVE  UNCHANGED <<mem, file, saveQueue, ready>>
  BY <1>1, <1>4 DEF Recovering, Begin, FindPlace, StartFails, OpenJournal, Opened, Discard, DiscardFails,
     Complete, StopStart, Record, journal
<1>5. ~WriteJournal /\ ~Flush /\ ~JournalFails
  <2>1. ready = "merging" => attempts = <<>> /\ dirty = {}
    BY <1>1 DEF Recovering
  <2> QED BY <2>1 DEF WriteJournal, Flush, JournalFails
<1>6. ~Close /\ ~Load /\ ~FinishSave /\ ~SaveFails /\ ~Die
  BY <1>1 DEF Close, Load, FinishSave, SaveFails, Die
<1>7. CASE Open \/ Save \/ GoOn \/ UNCHANGED vars
  BY <1>3, <1>7 DEF Open, Save, GoOn, vars, journal
<1> QED BY <1>2, <1>3, <1>4, <1>5, <1>6, <1>7 DEF Next
\* What is saved only grows.
LEMMA GrowingKept ==
    OnceInv /\ Growing /\ Loading /\ [Next]_vars => Growing' /\ Below(Saved, Saved')
<1> SUFFICES ASSUME OnceInv, Growing, Loading, [Next]_vars PROVE Growing' /\ Below(Saved, Saved')
  OBVIOUS
<1>1. /\ StoreTypeOK /\ StoreTypeOK' /\ saveQueue \in Seq(Workspaces) /\ saveQueue' \in Seq(Workspaces)
      /\ view \in Workspaces /\ view' \in Workspaces /\ Saved \in Workspaces /\ Merged \in Workspaces
      /\ Saved' \in Workspaces /\ Below(Saved, Saved)
  <2>1. StoreTypeOK' => Saved' \in Workspaces
    BY WorkspaceAssumption DEF StoreTypeOK, Saved
  <2> QED BY <2>1, StoreTypesKept, QueueKept, ViewKept, SavedIs, MergedIs, BelowItself DEF OnceInv, WorkspacesTyped
<1>2. /\ Chain(Saved, saveQueue) /\ (window = "open" => Shown)
      /\ manifest' = manifest => Saved' = Saved
  BY DEF Growing, Saved
<1>3. CASE UNCHANGED <<manifest, saveQueue, window, view>>
  BY <1>1, <1>2, <1>3 DEF Growing, Shown
<1>4. ASSUME NEW r \in Runs, Record(r)
      PROVE  Growing' /\ Below(Saved, Saved')
  <2>1. /\ manifest' = manifest /\ saveQueue' = Append(saveQueue, view') /\ window = "open"
        /\ view' = [view EXCEPT ![r] = @ + 1]
    BY <1>4 DEF Record, storeVars, disk
  <2>2. Below(view, view')
    <3>1. view \in [Runs -> 0..2]
      BY <1>1, RunAssumption
    <3>2. \A x \in Runs : view[x] \in Nat /\ view'[x] = IF x = r THEN view[x] + 1 ELSE view[x]
      BY <2>1, <3>1
    <3> QED BY <3>2 DEF Below
  <2>3. Below(Saved, view') /\ \A i \in DOMAIN saveQueue : Below(saveQueue[i], view')
    <3>1. \A i \in DOMAIN saveQueue : saveQueue[i] \in Workspaces
      BY <1>1
    <3> QED BY <1>1, <1>2, <2>1, <2>2, <3>1, BelowBelow DEF Shown
  <2>4. Chain(Saved, Append(saveQueue, view'))
    BY <1>1, <1>2, <2>3, ChainAppend
  <2>5. \A i \in DOMAIN saveQueue' : Below(saveQueue'[i], view')
    <3>1. \A i \in DOMAIN Append(saveQueue, view') :
            \/ i \in DOMAIN saveQueue /\ Append(saveQueue, view')[i] = saveQueue[i]
            \/ Append(saveQueue, view')[i] = view'
      BY <1>1, AppendIs
    <3> QED BY <1>1, <2>1, <2>3, <3>1, BelowItself
  <2> QED BY <1>1, <1>2, <2>1, <2>3, <2>4, <2>5 DEF Growing, Shown
<1>5. CASE Close
  <2>1. /\ manifest' = manifest /\ saveQueue' = Append(saveQueue, view) /\ window' # "open" /\ Shown
    BY <1>2, <1>5 DEF Close, storeVars, disk
  <2>2. Chain(Saved, Append(saveQueue, view))
    BY <1>1, <1>2, <2>1, ChainAppend DEF Shown
  <2> QED BY <1>1, <1>2, <2>1, <2>2 DEF Growing
<1>6. CASE Load
  <2>1. /\ manifest' = manifest /\ saveQueue' = Append(saveQueue, Saved) /\ view' = Saved /\ saveQueue = <<>>
    BY <1>6 DEF Load, Loading, storeVars, disk
  <2>2. saveQueue' = <<Saved>> /\ DOMAIN <<Saved>> = {1} /\ <<Saved>>[1] = Saved
    BY <2>1
  <2> QED BY <1>1, <1>2, <2>1, <2>2 DEF Growing, Shown, Chain
<1>7. CASE Initialize
  <2>1. manifest' = manifest /\ window' = "loading" /\ saveQueue' \in {saveQueue, <<Merged>>}
    BY <1>7 DEF Initialize, storeVars, disk, ui
  <2>2. Below(Saved, Merged) /\ Below(Merged, Merged)
    <3>1. \A r \in Runs : Saved[r] \in 0..2 /\ Merged[r] = IF Saved[r] = 0 /\ file[r] # None THEN 1 ELSE Saved[r]
      BY <1>1, RunAssumption DEF Merged
    <3> QED BY <1>1, <3>1, BelowItself DEF Below
  <2>3. DOMAIN <<Merged>> = {1} /\ <<Merged>>[1] = Merged
    OBVIOUS
  <2>4. Chain(Saved, <<Merged>>)
    BY <2>2, <2>3 DEF Chain
  <2> QED BY <1>1, <1>2, <2>1, <2>4 DEF Growing
<1>8. CASE GoOn
  <2>1. UNCHANGED <<saveQueue, window, view>> /\ (manifest' = manifest \/ (saving # None /\ manifest' = saving))
    BY <1>1, <1>8, StoreMoves DEF GoOn, ui
  <2>2. CASE saving # None /\ manifest' = saving
    <3>1. saveQueue # <<>> /\ saving = Head(saveQueue)
      BY <2>2 DEF OnceInv, HeadIsSaved
    <3>2. Chain(saving, saveQueue) /\ 1 \in DOMAIN saveQueue /\ saving = saveQueue[1]
      BY <1>1, <1>2, <3>1, ChainTail
    <3>3. Saved' = saving
      BY <2>2 DEF Saved
    <3> QED BY <1>2, <2>1, <3>2, <3>3 DEF Growing, Shown, Chain
  <2> QED BY <1>3, <2>1, <2>2
<1>9. CASE FinishSave \/ SaveFails
  <2>1. UNCHANGED <<manifest, window, view>> /\ step # "idle" /\ saveQueue' = Tail(saveQueue)
    BY <1>9 DEF FinishSave, SaveFails, Collect, Stop, ui
  <2>2. saveQueue # <<>>
    BY <2>1, SavingQueued
  <2>3. /\ Chain(Saved, Tail(saveQueue))
        /\ \A i \in DOMAIN Tail(saveQueue) : i + 1 \in DOMAIN saveQueue /\ Tail(saveQueue)[i] = saveQueue[i + 1]
    BY <1>1, <1>2, <2>2, ChainTail
  <2>4. window = "open" => \A i \in DOMAIN Tail(saveQueue) : Below(Tail(saveQueue)[i], view)
    BY <1>2, <2>3 DEF Shown
  <2> QED BY <1>1, <1>2, <2>1, <2>3, <2>4 DEF Growing, Shown
<1>10. CASE Die
  <2>1. manifest' = manifest /\ window' # "open" /\ saveQueue' = <<>>
    BY <1>10 DEF Die, Stop, storeVars, disk
  <2>2. Chain(Saved, <<>>)
    BY DEF Chain
  <2> QED BY <1>1, <1>2, <2>1, <2>2 DEF Growing
<1>11. CASE Open
  BY <1>1, <1>2, <1>11 DEF Open, Growing, storeVars, disk
<1>12. CASE Save
  BY <1>3, <1>12 DEF Save, StartSave, ui, disk
<1>13. CASE \/ \E r \in Runs : \/ Begin(r) \/ FindPlace(r) \/ StartFails(r) \/ OpenJournal(r) \/ Opened(r)
                              \/ Discard(r) \/ DiscardFails(r) \/ Complete(r) \/ StopStart(r)
            \/ WriteJournal \/ Flush \/ JournalFails \/ UNCHANGED vars
  BY <1>3, <1>13 DEF Begin, FindPlace, StartFails, OpenJournal, Opened, Discard, DiscardFails, Complete,
     StopStart, WriteJournal, Flush, JournalFails, vars, storeVars, disk, ui
<1> QED
  BY <1>4, <1>5, <1>6, <1>7, <1>8, <1>9, <1>10, <1>11, <1>12, <1>13 DEF Next

KeptInv == OnceInv /\ Worked /\ Opening /\ Growing /\ Loading /\ Merging /\ NothingLost

LEMMA KeptStart == Init => KeptInv
<1> SUFFICES ASSUME Init PROVE KeptInv
  OBVIOUS
<1>1. Worked /\ Opening /\ Loading /\ Merging /\ NothingLost
  BY DEF Init, Worked, Opening, Loading, Merging, NothingLost
<1>2. Growing
  BY DEF Init, Growing, Chain
<1> QED BY <1>1, <1>2, OnceStart DEF KeptInv

LEMMA NothingLostKept == KeptInv /\ [Next]_vars => NothingLost'
<1> SUFFICES ASSUME KeptInv, [Next]_vars, NEW r \in ran'
             PROVE  file'[r] # None \/ Saved'[r] > 0
  BY DEF NothingLost
<1>1. /\ OnceInv /\ StoreTypeOK /\ HoldsTypeOK /\ JournalTyped /\ ran \subseteq Runs /\ r \in Runs
      /\ Saved[r] \in 0..2 /\ Saved'[r] \in 0..2 /\ Saved[r] <= Saved'[r]
  <2>1. OnceInv /\ OnceInv' /\ StoreTypeOK /\ StoreTypeOK'
    BY OnceKept DEF KeptInv, OnceInv, WorkspacesTyped
  <2>2. Saved \in [Runs -> 0..2] /\ Saved' \in [Runs -> 0..2]
    BY <2>1, RunAssumption, WorkspaceAssumption DEF StoreTypeOK, Saved
  <2>3. r \in Runs
    BY <2>1 DEF OnceInv, RestTyped
  <2> QED BY <2>1, <2>2, <2>3, GrowingKept DEF KeptInv, OnceInv, HoldsInv, RestTyped, Below
<1>2. CASE Saved[r] > 0
  BY <1>1, <1>2
<1>3. CASE r \notin ran
  <2>1. stage[r] = "opening" /\ r \notin Queued /\ file' = file
    BY <1>1, <1>3 DEF Next, vars, Begin, FindPlace, StartFails, OpenJournal, Opened, Discard, DiscardFails,
       Complete, StopStart, Record, WriteJournal, Flush, JournalFails, Close, Open, Load, Initialize, Save,
       GoOn, FinishSave, SaveFails, Die, journal
  <2> QED BY <1>1, <2>1 DEF KeptInv, Opening
<1>4. CASE r \in ran /\ file[r] # None
  <2>1. ASSUME NEW x \in Runs, Discard(x)
        PROVE  file'[r] # None
    <3>1. r # x /\ Acknowledged({x})
      BY <1>1, <1>4, <2>1 DEF Discard, KeptInv, Worked
    <3> QED BY <1>1, <1>4, <3>1, AcknowledgedEffect
  <2>2. CASE WriteJournal \/ JournalFails \/ Die
    <3>1. file' = file \/ \E ids : file' = Written(ids)
      BY <2>2 DEF WriteJournal, JournalFails, Die
    <3> QED BY <1>1, <1>4, <3>1, WrittenStays
  <2>3. CASE FinishSave
    <3>1. step = "collect" /\ manifest' = manifest
      BY <2>3 DEF FinishSave, Collect
    <3>2. saving # None /\ Saved = Head(saveQueue)
      BY <3>1, <1>1, SavingQueued DEF OnceInv, HeadIsSaved, Saved
    <3>3. r \in Superfluous => Head(saveQueue)[r] > 0
      BY <1>1 DEF Superfluous, Recorded, KeptInv, Merging
    <3>4. Acknowledged(Superfluous) /\ Superfluous \in SUBSET Runs
      BY <2>3 DEF FinishSave, Superfluous, Recorded
    <3>5. r \notin Superfluous => file'[r] = file[r]
      BY <1>1, <3>4, AcknowledgedEffect
    <3> QED BY <1>1, <1>4, <3>2, <3>3, <3>5
  <2>4. CASE UNCHANGED file
    BY <1>4, <2>4
  <2> QED
    BY <2>1, <2>2, <2>3, <2>4 DEF Next, vars, journal, Begin, FindPlace, StartFails, OpenJournal, Opened,
       DiscardFails, Complete, StopStart, Record, Flush, Close, Open, Load, Initialize, Save, GoOn, SaveFails
<1> QED BY <1>1, <1>2, <1>3, <1>4 DEF KeptInv, NothingLost

\* A run that has worked is in the journal or in the saved chats, whatever fails
\* and whenever the application dies (run-journal.ts, workspace-store.ts), as long
\* as no window is opened again while saves of the one before it wait.
THEOREM NothingIsLost == Spec /\ [][Quiet]_vars => []NothingLost
<1>1. KeptInv /\ [Next]_vars /\ [Quiet]_vars => KeptInv'
  BY OnceKept, WorkedKept, OpeningKept, GrowingKept, LoadingKept, MergingKept, NothingLostKept DEF KeptInv
<1>2. KeptInv => NothingLost
  BY DEF KeptInv
<1> QED BY <1>1, <1>2, KeptStart, PTL DEF Spec
=============================================================================
