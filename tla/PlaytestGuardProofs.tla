------------------------- MODULE PlaytestGuardProofs -------------------------
(***************************************************************************)
(* What TLAPS proves of PlaytestGuard, for any number of windows, places,   *)
(* scripts and starts and any size of the ledger: saves and playtest starts *)
(* exclude each other, and a start that is queued finds its scripts synced. *)
(***************************************************************************)
EXTENDS PlaytestGuard, FiniteSetTheorems, TLAPS

-----------------------------------------------------------------------------
(* Types.  The ledger has room for every save that is under way. *)

Room == Cardinality(entries \cup Writing) <= MaxEntries

StudioTyped ==
    /\ known \in [Windows -> Places] /\ on \subseteq Windows
    /\ \A v, w \in on : known[v] = known[w] => v = w
    /\ alias \in [Places -> Places]
    /\ moves \in 0..MaxMoves

SourcesTyped ==
    /\ file \in [Files -> Texts \cup {Missing}]
    /\ studio \in [Scripts -> Texts \cup {Missing}]
    /\ changed \in [Starts -> SUBSET Scripts]
    /\ texts \in Texts

LedgerTyped ==
    /\ entries \subseteq Scripts
    /\ writes \in [Scripts -> {"none", "reserved", "saved"}]
    /\ saved \subseteq Scripts

StartsTyped ==
    /\ start \in [Starts -> {"idle", "validating", "queued"}]
    /\ goal \in [Starts -> Places \cup {Nothing}]
    /\ check \in [Starts -> Validation \cup {Nothing}]
    /\ ticket \in [Starts -> Ticket \cup {Nothing}]
    /\ \A s \in Starts :
         /\ goal[s] = Nothing <=> start[s] = "idle"
         /\ check[s] = Nothing <=> start[s] # "validating"
         /\ start[s] = "idle" => ticket[s] = Nothing
         /\ start[s] = "validating" => ticket[s] # Nothing

Typed == StudioTyped /\ SourcesTyped /\ LedgerTyped /\ StartsTyped

LEMMA InitTyped == Init => Typed
BY GuardAssumption DEF Init, Typed, StudioTyped, SourcesTyped, LedgerTyped, StartsTyped, Texts

LEMMA ValidationIs ==
    ASSUME NEW left \in SUBSET Scripts, NEW now \in Scripts, NEW at \in Places,
           NEW f \in Seen, NEW t \in Seen, NEW ok \in SUBSET (Scripts \X Texts), NEW expired \in BOOLEAN
    PROVE  [left |-> left, now |-> now, at |-> at, file |-> f, studio |-> t,
            ok |-> ok, expired |-> expired] \in Validation
BY DEF Validation

LEMMA StudioKept == Typed /\ [Next]_vars => StudioTyped'
<1> SUFFICES ASSUME Typed, [Next]_vars PROVE StudioTyped'
  OBVIOUS
<1>1. CASE UNCHANGED studioVars
  BY <1>1 DEF Typed, StudioTyped, studioVars
<1>2. ASSUME NEW w \in Windows, Leave(w)
      PROVE  StudioTyped'
  BY <1>2, GuardAssumption DEF Leave, Typed, StudioTyped
<1>3. ASSUME NEW w \in Windows, NEW p \in Places, Register(w, p)
      PROVE  StudioTyped'
  BY <1>3, GuardAssumption DEF Register, Typed, StudioTyped, At
<1>4. ASSUME NEW p \in Places, ForgetAlias(p)
      PROVE  StudioTyped'
  BY <1>4 DEF ForgetAlias, Typed, StudioTyped
<1> QED
  BY <1>1, <1>2, <1>3, <1>4 DEF Next, vars, BeginWrite, Save, EndWrite, FinishWrite, AbandonWrite,
     Sync, EditInStudio, Ask, Go, ReadFile, Inspect, Judge, Unverified, Expire, Settled, EditFile

LEMMA SourcesKept == Typed /\ [Next]_vars => SourcesTyped'
<1> SUFFICES ASSUME Typed, [Next]_vars PROVE SourcesTyped'
  OBVIOUS
<1> USE GuardAssumption DEF SourcesTyped
<1>1. CASE UNCHANGED sources
  BY <1>1 DEF Typed, sources
<1>2. ASSUME NEW x \in Scripts, Save(x)
      PROVE  SourcesTyped'
  BY <1>2 DEF Save, Typed, Texts
<1>3. ASSUME NEW x \in Scripts, NEW text \in Texts \cup {Missing}, StudioBecomes(x, text)
      PROVE  studio' \in [Scripts -> Texts \cup {Missing}] /\ changed' \in [Starts -> SUBSET Scripts]
  BY <1>3 DEF StudioBecomes, Typed
<1>4. ASSUME NEW x \in Scripts, Sync(x)
      PROVE  SourcesTyped'
  <2>1. file[x[2]] \in Texts \cup {Missing}
    BY DEF Typed
  <2> QED BY <1>3, <1>4, <2>1 DEF Sync, Typed
<1>5. ASSUME NEW x \in Scripts, EditInStudio(x)
      PROVE  SourcesTyped'
  <2>1. texts' \in Texts
    BY <1>5 DEF EditInStudio, Typed, Texts
  <2> QED BY <1>3, <1>5, <2>1 DEF EditInStudio, Typed
<1>6. ASSUME NEW f \in Files, EditFile(f)
      PROVE  SourcesTyped'
  BY <1>6 DEF EditFile, Typed, Texts
<1>7. ASSUME NEW s \in Starts, NEW p \in Places, Ask(s, p)
      PROVE  SourcesTyped'
  BY <1>7 DEF Ask, Typed
<1>8. ASSUME NEW s \in Starts, Inspect(s)
      PROVE  SourcesTyped'
  BY <1>8 DEF Inspect, Typed
<1> QED
  BY <1>1, <1>2, <1>4, <1>5, <1>6, <1>7, <1>8 DEF Next, vars, BeginWrite, EndWrite, FinishWrite,
     AbandonWrite, Go, ReadFile, Judge, Unverified, Expire, Settled, Leave, Register, ForgetAlias

LEMMA LedgerKept == Typed /\ [Next]_vars => LedgerTyped'
<1> SUFFICES ASSUME Typed, [Next]_vars PROVE LedgerTyped'
  OBVIOUS
<1> USE DEF LedgerTyped
<1>1. CASE UNCHANGED ledger
  BY <1>1 DEF Typed, ledger
<1>2. ASSUME NEW x \in Scripts, BeginWrite(x) \/ Save(x) \/ FinishWrite(x) \/ AbandonWrite(x)
      PROVE  LedgerTyped'
  BY <1>2 DEF BeginWrite, Save, FinishWrite, AbandonWrite, Recorded, Typed
<1>3. ASSUME NEW s \in Starts, Judge(s)
      PROVE  LedgerTyped'
  BY <1>3 DEF Judge, Typed
<1> QED
  BY <1>1, <1>2, <1>3 DEF Next, vars, EndWrite, Sync, EditInStudio, Ask, Go, ReadFile, Inspect,
     Unverified, Expire, Settled, Leave, Register, ForgetAlias, EditFile

LEMMA EndStartTyped ==
    ASSUME Typed, NEW s \in Starts, EndStart(s)
    PROVE  StartsTyped'
BY DEF EndStart, Typed, StartsTyped

\* A validation that goes on to the next entry is one.
LEMMA ValidateTyped ==
    ASSUME Typed, NEW s \in Starts, NEW left \in SUBSET Scripts, NEW ok \in SUBSET (Scripts \X Texts),
           NEW expired \in BOOLEAN, NEW x \in Scripts, Validate(s, left, ok, expired, x)
    PROVE  \E c \in Validation : check' = [check EXCEPT ![s] = c]
<1>1. known[x[1]] \in Places
  BY GuardAssumption DEF Typed, StudioTyped
<1>2. left \ {x} \in SUBSET Scripts /\ Unread \in Seen
  BY DEF Seen
<1> QED BY <1>1, <1>2, ValidationIs DEF Validate

LEMMA StartsKept == Typed /\ [Next]_vars => StartsTyped'
<1> SUFFICES ASSUME Typed, [Next]_vars PROVE StartsTyped'
  OBVIOUS
<1> USE NothingAssumption DEF StartsTyped
<1>1. CASE UNCHANGED starts
  BY <1>1 DEF Typed, starts
<1>2. ASSUME NEW s \in Starts, NEW p \in Places, Ask(s, p)
      PROVE  StartsTyped'
  <2> DEFINE tracked == {x \in entries : Matches(x, p)}
  <2>1. tracked \in SUBSET Scripts
    BY DEF Typed, LedgerTyped
  <2>2. CASE tracked = {}
    BY <1>2, <2>2 DEF Ask, Typed
  <2>3. CASE tracked # {}
    <3>1. PICK x \in tracked :
            /\ start' = [start EXCEPT ![s] = "validating"]
            /\ Validate(s, tracked, {}, FALSE, x)
            /\ ticket' = [ticket EXCEPT ![s] = [owner |-> x[1], files |-> {y[2] : y \in tracked}]]
      BY <1>2, <2>3 DEF Ask
    <3>2. goal' = [goal EXCEPT ![s] = p]
      BY <1>2 DEF Ask
    <3>3. [owner |-> x[1], files |-> {y[2] : y \in tracked}] \in Ticket
      BY <2>1, GuardAssumption DEF Ticket
    <3> HIDE DEF tracked
    <3>4. PICK c \in Validation : check' = [check EXCEPT ![s] = c]
      BY <2>1, <3>1, ValidateTyped
    <3> QED BY <3>1, <3>2, <3>3, <3>4 DEF Typed
  <2> QED BY <2>2, <2>3
<1>3. ASSUME NEW s \in Starts, ReadFile(s)
      PROVE  StartsTyped'
  <2>1. check[s] \in Validation
    BY <1>3 DEF ReadFile, Typed
  <2>2. file[check[s].now[2]] \in Seen
    BY <2>1, GuardAssumption DEF Validation, Typed, SourcesTyped, Seen
  <2>3. [check[s] EXCEPT !.file = file[check[s].now[2]]] \in Validation
    BY <2>1, <2>2 DEF Validation
  <2> QED BY <1>3, <2>3 DEF ReadFile, Typed
<1>4. ASSUME NEW s \in Starts, Inspect(s)
      PROVE  StartsTyped'
  <2>1. check[s] \in Validation
    BY <1>4 DEF Inspect, Typed
  <2>2. studio[check[s].now] \in Seen
    BY <2>1 DEF Validation, Typed, SourcesTyped, Seen
  <2>3. [check[s] EXCEPT !.studio = studio[check[s].now]] \in Validation
    BY <2>1, <2>2 DEF Validation
  <2> QED BY <1>4, <2>3 DEF Inspect, Typed
<1>5. ASSUME NEW s \in Starts, Expire(s)
      PROVE  StartsTyped'
  <2>1. check[s] \in Validation
    BY <1>5 DEF Expire, Typed
  <2>2. [check[s] EXCEPT !.expired = TRUE] \in Validation
    BY <2>1 DEF Validation
  <2> QED BY <1>5, <2>2 DEF Expire, Typed
<1>6. ASSUME NEW s \in Starts, Judge(s)
      PROVE  StartsTyped'
  <2> DEFINE seen == check[s]
             ok == IF Synced(s) THEN seen.ok \cup {<<seen.now, seen.studio>>} ELSE seen.ok
  <2>1. seen \in Validation
    BY <1>6 DEF Judge, Typed
  <2>2. ok \in SUBSET (Scripts \X Texts)
    BY <2>1 DEF Validation, Synced
  <2>3. \/ \E x \in seen.left : Validate(s, seen.left, ok, seen.expired, x) /\ UNCHANGED <<start, goal, ticket>>
        \/ /\ start' = [start EXCEPT ![s] = "queued"] /\ check' = [check EXCEPT ![s] = Nothing]
           /\ UNCHANGED <<goal, ticket>>
        \/ EndStart(s)
    BY <1>6 DEF Judge
  <2>4. ASSUME NEW x \in seen.left, Validate(s, seen.left, ok, seen.expired, x),
               UNCHANGED <<start, goal, ticket>>
        PROVE  StartsTyped'
    <3>1. seen.left \in SUBSET Scripts /\ seen.expired \in BOOLEAN
      BY <2>1 DEF Validation
    <3>2. PICK left \in SUBSET Scripts, given \in SUBSET (Scripts \X Texts), late \in BOOLEAN :
            x \in Scripts /\ Validate(s, left, given, late, x)
      <4> HIDE DEF seen, ok
      <4> QED BY <2>2, <2>4, <3>1
    <3>3. PICK c \in Validation : check' = [check EXCEPT ![s] = c]
      BY <3>2, ValidateTyped
    <3>4. start[s] = "validating"
      BY <1>6 DEF Judge
    <3> QED BY <2>4, <3>3, <3>4 DEF Typed
  <2>5. CASE /\ start' = [start EXCEPT ![s] = "queued"] /\ check' = [check EXCEPT ![s] = Nothing]
             /\ UNCHANGED <<goal, ticket>>
    BY <1>6, <2>5 DEF Judge, Typed
  <2> QED BY <2>3, <2>4, <2>5, EndStartTyped
<1>7. ASSUME NEW s \in Starts, Unverified(s) \/ Settled(s)
      PROVE  StartsTyped'
  BY <1>7, EndStartTyped DEF Unverified, Settled
<1> QED
  BY <1>1, <1>2, <1>3, <1>4, <1>5, <1>6, <1>7 DEF Next, vars, BeginWrite, Save, EndWrite,
     FinishWrite, AbandonWrite, Sync, EditInStudio, Go, Leave, Register, ForgetAlias, EditFile

-----------------------------------------------------------------------------
(* The ledger has room for every save that is under way. *)

LEMMA RoomKept == Typed /\ Room /\ [Next]_vars => Room'
<1> SUFFICES ASSUME Typed, Room, [Next]_vars PROVE Room'
  OBVIOUS
<1> DEFINE used == entries \cup Writing
<1>1. used \in SUBSET Scripts /\ IsFiniteSet(used) /\ MaxEntries \in Nat
  BY GuardAssumption, FS_Subset DEF Typed, LedgerTyped, Writing
<1>2. ASSUME used' \subseteq used
      PROVE  Room'
  <2>1. IsFiniteSet(used') /\ Cardinality(used') <= Cardinality(used)
    BY <1>1, <1>2, FS_Subset
  <2>2. Cardinality(used') \in Nat /\ Cardinality(used) \in Nat
    BY <1>1, <2>1, FS_CardinalityType
  <2> QED BY <1>1, <2>1, <2>2 DEF Room
<1>3. ASSUME NEW x \in Scripts, BeginWrite(x)
      PROVE  Room'
  <2>1. entries' = entries /\ Writing' = Writing \cup {x}
    BY <1>3 DEF BeginWrite, Writing, Typed, LedgerTyped
  <2>2. CASE x \in entries
    <3>1. used' \subseteq used
      BY <2>1, <2>2
    <3> QED BY <1>2, <3>1
  <2>3. CASE x \notin entries
    <3>1. Cardinality(used) < MaxEntries
      BY <1>3, <2>3 DEF BeginWrite, Entrants
    <3>2. used' = used \cup {x}
      BY <2>1
    <3>3. Cardinality(used') <= Cardinality(used) + 1
      <4>1. Cardinality(used \cup {x}) \in {Cardinality(used), Cardinality(used) + 1}
        <5> HIDE DEF used
        <5> QED BY <1>1, FS_AddElement
      <4>2. Cardinality(used) \in Nat
        BY <1>1, FS_CardinalityType
      <4> HIDE DEF used
      <4> QED BY <3>2, <4>1, <4>2
    <3>4. Cardinality(used) \in Nat /\ Cardinality(used') \in Nat
      <4>1. IsFiniteSet(used')
        BY <1>1, <3>2, FS_AddElement
      <4> QED BY <1>1, <4>1, FS_CardinalityType
    <3> QED BY <1>1, <3>1, <3>3, <3>4 DEF Room
  <2> QED BY <2>2, <2>3
<1>4. ASSUME NEW x \in Scripts, Save(x) \/ FinishWrite(x) \/ AbandonWrite(x)
      PROVE  Room'
  <2>1. entries' \subseteq entries \cup {x} /\ x \in Writing /\ Writing' \subseteq Writing
    BY <1>4 DEF Save, FinishWrite, AbandonWrite, Recorded, Writing, Typed, LedgerTyped
  <2>2. used' \subseteq used
    BY <2>1
  <2> QED BY <1>2, <2>2
<1>5. ASSUME NEW s \in Starts, Judge(s)
      PROVE  Room'
  <2>1. used' \subseteq used
    BY <1>5 DEF Judge, Writing
  <2> QED BY <1>2, <2>1
<1>6. CASE UNCHANGED ledger
  <2>1. used' \subseteq used
    BY <1>6 DEF ledger, Writing
  <2> QED BY <1>2, <2>1
<1> QED
  BY <1>3, <1>4, <1>5, <1>6 DEF Next, vars, EndWrite, Sync, EditInStudio, Ask, Go, ReadFile,
     Inspect, Unverified, Expire, Settled, Leave, Register, ForgetAlias, EditFile

LEMMA TypedAlways == Spec => [](Typed /\ Room)
<1>1. Init => Room
  <2> SUFFICES ASSUME Init PROVE Room
    OBVIOUS
  <2>1. entries \cup Writing = {}
    BY DEF Init, Writing
  <2> QED BY <2>1, FS_EmptySet, GuardAssumption DEF Room
<1>2. Typed /\ Room /\ [Next]_vars => (Typed /\ Room)'
  BY StudioKept, SourcesKept, LedgerKept, StartsKept, RoomKept DEF Typed
<1> QED
  BY InitTyped, <1>1, <1>2, PTL DEF Spec

\* Every variable keeps its type; no two connected windows share a place, a
\* start holds a ticket exactly as long as sendRequest says, and the ledger
\* never outgrows its size, although beginWrite checks the room when a save is
\* reserved and the record is made when it ends.
THEOREM GuardTypes == Spec => []GuardTypeOK
<1>1. Typed /\ Room => GuardTypeOK
  <2> SUFFICES ASSUME Typed, Room PROVE GuardTypeOK
    OBVIOUS
  <2>1. Cardinality(entries) <= MaxEntries
    <3>1. IsFiniteSet(entries \cup Writing)
      BY GuardAssumption, FS_Subset DEF Typed, LedgerTyped, Writing
    <3>2. IsFiniteSet(entries) /\ Cardinality(entries) <= Cardinality(entries \cup Writing)
      BY <3>1, FS_Subset
    <3> QED BY <3>1, <3>2, FS_CardinalityType, GuardAssumption DEF Room
  <2> QED BY <2>1 DEF GuardTypeOK, Typed, StudioTyped, SourcesTyped, LedgerTyped, StartsTyped
<1> QED
  BY TypedAlways, <1>1, PTL

-----------------------------------------------------------------------------
(* Saves and starts exclude each other. *)

\* No save is under way in the window of a ticket, or to one of its files.
Excluded == \A x \in Writing, t \in Tickets : t.owner # x[1] /\ x[2] \notin t.files

LEMMA ExcludedKept == Typed /\ Excluded /\ [Next]_vars => Excluded'
<1> SUFFICES ASSUME Typed, Excluded, [Next]_vars PROVE Excluded'
  OBVIOUS
<1>1. ASSUME Writing' \subseteq Writing, Tickets' \subseteq Tickets
      PROVE  Excluded'
  BY <1>1 DEF Excluded
<1>2. ASSUME NEW x \in Scripts, BeginWrite(x)
      PROVE  Excluded'
  <2>1. Writing' \subseteq Writing \cup {x} /\ Tickets' = Tickets
    BY <1>2 DEF BeginWrite, Writing, Typed, LedgerTyped, starts, Tickets
  <2>2. \A t \in Tickets : t.owner # x[1] /\ x[2] \notin t.files
    BY <1>2 DEF BeginWrite, Barred
  <2> QED BY <2>1, <2>2 DEF Excluded
<1>3. ASSUME NEW x \in Scripts, Save(x) \/ EndWrite(x)
      PROVE  Excluded'
  <2>1. Writing' \subseteq Writing /\ Tickets' = Tickets
    BY <1>3 DEF Save, EndWrite, FinishWrite, AbandonWrite, Writing, Typed, LedgerTyped, starts, Tickets
  <2> QED BY <1>1, <2>1
<1>4. ASSUME NEW s \in Starts, NEW p \in Places, Ask(s, p)
      PROVE  Excluded'
  <2> DEFINE tracked == {x \in entries : Matches(x, p)}
             held(x) == [owner |-> x[1], files |-> {y[2] : y \in tracked}]
  <2>1. Writing' = Writing
    BY <1>4 DEF Ask, ledger, Writing
  <2>2. ~Disputed(p, tracked)
    BY <1>4 DEF Ask
  <2>3. \/ ticket' = ticket
        \/ \E x \in tracked : ticket' = [ticket EXCEPT ![s] = held(x)]
    BY <1>4 DEF Ask
  <2>4. CASE ticket' = ticket
    BY <2>1, <2>4, <1>1 DEF Tickets
  <2>5. ASSUME NEW x \in tracked, ticket' = [ticket EXCEPT ![s] = held(x)]
        PROVE  Excluded'
    <3>1. Tickets' \subseteq Tickets \cup {held(x)}
      <4> HIDE DEF held
      <4> QED BY <2>5 DEF Tickets, Typed, StartsTyped
    <3>2. \A y \in Writing : x[1] # y[1]
      BY <2>2 DEF Disputed, Matches
    <3>3. \A y \in Writing : y[2] \notin {z[2] : z \in tracked}
      BY <2>2 DEF Disputed
    <3> QED BY <2>1, <3>1, <3>2, <3>3 DEF Excluded
  <2> QED BY <2>3, <2>4, <2>5
<1>5. ASSUME NEW s \in Starts, Judge(s) \/ Unverified(s) \/ Settled(s)
      PROVE  Excluded'
  <2>1. Writing' = Writing
    BY <1>5 DEF Judge, Unverified, Settled, ledger, Writing
  <2>2. ticket' = ticket \/ ticket' = [ticket EXCEPT ![s] = Nothing]
    BY <1>5 DEF Judge, Unverified, Settled, EndStart
  <2>3. Tickets' \subseteq Tickets
    BY <2>2 DEF Tickets, Typed, StartsTyped
  <2> QED BY <1>1, <2>1, <2>3
<1>6. CASE UNCHANGED <<writes, ticket>>
  BY <1>1, <1>6 DEF Writing, Tickets
<1> QED
  BY <1>2, <1>3, <1>4, <1>5, <1>6 DEF Next, vars, ledger, starts, Sync, EditInStudio, Go, ReadFile,
     Inspect, Expire, Leave, Register, ForgetAlias, EditFile

LEMMA ExcludedAlways == Spec => []Excluded
<1>1. Init => Excluded
  BY DEF Init, Excluded, Writing
<1> QED
  BY TypedAlways, ExcludedKept, <1>1, PTL DEF Spec

\* A save that replaces a file does so under no ticket of its window or of its
\* file, in whatever order beginWrite and beforeRequest were called and
\* wherever the windows have moved in between.
THEOREM SavesAndStartsExclude == Spec => SavesAreBarred
<1>1. Typed /\ Excluded /\ [Next]_vars =>
        [\A x \in Scripts : writes[x] = "reserved" /\ writes'[x] = "saved" =>
           \A t \in Tickets : t.owner # x[1] /\ x[2] \notin t.files]_vars
  BY DEF Excluded, Writing
<1> QED
  BY TypedAlways, ExcludedAlways, <1>1, PTL DEF Spec, SavesAreBarred

-----------------------------------------------------------------------------
(* A start that is queued finds its scripts synced. *)

\* A script that a save has changed is recorded, or its save has not ended.
NoneForgotten == \A x \in saved : x \in entries \/ writes[x] = "saved"

\* A validation takes each entry once,
Ordered(c) == c.now \notin c.left /\ \A v \in c.ok : v[1] \notin c.left \cup {c.now}

\* takes every entry of its window,
Complete(c, w) == \A x \in entries : x[1] = w => x \in c.left \cup {c.now} \cup {v[1] : v \in c.ok}

\* and what it has read is still in Studio, unless Studio has changed since.
Current(c, later) ==
    /\ \A v \in c.ok : studio[v[1]] = v[2] \/ v[1] \in later
    /\ c.studio # Unread => studio[c.now] = c.studio \/ c.now \in later

Sound(s) ==
    start[s] = "validating" =>
        Ordered(check[s]) /\ Complete(check[s], ticket[s].owner) /\ Current(check[s], changed[s])

SyncInv == NoneForgotten /\ \A s \in Starts : Sound(s)

LEMMA NoneForgottenKept == Typed /\ NoneForgotten /\ [Next]_vars => NoneForgotten'
<1> SUFFICES ASSUME Typed, NoneForgotten, [Next]_vars PROVE NoneForgotten'
  OBVIOUS
<1> USE DEF NoneForgotten
<1>1. CASE UNCHANGED ledger
  BY <1>1 DEF ledger
<1>2. ASSUME NEW x \in Scripts, BeginWrite(x)
      PROVE  NoneForgotten'
  <2>1. writes[x] # "saved"
    BY <1>2 DEF BeginWrite, Writing
  <2> QED BY <1>2, <2>1 DEF BeginWrite, Typed, LedgerTyped
<1>3. ASSUME NEW x \in Scripts, Save(x) \/ FinishWrite(x) \/ AbandonWrite(x)
      PROVE  NoneForgotten'
  BY <1>3 DEF Save, FinishWrite, AbandonWrite, Recorded, Typed, LedgerTyped
<1>4. ASSUME NEW s \in Starts, Judge(s)
      PROVE  NoneForgotten'
  BY <1>4 DEF Judge
<1> QED
  BY <1>1, <1>2, <1>3, <1>4 DEF Next, vars, EndWrite, Sync, EditInStudio, Ask, Go, ReadFile, Inspect,
     Unverified, Expire, Settled, Leave, Register, ForgetAlias, EditFile

\* The window of a ticket has no save under way whose end could add a record.
LEMMA SoundStays ==
    ASSUME Typed, Excluded, NEW s \in Starts, Sound(s), start[s] = "validating",
           ticket'[s] = ticket[s], check'[s].left = check[s].left, check'[s].now = check[s].now,
           check'[s].ok = check[s].ok, check'[s].studio = check[s].studio,
           entries' \subseteq entries \cup Writing,
           \A x \in Scripts : studio'[x] = studio[x] \/ x \in changed'[s],
           changed[s] \subseteq changed'[s]
    PROVE  Sound(s)'
<1>1. check[s] \in Validation /\ ticket[s] \in Tickets
  BY DEF Typed, StartsTyped, Tickets
<1>2. check[s].now \in Scripts /\ \A v \in check[s].ok : v[1] \in Scripts
  BY <1>1 DEF Validation
<1>3. Ordered(check[s])'
  BY DEF Sound, Ordered
<1>4. Complete(check[s], ticket[s].owner)'
  <2>1. \A x \in entries' : x[1] = ticket[s].owner => x \in entries
    BY <1>1 DEF Excluded
  <2>2. Complete(check[s], ticket[s].owner)
    BY DEF Sound
  <2> QED BY <2>1, <2>2 DEF Complete
<1>5. Current(check[s], changed[s])'
  <2>1. Current(check[s], changed[s])
    BY DEF Sound
  <2>2. \A v \in check[s].ok : studio'[v[1]] = v[2] \/ v[1] \in changed'[s]
    BY <1>2, <2>1 DEF Current
  <2>3. check[s].studio # Unread => studio'[check[s].now] = check[s].studio \/ check[s].now \in changed'[s]
    BY <1>2, <2>1 DEF Current
  <2> QED BY <2>2, <2>3 DEF Current
<1> QED BY <1>3, <1>4, <1>5 DEF Sound

\* What a step of Studio, Rojo, an editor or a save does to the validations.
LEMMA SoundElsewhere ==
    ASSUME Typed, Excluded, NEW s \in Starts, Sound(s), UNCHANGED starts,
           entries' \subseteq entries \cup Writing,
           \/ UNCHANGED <<studio, changed>>
           \/ \E x \in Scripts, text \in Texts \cup {Missing} : StudioBecomes(x, text)
    PROVE  Sound(s)'
<1>1. CASE start[s] # "validating"
  BY <1>1 DEF starts, Sound
<1>2. CASE start[s] = "validating"
  <2>1. changed[s] \subseteq changed'[s] /\ \A x \in Scripts : studio'[x] = studio[x] \/ x \in changed'[s]
    <3>1. CASE UNCHANGED <<studio, changed>>
      BY <3>1
    <3>2. ASSUME NEW x \in Scripts, NEW text \in Texts \cup {Missing}, StudioBecomes(x, text)
          PROVE  changed[s] \subseteq changed'[s] /\ \A y \in Scripts : studio'[y] = studio[y] \/ y \in changed'[s]
      BY <1>2, <3>2 DEF StudioBecomes, Typed, SourcesTyped
    <3> QED BY <3>1, <3>2
  <2> QED BY <1>2, <2>1, SoundStays DEF starts
<1> QED BY <1>1, <1>2

LEMMA SoundOnAsk ==
    ASSUME Typed, Excluded, SyncInv, NEW s \in Starts, NEW p \in Places, Ask(s, p), NEW t \in Starts
    PROVE  Sound(t)'
<1>1. CASE t # s
  <2>1. start'[t] = start[t] /\ check'[t] = check[t] /\ ticket'[t] = ticket[t] /\ changed'[t] = changed[t]
    BY <1>1 DEF Ask, Validate, Typed, StartsTyped, SourcesTyped
  <2>2. entries' = entries /\ studio' = studio
    BY DEF Ask, ledger
  <2>3. CASE start[t] = "validating"
    BY <2>1, <2>2, <2>3, SoundStays DEF SyncInv
  <2>4. CASE start[t] # "validating"
    BY <2>1, <2>4 DEF Sound
  <2> QED BY <2>3, <2>4
<1>2. CASE t = s
  <2> DEFINE tracked == {x \in entries : Matches(x, p)}
  <2>1. entries' = entries
    BY DEF Ask, ledger
  <2>2. CASE tracked = {}
    BY <1>2, <2>2 DEF Ask, Sound, Typed, StartsTyped
  <2>3. CASE tracked # {}
    <3>1. PICK x \in tracked :
            /\ Validate(s, tracked, {}, FALSE, x)
            /\ ticket' = [ticket EXCEPT ![s] = [owner |-> x[1], files |-> {y[2] : y \in tracked}]]
      BY <2>3 DEF Ask
    <3>2. ticket'[s].owner = x[1]
      BY <3>1 DEF Typed, StartsTyped
    <3>3. \A y \in entries : y[1] = x[1] => y \in tracked
      BY <3>1 DEF Matches
    <3> HIDE DEF tracked
    <3>4. /\ check'[s].left = tracked \ {x} /\ check'[s].now = x
          /\ check'[s].ok = {} /\ check'[s].studio = Unread
      BY <3>1 DEF Validate, Typed, StartsTyped
    <3>5. Ordered(check[s])' /\ Current(check[s], changed[s])'
      BY <3>4 DEF Ordered, Current
    <3>6. Complete(check[s], ticket[s].owner)'
      BY <2>1, <3>2, <3>3, <3>4 DEF Complete
    <3> QED BY <1>2, <3>5, <3>6 DEF Sound
  <2> QED BY <2>2, <2>3
<1> QED BY <1>1, <1>2

\* Studio's text of the present entry is read afresh; what was read of the
\* entries before it stands as it did.
LEMMA SoundOnInspect ==
    ASSUME Typed, Excluded, SyncInv, NEW s \in Starts, Inspect(s), NEW t \in Starts
    PROVE  Sound(t)'
<1>1. UNCHANGED <<start, ticket, entries, studio>>
  BY DEF Inspect, ledger
<1>2. CASE t # s
  <2>1. check'[t] = check[t] /\ changed'[t] = changed[t]
    BY <1>2 DEF Inspect, Typed, StartsTyped, SourcesTyped
  <2>2. CASE start[t] = "validating"
    BY <1>1, <2>1, <2>2, SoundStays DEF SyncInv
  <2>3. CASE start[t] # "validating"
    BY <1>1, <2>3 DEF Sound
  <2> QED BY <2>2, <2>3
<1>3. CASE t = s
  <2> DEFINE x == check[s].now
  <2>1. check[s] \in Validation /\ start[s] = "validating"
    BY DEF Inspect, Typed, StartsTyped
  <2>2. /\ check'[s].left = check[s].left /\ check'[s].now = x
        /\ check'[s].ok = check[s].ok /\ check'[s].studio = studio[x]
    <3>1. check'[s] = [check[s] EXCEPT !.studio = studio[x]]
      BY DEF Inspect, Typed, StartsTyped
    <3> QED BY <2>1, <3>1 DEF Validation
  <2>3. changed'[s] = changed[s] \ {x}
    BY DEF Inspect, Typed, SourcesTyped
  <2>4. Sound(s)
    BY DEF SyncInv
  <2>5. Ordered(check[s])' /\ Complete(check[s], ticket[s].owner)'
    BY <1>1, <2>1, <2>2, <2>4 DEF Sound, Ordered, Complete
  <2>6. Current(check[s], changed[s])'
    BY <1>1, <2>1, <2>2, <2>3, <2>4 DEF Sound, Ordered, Current
  <2> QED BY <1>3, <2>5, <2>6 DEF Sound
<1> QED BY <1>2, <1>3

LEMMA SoundOnRead ==
    ASSUME Typed, Excluded, SyncInv, NEW s \in Starts, ReadFile(s) \/ Expire(s), NEW t \in Starts
    PROVE  Sound(t)'
<1>1. UNCHANGED <<start, ticket, entries, studio, changed>>
  BY DEF ReadFile, Expire, sources, ledger
<1>2. CASE start[t] = "validating"
  <2>1. check[t] \in Validation
    BY <1>2 DEF Typed, StartsTyped
  <2>2. \/ check'[t] = check[t]
        \/ check'[t] = [check[t] EXCEPT !.file = file[check[t].now[2]]]
        \/ check'[t] = [check[t] EXCEPT !.expired = TRUE]
    BY DEF ReadFile, Expire, Typed, StartsTyped
  <2>3. /\ check'[t].left = check[t].left /\ check'[t].now = check[t].now
        /\ check'[t].ok = check[t].ok /\ check'[t].studio = check[t].studio
    BY <2>1, <2>2 DEF Validation
  <2> QED BY <1>1, <1>2, <2>3, SoundStays DEF SyncInv
<1>3. CASE start[t] # "validating"
  BY <1>1, <1>3 DEF Sound
<1> QED BY <1>2, <1>3

\* The entry that was judged counts as verified, or is no longer recorded.
LEMMA SoundOnJudge ==
    ASSUME Typed, Excluded, SyncInv, NEW s \in Starts, Judge(s), NEW t \in Starts
    PROVE  Sound(t)'
<1> DEFINE seen == check[s]
           gone == IF Steady(s) /\ Retired(s) THEN {seen.now} ELSE {}
           ok   == IF Synced(s) THEN seen.ok \cup {<<seen.now, seen.studio>>} ELSE seen.ok
<1>1. entries' = entries \ gone /\ UNCHANGED <<studio, changed>>
  BY DEF Judge, sources
<1>2. seen \in Validation /\ start[s] = "validating" /\ seen.studio # Unread
  BY DEF Judge, Typed, StartsTyped
<1>3. CASE t # s
  <2>1. start'[t] = start[t] /\ check'[t] = check[t] /\ ticket'[t] = ticket[t]
    BY <1>3 DEF Judge, EndStart, Validate, Typed, StartsTyped
  <2>2. CASE start[t] = "validating"
    BY <1>1, <2>1, <2>2, SoundStays DEF SyncInv
  <2>3. CASE start[t] # "validating"
    BY <2>1, <2>3 DEF Sound
  <2> QED BY <2>2, <2>3
<1>4. CASE t = s
  <2>1. CASE start'[s] # "validating"
    BY <1>4, <2>1 DEF Sound
  <2>2. CASE start'[s] = "validating"
    <3>1. /\ Steady(s) /\ (Retired(s) \/ Synced(s))
          /\ \E x \in seen.left : Validate(s, seen.left, ok, seen.expired, x)
          /\ UNCHANGED <<start, goal, ticket>>
      BY <2>2 DEF Judge, EndStart, Typed, StartsTyped
    <3>2. PICK x \in seen.left : Validate(s, seen.left, ok, seen.expired, x)
      BY <3>1
    <3>3. /\ check'[s].left = seen.left \ {x} /\ check'[s].now = x
          /\ check'[s].ok = ok /\ check'[s].studio = Unread
      <4> HIDE DEF ok, seen
      <4> QED BY <3>2 DEF Validate, Typed, StartsTyped
    <3>4. Ordered(seen) /\ Complete(seen, ticket[s].owner) /\ Current(seen, changed[s])
      BY <1>2 DEF SyncInv, Sound
    <3>5. Ordered(check[s])'
      <4>1. \A v \in ok : v[1] \notin seen.left
        BY <3>4 DEF Ordered
      <4> HIDE DEF ok, seen
      <4> QED BY <3>2, <3>3, <4>1 DEF Ordered
    <3>6. Complete(check[s], ticket[s].owner)'
      <4>1. \A y \in entries' : y[1] = ticket[s].owner => y \in seen.left \cup {v[1] : v \in ok}
        <5>1. CASE Synced(s)
          BY <1>1, <3>4, <5>1 DEF Complete
        <5>2. CASE ~Synced(s)
          BY <1>1, <3>1, <3>4, <5>2 DEF Complete
        <5> QED BY <5>1, <5>2
      <4> HIDE DEF ok, seen
      <4> QED BY <3>1, <3>3, <4>1 DEF Complete
    <3>7. Current(check[s], changed[s])'
      <4>1. \A v \in ok : studio[v[1]] = v[2] \/ v[1] \in changed[s]
        BY <1>2, <3>4 DEF Current
      <4> HIDE DEF ok, seen
      <4> QED BY <1>1, <3>3, <4>1 DEF Current
    <3> QED BY <1>4, <3>5, <3>6, <3>7 DEF Sound
  <2> QED BY <2>1, <2>2
<1> QED BY <1>3, <1>4

LEMMA SyncInvKept == Typed /\ Excluded /\ SyncInv /\ [Next]_vars => SyncInv'
<1> SUFFICES ASSUME Typed, Excluded, SyncInv, [Next]_vars PROVE \A t \in Starts : Sound(t)'
  BY NoneForgottenKept DEF SyncInv
<1>1. TAKE t \in Starts
<1>2. Sound(t)
  BY DEF SyncInv
<1>3. CASE UNCHANGED starts /\ entries' = entries /\ UNCHANGED <<studio, changed>>
  BY <1>2, <1>3, SoundElsewhere
<1>4. ASSUME NEW x \in Scripts, BeginWrite(x) \/ Save(x) \/ FinishWrite(x) \/ AbandonWrite(x)
      PROVE  Sound(t)'
  <2>1. UNCHANGED starts /\ UNCHANGED <<studio, changed>>
    BY <1>4 DEF BeginWrite, Save, FinishWrite, AbandonWrite, sources
  <2>2. entries' \subseteq entries \cup Writing
    BY <1>4 DEF BeginWrite, Save, FinishWrite, AbandonWrite, Recorded, Writing
  <2> QED BY <1>2, <2>1, <2>2, SoundElsewhere
<1>5. ASSUME NEW x \in Scripts, Sync(x) \/ EditInStudio(x)
      PROVE  Sound(t)'
  <2>1. UNCHANGED starts /\ entries' = entries
    BY <1>5 DEF Sync, EditInStudio, ledger
  <2>2. \E text \in Texts \cup {Missing} : StudioBecomes(x, text)
    <3>1. file[x[2]] \in Texts \cup {Missing}
      BY GuardAssumption DEF Typed, SourcesTyped
    <3>2. EditInStudio(x) => texts' \in Texts
      BY GuardAssumption DEF EditInStudio, Typed, SourcesTyped, Texts
    <3> QED BY <1>5, <3>1, <3>2 DEF Sync, EditInStudio
  <2> QED BY <1>2, <2>1, <2>2, SoundElsewhere
<1>6. ASSUME NEW s \in Starts, Unverified(s) \/ Settled(s)
      PROVE  Sound(t)'
  <2>1. UNCHANGED <<entries, studio, changed>>
    BY <1>6 DEF Unverified, Settled, sources, ledger
  <2>2. start'[s] = "idle"
    BY <1>6 DEF Unverified, Settled, EndStart, Typed, StartsTyped
  <2>3. CASE t # s
    <3>1. start'[t] = start[t] /\ check'[t] = check[t] /\ ticket'[t] = ticket[t]
      BY <1>6, <2>3 DEF Unverified, Settled, EndStart, Typed, StartsTyped
    <3>2. CASE start[t] = "validating"
      BY <1>2, <2>1, <3>1, <3>2, SoundStays
    <3>3. CASE start[t] # "validating"
      BY <3>1, <3>3 DEF Sound
    <3> QED BY <3>2, <3>3
  <2> QED BY <2>2, <2>3 DEF Sound
<1> QED
  BY <1>3, <1>4, <1>5, <1>6, SoundOnAsk, SoundOnInspect, SoundOnRead, SoundOnJudge
     DEF Next, vars, sources, ledger, EndWrite, Go, Leave, Register, ForgetAlias, EditFile

LEMMA SyncInvAlways == Spec => []SyncInv
<1>1. Init => SyncInv
  BY DEF Init, SyncInv, NoneForgotten, Sound
<1> QED
  BY TypedAlways, ExcludedAlways, SyncInvKept, <1>1, PTL DEF Spec

\* Without records of the place a start is queued at once: no script there is
\* out of Studio's sight.
LEMMA QueuedByAsk ==
    ASSUME Typed, NoneForgotten, NEW s \in Starts, NEW p \in Places, Ask(s, p), start'[s] = "queued",
           NEW x \in saved'
    PROVE  x[1] \notin Target(goal'[s])
<1>1. goal'[s] = p /\ saved' = saved /\ x \in Scripts
  BY DEF Ask, ledger, Typed, StartsTyped, LedgerTyped
<1>2. ~\E y \in entries : Matches(y, p)
  BY DEF Ask, Typed, StartsTyped
<1>3. ~\E y \in Writing : Matches(y, p)
  BY DEF Ask, Disputed
<1>4. x \in entries \cup Writing
  BY <1>1 DEF NoneForgotten, Writing
<1>5. ~Matches(x, p)
  BY <1>2, <1>3, <1>4
<1> QED BY <1>1, <1>5 DEF Matches

\* After the last entry: each script of the window has been verified or is
\* gone, and recheck found its file as it was read.
LEMMA QueuedByJudge ==
    ASSUME Typed, Excluded, SyncInv, NEW s \in Starts, Judge(s), start'[s] = "queued",
           NEW x \in saved', x[1] \in Target(goal'[s])
    PROVE  studio[x] = file[x[2]] \/ x \in changed'[s]
<1> DEFINE seen == check[s]
           gone == IF Steady(s) /\ Retired(s) THEN {seen.now} ELSE {}
           ok   == IF Synced(s) THEN seen.ok \cup {<<seen.now, seen.studio>>} ELSE seen.ok
<1>1. /\ Steady(s) /\ (Retired(s) \/ Synced(s)) /\ seen.left = {} /\ Rechecked(s, ok)
      /\ UNCHANGED <<goal, ticket, changed>> /\ saved' = saved \ gone
  BY DEF Judge, EndStart, Typed, StartsTyped, sources
<1>2. /\ seen \in Validation /\ start[s] = "validating" /\ seen.studio # Unread
      /\ ticket[s] \in Tickets
  BY DEF Judge, Typed, StartsTyped, Tickets
<1>3. x[1] = ticket[s].owner
  BY <1>1 DEF Rechecked
<1>4. x \in entries
  <2>1. x \notin Writing
    BY <1>2, <1>3 DEF Excluded
  <2> QED BY <1>1, <2>1 DEF SyncInv, NoneForgotten, Typed, LedgerTyped, Writing
<1>5. Complete(seen, ticket[s].owner) /\ Current(seen, changed[s])
  BY <1>2 DEF SyncInv, Sound
<1>6. x \in {v[1] : v \in ok}
  <2>1. CASE x = seen.now
    BY <1>1, <2>1
  <2>2. CASE x # seen.now
    BY <1>1, <1>3, <1>4, <1>5, <2>2 DEF Complete
  <2> QED BY <2>1, <2>2
<1>7. \A v \in ok : studio[v[1]] = v[2] \/ v[1] \in changed[s]
  BY <1>2, <1>5 DEF Current
<1>8. \A v \in ok : file[v[1][2]] = v[2]
  BY <1>1 DEF Rechecked
<1> HIDE DEF ok
<1> QED BY <1>1, <1>6, <1>7, <1>8

\* A start that is queued for a window finds every script of it that a save has
\* changed in Studio as it is on disk, unless Studio's copy changed after the
\* guard had read it: whatever saves, moves, retired records and other starts
\* came between the first look at the ledger and the recheck.
THEOREM StartsFindTheirScripts == Spec => StartsAreSynced
<1>1. Typed /\ Excluded /\ SyncInv /\ [Next]_vars =>
        [\A s \in Starts : start[s] # "queued" /\ start'[s] = "queued" =>
           \A x \in saved' : x[1] \in Target(goal'[s]) =>
              studio[x] = file[x[2]] \/ x \in changed'[s]]_vars
  <2> SUFFICES ASSUME Typed, Excluded, SyncInv, Next,
                      NEW s \in Starts, start[s] # "queued", start'[s] = "queued",
                      NEW x \in saved', x[1] \in Target(goal'[s])
               PROVE  studio[x] = file[x[2]] \/ x \in changed'[s]
    OBVIOUS
  <2>1. ASSUME NEW t \in Starts, NEW p \in Places, Ask(t, p)
        PROVE  studio[x] = file[x[2]] \/ x \in changed'[s]
    <3>1. t = s
      BY <2>1 DEF Ask, Typed, StartsTyped
    <3> QED BY <2>1, <3>1, QueuedByAsk DEF SyncInv
  <2>2. ASSUME NEW t \in Starts, Judge(t)
        PROVE  studio[x] = file[x[2]] \/ x \in changed'[s]
    <3>1. t = s
      BY <2>2 DEF Judge, EndStart, Typed, StartsTyped
    <3> QED BY <2>2, <3>1, QueuedByJudge
  <2>3. CASE UNCHANGED start
    BY <2>3
  <2>4. ASSUME NEW t \in Starts, Unverified(t) \/ Settled(t)
        PROVE  start'[s] # "queued"
    BY <2>4 DEF Unverified, Settled, EndStart, Typed, StartsTyped
  <2> QED
    BY <2>1, <2>2, <2>3, <2>4 DEF Next, starts, BeginWrite, Save, EndWrite, FinishWrite, AbandonWrite,
       Sync, EditInStudio, Go, ReadFile, Inspect, Expire, Leave, Register, ForgetAlias, EditFile
<1> QED
  BY TypedAlways, ExcludedAlways, SyncInvAlways, <1>1, PTL DEF Spec, StartsAreSynced
=============================================================================
