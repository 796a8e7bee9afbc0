---------------------------- MODULE PlaytestGuard ----------------------------
(***************************************************************************)
(* The barrier between saves of Rojo source files and playtest starts, in  *)
(* the process that owns the bridge (RojoPlaytestGuard), with the callers  *)
(* that use it: _scriptWrite, which reserves, saves and records, and       *)
(* BridgeService.sendRequest, which admits a start before it is queued.    *)
(* Windows move between places, disconnect and come back; Rojo delivers    *)
(* files to Studio when it likes; editors and users change either side.    *)
(*                                                                         *)
(* A script is a pair <<window, file>>: the ledger, the reservations and   *)
(* the tickets identify a window by its physical session.  Every accepted  *)
(* registration tells the guard the place of its session                   *)
(* (rememberStudioOwner), so the records of a session always carry the     *)
(* place it registered last.  How a save compares and renames is the       *)
(* subject of SourceWrites.                                                *)
(***************************************************************************)
EXTENDS FiniteSets, Integers

CONSTANTS
    Windows,     \* Studio windows: physical sessions with an edit peer
    Places,
    Files,
    Scripts,     \* the scripts some client's project maps to files
    Starts,      \* callers that start playtests
    MaxEntries,  \* ledger size (1024)
    MaxTexts,    \* bound: different texts
    MaxMoves,    \* bound: disconnections and registrations
    Missing, Unread, Nothing

ASSUME GuardAssumption ==
    /\ Scripts \subseteq Windows \X Files
    /\ IsFiniteSet(Scripts)
    /\ MaxEntries \in Nat \ {0} /\ MaxTexts \in Nat /\ MaxMoves \in Nat

VARIABLES
    known,    \* the place each window registered at last
    on,       \* the windows that are connected
    alias,    \* old places that stand for the place their window moved to
    file,     \* what each file holds
    studio,   \* what each script holds in Studio
    entries,  \* the ledger: scripts whose save has to be verified
    writes,   \* reservations: "none", or the stage of the save
    start,    \* what each start is doing: "idle", "validating" or "queued"
    goal,     \* the place it was asked or queued for
    check,    \* the validation of a start
    ticket,   \* the tickets of the starts that hold one
    saved,    \* history: scripts whose file a save replaced, until both are gone
    changed,  \* history: scripts Studio's text of which changed since a start read it
    texts, moves

studioVars == <<known, on, alias, moves>>
sources == <<file, studio, changed, texts>>
ledger == <<entries, writes, saved>>
starts == <<start, goal, check, ticket>>
vars == <<studioVars, sources, ledger, starts>>

Texts == 0..MaxTexts
Seen == Texts \cup {Missing, Unread}

\* A start validates one entry after the other: left are those still to come,
\* at is where the window of the present one was when its validation began.
Validation == [left : SUBSET Scripts, now : Scripts, at : Places, file : Seen,
               studio : Seen, ok : SUBSET (Scripts \X Texts), expired : BOOLEAN]
Ticket == [owner : Windows, files : SUBSET Files]

ASSUME NothingAssumption == Nothing \notin Places /\ Nothing \notin Validation /\ Nothing \notin Ticket

GuardTypeOK ==
    /\ known \in [Windows -> Places] /\ on \subseteq Windows
    /\ \A v, w \in on : known[v] = known[w] => v = w
    /\ alias \in [Places -> Places]
    /\ file \in [Files -> Texts \cup {Missing}]
    /\ studio \in [Scripts -> Texts \cup {Missing}]
    /\ entries \subseteq Scripts /\ Cardinality(entries) <= MaxEntries
    /\ writes \in [Scripts -> {"none", "reserved", "saved"}]
    /\ saved \subseteq Scripts
    /\ start \in [Starts -> {"idle", "validating", "queued"}]
    /\ \A s \in Starts :
         /\ goal[s] \in Places \cup {Nothing} /\ (goal[s] = Nothing <=> start[s] = "idle")
         /\ check[s] \in Validation \cup {Nothing}
         /\ check[s] = Nothing <=> start[s] # "validating"
         /\ ticket[s] \in Ticket \cup {Nothing}
         /\ start[s] = "idle" => ticket[s] = Nothing
         /\ start[s] = "validating" => ticket[s] # Nothing
    /\ changed \in [Starts -> SUBSET Scripts]
    /\ texts \in Texts /\ moves \in 0..MaxMoves

Init ==
    /\ known \in [Windows -> Places]
    /\ \A v, w \in Windows : known[v] = known[w] => v = w
    /\ on \in SUBSET Windows
    /\ alias = [p \in Places |-> p]
    /\ file = [f \in Files |-> 0] /\ studio = [x \in Scripts |-> 0]
    /\ entries = {}
    /\ writes = [x \in Scripts |-> "none"]
    /\ saved = {}
    /\ start = [s \in Starts |-> "idle"]
    /\ goal = [s \in Starts |-> Nothing] /\ check = goal /\ ticket = goal
    /\ changed = [s \in Starts |-> {}]
    /\ texts = 0 /\ moves = 0

-----------------------------------------------------------------------------
Writing == {x \in Scripts : writes[x] # "none"}
Tickets == {ticket[s] : s \in Starts} \ {Nothing}

\* resolveTarget for the edit peer of a place: the window that is there, or the
\* one that has moved from there.
At(p) == {w \in on : known[w] = p}
Target(p) == IF At(p) # {} THEN At(p) ELSE At(alias[p])

\* matchesInstance.
Matches(x, p) == known[x[1]] \in {p} \cup {known[w] : w \in Target(p)}

\* MUTANT of Entrants: saves that are under way need no room.
EntrantsRecorded(x) == IF x \in entries THEN {} ELSE entries

\* What has to fit into the ledger beside x.
Entrants(x) == IF x \in entries THEN {} ELSE entries \cup Writing

\* MUTANT of Barred: only the session counts, not the file.
BarredBySession(x) == \E t \in Tickets : t.owner = x[1]

\* A start that is under way refuses saves of its window and of its files.
Barred(x) == \E t \in Tickets : t.owner = x[1] \/ x[2] \in t.files

-----------------------------------------------------------------------------
(* Saving a script (_scriptWrite). *)

BeginWrite(x) ==
    /\ x[1] \in on /\ ~Barred(x)
    /\ \A y \in Writing : y[2] # x[2]
    /\ Cardinality(Entrants(x)) < MaxEntries
    /\ writes' = [writes EXCEPT ![x] = "reserved"]
    /\ UNCHANGED <<studioVars, sources, entries, saved, starts>>

\* compareAndWrite replaces the file while its window is connected.
Save(x) ==
    /\ writes[x] = "reserved" /\ x[1] \in on /\ file[x[2]] # Missing
    /\ texts < MaxTexts /\ texts' = texts + 1
    /\ file' = [file EXCEPT ![x[2]] = texts']
    /\ writes' = [writes EXCEPT ![x] = "saved"]
    /\ saved' = saved \cup {x}
    /\ UNCHANGED <<studioVars, studio, changed, entries, starts>>

\* uncertainWrite: a record replaces the earlier one of its script.
Recorded(x) == entries \cup {x}

FinishWrite(x) ==
    /\ writes[x] = "saved"
    /\ entries' = Recorded(x)
    /\ writes' = [writes EXCEPT ![x] = "none"]
    /\ UNCHANGED <<studioVars, sources, saved, starts>>

\* The save is refused or fails.  The reservation goes; when the file is not
\* what the save expected, the script is recorded as if it had been saved.
AbandonWrite(x) ==
    /\ writes[x] = "reserved"
    /\ entries' \in {entries, Recorded(x)}
    /\ writes' = [writes EXCEPT ![x] = "none"]
    /\ UNCHANGED <<studioVars, sources, saved, starts>>

-----------------------------------------------------------------------------
(* Starting a playtest (sendRequest, beforeRequest, validate). *)

Validate(s, left, ok, expired, x) ==
    check' = [check EXCEPT ![s] =
                [left |-> left \ {x}, now |-> x, at |-> known[x[1]],
                 file |-> Unread, studio |-> Unread, ok |-> ok, expired |-> expired]]

\* A save is under way in the window of the place, or to a file of its records.
Disputed(p, tracked) ==
    \E y \in Writing : Matches(y, p) \/ \E x \in tracked : x[2] = y[2]

\* Without records the start is queued in the same turn, and bars nothing.
Ask(s, p) ==
    LET tracked == {x \in entries : Matches(x, p)} IN
    /\ start[s] = "idle" /\ Target(p) # {}
    /\ ~Disputed(p, tracked)
    /\ goal' = [goal EXCEPT ![s] = p]
    /\ changed' = [changed EXCEPT ![s] = {}]
    /\ IF tracked = {}
         THEN start' = [start EXCEPT ![s] = "queued"] /\ UNCHANGED <<check, ticket>>
         ELSE \E x \in tracked :
                /\ start' = [start EXCEPT ![s] = "validating"]
                /\ Validate(s, tracked, {}, FALSE, x)
                /\ ticket' = [ticket EXCEPT ![s] = [owner |-> x[1],
                                                    files |-> {y[2] : y \in tracked}]]
    /\ UNCHANGED <<studioVars, file, studio, texts, ledger>>

ReadFile(s) ==
    /\ start[s] = "validating" /\ check[s].file = Unread
    /\ check' = [check EXCEPT ![s].file = file[check[s].now[2]]]
    /\ UNCHANGED <<studioVars, sources, ledger, start, goal, ticket>>

\* inspect asks the window itself, where its records say it is.
Inspect(s) ==
    LET x == check[s].now IN
    /\ start[s] = "validating" /\ check[s].studio = Unread
    /\ x[1] \in on
    /\ check' = [check EXCEPT ![s].studio = studio[x]]
    /\ changed' = [changed EXCEPT ![s] = @ \ {x}]
    /\ UNCHANGED <<studioVars, file, studio, texts, ledger, start, goal, ticket>>

\* The window of the entry is still where it was when its validation began.
Steady(s) == check[s].now[1] \in on /\ known[check[s].now[1]] = check[s].at

\* Gone on both sides, and by a fresh map no longer part of the project.
Retired(s) ==
    /\ check[s].file = Missing /\ check[s].studio = Missing
    /\ file[check[s].now[2]] = Missing

Synced(s) ==
    /\ check[s].file \in Texts /\ check[s].file = check[s].studio
    /\ file[check[s].now[2]] # Missing

\* MUTANT of Rechecked: the files are not read again before the start is queued.
RecheckedOwners(s, ok) ==
    \A w \in {ticket[s].owner} \cup {v[1][1] : v \in ok} : Target(goal[s]) = {w}

\* recheck, synchronous and last: owners, target and files are as verified.
Rechecked(s, ok) ==
    /\ \A w \in {ticket[s].owner} \cup {v[1][1] : v \in ok} : Target(goal[s]) = {w}
    /\ \A v \in ok : file[v[1][2]] = v[2]

\* MUTANT of EndStart: a start whose caller has timed out keeps its ticket.
EndStartKeeping(s) ==
    /\ start' = [start EXCEPT ![s] = "idle"]
    /\ goal' = [goal EXCEPT ![s] = Nothing] /\ check' = [check EXCEPT ![s] = Nothing]
    /\ ticket' = [ticket EXCEPT ![s] = IF start[s] = "queued" THEN Nothing ELSE @]

\* The call ends, and with it its ticket: validation has refused, thrown or
\* outlived its caller, or the queued start is answered.
EndStart(s) ==
    /\ start' = [start EXCEPT ![s] = "idle"]
    /\ goal' = [goal EXCEPT ![s] = Nothing] /\ check' = [check EXCEPT ![s] = Nothing]
    /\ ticket' = [ticket EXCEPT ![s] = Nothing]

\* Both answers and the fresh project map are there: the entry is retired,
\* verified, or refuses the start.  After the last one the start is queued, in
\* the same turn, unless its caller has given up.
Judge(s) ==
    LET seen == check[s]
        good == Steady(s) /\ (Retired(s) \/ Synced(s))
        ok   == IF Synced(s) THEN seen.ok \cup {<<seen.now, seen.studio>>} ELSE seen.ok
        gone == IF Steady(s) /\ Retired(s) THEN {seen.now} ELSE {}
    IN
    /\ start[s] = "validating" /\ seen.file # Unread /\ seen.studio # Unread
    /\ entries' = entries \ gone /\ saved' = saved \ gone
    /\ \/ /\ good /\ seen.left # {}
          /\ \E x \in seen.left : Validate(s, seen.left, ok, seen.expired, x)
          /\ UNCHANGED <<start, goal, ticket>>
       \/ /\ good /\ seen.left = {} /\ Rechecked(s, ok) /\ ~seen.expired
          /\ start' = [start EXCEPT ![s] = "queued"]
          /\ check' = [check EXCEPT ![s] = Nothing]
          /\ UNCHANGED <<goal, ticket>>
       \/ /\ ~good \/ (seen.left = {} /\ (seen.expired \/ ~Rechecked(s, ok)))
          /\ EndStart(s)
    /\ UNCHANGED <<studioVars, sources, writes>>

\* The file, Studio, or the project map cannot be read, or the time is up when
\* the start would be queued.
Unverified(s) ==
    /\ start[s] = "validating"
    /\ EndStart(s)
    /\ UNCHANGED <<studioVars, sources, ledger>>

\* The caller's time is up; validation goes on, with its ticket.
Expire(s) ==
    /\ start[s] = "validating" /\ ~check[s].expired
    /\ check' = [check EXCEPT ![s].expired = TRUE]
    /\ UNCHANGED <<studioVars, sources, ledger, start, goal, ticket>>

\* The queued start is answered or times out (done).
Settled(s) ==
    /\ start[s] = "queued"
    /\ EndStart(s)
    /\ UNCHANGED <<studioVars, sources, ledger>>

-----------------------------------------------------------------------------
(* Studio, Rojo and editors. *)

Leave(w) ==
    /\ w \in on /\ moves < MaxMoves
    /\ on' = on \ {w} /\ moves' = moves + 1
    /\ UNCHANGED <<known, alias, sources, ledger, starts>>

\* registerInstance, at a place that is free.  A connected window that moves
\* leaves an alias, also for the aliases of the place it leaves.
Register(w, p) ==
    /\ moves < MaxMoves /\ moves' = moves + 1
    /\ At(p) = {}
    /\ known' = [known EXCEPT ![w] = p]
    /\ on' = on \cup {w}
    /\ alias' = [q \in Places |->
                   IF q # p /\ w \in on /\ known[w] \in {q, alias[q]} THEN p
                   ELSE IF q = p THEN p ELSE alias[q]]
    /\ UNCHANGED <<sources, ledger, starts>>

\* cleanupStaleAliases.
ForgetAlias(p) ==
    /\ alias[p] # p /\ At(alias[p]) = {}
    /\ alias' = [alias EXCEPT ![p] = p]
    /\ UNCHANGED <<known, on, moves, sources, ledger, starts>>

StudioBecomes(x, text) ==
    /\ studio' = [studio EXCEPT ![x] = text]
    /\ changed' = [s \in Starts |-> changed[s] \cup (IF start[s] = "validating" THEN {x} ELSE {})]

\* Rojo delivers the file as it is.
Sync(x) ==
    /\ studio[x] # file[x[2]]
    /\ StudioBecomes(x, file[x[2]])
    /\ UNCHANGED <<studioVars, file, texts, ledger, starts>>

EditInStudio(x) ==
    /\ texts < MaxTexts /\ texts' = texts + 1
    /\ StudioBecomes(x, texts')
    /\ UNCHANGED <<studioVars, file, ledger, starts>>

\* An editor saves or deletes the file.
EditFile(f) ==
    /\ texts < MaxTexts /\ texts' = texts + 1
    /\ \E text \in {texts', Missing} : file' = [file EXCEPT ![f] = text]
    /\ UNCHANGED <<studioVars, studio, changed, ledger, starts>>

-----------------------------------------------------------------------------
EndWrite(x) == FinishWrite(x) \/ AbandonWrite(x)
Go(s) == ReadFile(s) \/ Inspect(s) \/ Judge(s) \/ Unverified(s)

Next ==
    \/ \E x \in Scripts : BeginWrite(x) \/ Save(x) \/ EndWrite(x) \/ Sync(x) \/ EditInStudio(x)
    \/ \E s \in Starts : (\E p \in Places : Ask(s, p)) \/ Go(s) \/ Expire(s) \/ Settled(s)
    \/ \E w \in Windows : Leave(w) \/ \E p \in Places : Register(w, p)
    \/ \E p \in Places : ForgetAlias(p)
    \/ \E f \in Files : EditFile(f)

Spec == Init /\ [][Next]_vars

\* Reads, saves and queued requests end: each has its time-out.
FairSpec ==
    /\ Spec
    /\ \A x \in Scripts : WF_vars(EndWrite(x))
    /\ \A s \in Starts : WF_vars(Go(s)) /\ WF_vars(Settled(s))

-----------------------------------------------------------------------------
(* Safety. *)

\* When a start is queued for a window, every script of it that a save has
\* changed is in Studio as it is on disk, unless Studio's copy changed after the
\* guard had read it (beforeRequest, validate, recheck): also when saves were
\* under way, windows moved, and another start retired records meanwhile.
StartsAreSynced ==
    [][\A s \in Starts : start[s] # "queued" /\ start'[s] = "queued" =>
         \A x \in saved' : x[1] \in Target(goal'[s]) =>
            studio[x] = file[x[2]] \/ x \in changed'[s]]_vars

\* While a start holds its ticket no save replaces a file of its records, and
\* none replaces any file of its window (beginWrite and beforeRequest exclude
\* each other in both orders, and done comes after the answer).
SavesAreBarred ==
    [][\A x \in Scripts : writes[x] = "reserved" /\ writes'[x] = "saved" =>
         \A t \in Tickets : t.owner # x[1] /\ x[2] \notin t.files]_vars

-----------------------------------------------------------------------------
(* Liveness. *)

\* No start and no save bars the others for ever: whatever ends it, an answer,
\* a refusal or its caller's time-out, its ticket or reservation goes.
NothingStaysBarred ==
    /\ \A s \in Starts : ticket[s] # Nothing ~> ticket[s] = Nothing
    /\ \A x \in Scripts : writes[x] = "saved" ~> writes[x] = "none"
==============================================================================
