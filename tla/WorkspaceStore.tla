--------------------------- MODULE WorkspaceStore ---------------------------
(***************************************************************************)
(* How Roqer's saved chats reach the disk (WorkspaceStore): one file per    *)
(* chat, named by its contents, a manifest that refers to them, and the     *)
(* manifest before it.  A save may stop after any step, because a write     *)
(* fails or the application dies.                                           *)
(*                                                                          *)
(* Pictures, the migration of older formats and the recovery of a workspace *)
(* that something else damaged are left out.                                *)
(***************************************************************************)
CONSTANTS
    Workspaces,   \* what may be saved
    Empty,        \* the workspace of a first launch
    FilesOf(_),   \* the chat files of a workspace
    None

ASSUME WorkspaceAssumption == Empty \in Workspaces /\ None \notin Workspaces

VARIABLES
    files,      \* chat files on the disk
    manifest,   \* the workspace the manifest describes
    previous,   \* the one the previous manifest describes
    saving,     \* the workspace being saved
    step        \* how far that is: "idle", "chats", "previous", "manifest" or "collect"

disk == <<files, manifest, previous>>
storeVars == <<disk, saving, step>>

Steps == {"idle", "chats", "previous", "manifest", "collect"}
Named(m) == IF m = None THEN {} ELSE FilesOf(m)

StoreTypeOK ==
    /\ manifest \in Workspaces \cup {None}
    /\ previous \in Workspaces \cup {None}
    /\ saving \in Workspaces \cup {None}
    /\ step \in Steps
    /\ step = "idle" <=> saving = None

StoreInit ==
    /\ files = {} /\ manifest = None /\ previous = None
    /\ saving = None /\ step = "idle"

\* What the next load reads.
Saved == IF manifest = None THEN Empty ELSE manifest

-----------------------------------------------------------------------------
StartSave(w) ==
    /\ step = "idle"
    /\ saving' = w /\ step' = "chats"
    /\ UNCHANGED disk

\* Each file is written beside its name and renamed, unless it is there.
WriteChat ==
    /\ step = "chats"
    /\ \E f \in FilesOf(saving) \ files : files' = files \cup {f}
    /\ UNCHANGED <<manifest, previous, saving, step>>

ChatsWritten ==
    /\ step = "chats" /\ FilesOf(saving) \subseteq files
    /\ step' = "previous"
    /\ UNCHANGED <<disk, saving>>

WritePrevious ==
    /\ step = "previous"
    /\ previous' = IF manifest = None THEN previous ELSE manifest
    /\ step' = "manifest"
    /\ UNCHANGED <<files, manifest, saving>>

WriteManifest ==
    /\ step = "manifest"
    /\ manifest' = saving
    /\ step' = "collect"
    /\ UNCHANGED <<files, previous, saving>>

\* MUTANT of Retained: only the current manifest keeps its files.
RetainedNow == Named(manifest)

Retained == Named(manifest) \cup Named(previous)

\* collectUnusedChats.  It may remove some and then fail.
Removes(gone) == gone \subseteq files \ Retained /\ files' = files \ gone

Collect ==
    /\ step = "collect"
    /\ Removes(files \ Retained)
    /\ saving' = None /\ step' = "idle"
    /\ UNCHANGED <<manifest, previous>>

\* A write fails, or the application stops.
Stop ==
    /\ step # "idle"
    /\ saving' = None /\ step' = "idle"
    /\ IF step = "collect" THEN \E gone \in SUBSET files : Removes(gone) ELSE UNCHANGED files
    /\ UNCHANGED <<manifest, previous>>

StoreStep == WriteChat \/ ChatsWritten \/ WritePrevious \/ WriteManifest \/ Collect

StoreNext == (\E w \in Workspaces : StartSave(w)) \/ StoreStep \/ Stop

StoreSpec == StoreInit /\ [][StoreNext]_storeVars

-----------------------------------------------------------------------------
\* Whatever moment the application stops at, both manifests refer only to chat
\* files that are there: a load reads the workspace before or after a save,
\* never one without its chats.
AlwaysLoadable == Named(manifest) \cup Named(previous) \subseteq files
==============================================================================
