--------------------------- MODULE SyncStateStore ---------------------------
(***************************************************************************)
(* The durable-state protocol of MemDbStash (src/src/memdb/stash.rs) at    *)
(* the level of files and inodes: save_state creates (or truncates)        *)
(* "sync.tempstate", serialises the state into it through its own handle   *)
(* and renames it over "sync.state"; read_local_state opens "sync.state"   *)
(* and parses it.  The drivers run MemDbStash::sync, reduced to what it    *)
(* does to this file: read it, then save once per changed SDK and once at  *)
(* the end, each save bumping the revision.  MemDbStash treats a save as   *)
(* one atomic step; this module checks when that is justified.            *)
(*                                                                         *)
(* A path names an inode or nothing; a handle keeps writing to the inode   *)
(* it opened, whatever the paths point to by then.  An inode holds a       *)
(* serialised state, Empty (just created or truncated), or Garbled (two    *)
(* serialisations written over each other at offset 0).                    *)
(***************************************************************************)
EXTENDS Integers, FiniteSets

CONSTANTS
    Drivers,     \* threads or processes running sync on one symbol directory
    SDKs, Versions,
    None, Empty, Garbled,
    MaxSyncs,    \* bound on calls of sync
    MaxSaves,    \* bound on calls of save_state
    MaxCrashes   \* bound on crashes

VARIABLES
    content,     \* inode -> what it holds
    statePath,   \* inode "sync.state" names, or None
    tempPath,    \* inode "sync.tempstate" names, or None
    pc,          \* driver -> where it is in sync / save_state
    work,        \* driver -> its local_state working copy
    final,       \* driver -> whether the save under way is the last one
    handle,      \* driver -> inode its File::create handle writes to
    syncs, saves, crashes

vars == <<content, statePath, tempPath, pc, work, final, handle, syncs, saves,
          crashes>>

Inodes == 1..(MaxSaves + 1)
Etag == Versions \cup {None}
SyncState == [sdks: [SDKs -> Etag], rev: Nat \cup {None}]
FreshState == [sdks |-> [s \in SDKs |-> None], rev |-> None]
RevNum(st) == IF st.rev = None THEN 0 ELSE st.rev
Bumped(st) == [st EXCEPT !.rev = RevNum(st) + 1]

\* The inodes ever created (an unlinked inode may still be written through
\* a handle, so none is reused); a new one is the least unused.
Used == {i \in Inodes : content[i] # None}
FreshInode == CHOOSE i \in Inodes \ Used : \A j \in Inodes \ Used : i <= j

\* What File::open + serde_json::from_reader of "sync.state" yields: the
\* state, Default::default() on NotFound, or None for a parse error.
ReadStateFile ==
    IF statePath = None THEN FreshState
    ELSE IF content[statePath] \in SyncState THEN content[statePath] ELSE None

\* A write of st at offset 0 over the old content of an inode: an empty or
\* identical inode ends up holding st; over another serialisation the
\* result is st only if st is at least as long, else a mix of both.
Overwrite(old, st) ==
    IF old \in {Empty, st} THEN {st} ELSE {st, Garbled}

Init ==
    /\ \E st \in {None} \cup {[sdks |-> m, rev |-> 1] : m \in [SDKs -> Etag]} :
         /\ content = [i \in Inodes |-> IF i = 1 /\ st # None THEN st ELSE None]
         /\ statePath = IF st = None THEN None ELSE 1
    /\ tempPath = None
    /\ pc = [d \in Drivers |-> "idle"]
    /\ work = [d \in Drivers |-> FreshState]
    /\ final = [d \in Drivers |-> FALSE]
    /\ handle = [d \in Drivers |-> None]
    /\ syncs = 0 /\ saves = 0 /\ crashes = 0

\* sync starts with read_local_state; a parse error ends it.
SyncRead(d) ==
    /\ pc[d] = "idle"
    /\ syncs < MaxSyncs
    /\ syncs' = syncs + 1
    /\ IF ReadStateFile = None
          THEN UNCHANGED <<pc, work>>
          ELSE /\ pc' = [pc EXCEPT ![d] = "loop"]
               /\ work' = [work EXCEPT ![d] = ReadStateFile]
    /\ UNCHANGED <<content, statePath, tempPath, final, handle, saves, crashes>>

\* Variant: the revision is not bumped for a changed SDK.
CommitChangeNoBump(d, s, v) ==
    /\ pc[d] = "loop"
    /\ saves < MaxSaves
    /\ work[d].sdks[s] # v
    /\ work' = [work EXCEPT ![d] = [work[d] EXCEPT !.sdks[s] = v]]
    /\ pc' = [pc EXCEPT ![d] = "create"]
    /\ saves' = saves + 1
    /\ UNCHANGED <<content, statePath, tempPath, final, handle, syncs, crashes>>

\* A changed SDK: update_sdk, the revision bump, then save_local_state.
CommitChange(d, s, v) ==
    /\ pc[d] = "loop"
    /\ saves < MaxSaves
    /\ work[d].sdks[s] # v
    /\ work' = [work EXCEPT ![d] = Bumped([work[d] EXCEPT !.sdks[s] = v])]
    /\ pc' = [pc EXCEPT ![d] = "create"]
    /\ saves' = saves + 1
    /\ UNCHANGED <<content, statePath, tempPath, final, handle, syncs, crashes>>

\* "save us one last time".
CommitFinal(d) ==
    /\ pc[d] = "loop"
    /\ saves < MaxSaves
    /\ work' = [work EXCEPT ![d] = Bumped(work[d])]
    /\ final' = [final EXCEPT ![d] = TRUE]
    /\ pc' = [pc EXCEPT ![d] = "create"]
    /\ saves' = saves + 1
    /\ UNCHANGED <<content, statePath, tempPath, handle, syncs, crashes>>

\* Variant: save_state writes "sync.state" in place, with no temp file.
CreateStateInPlace(d) ==
    /\ pc[d] = "create"
    /\ LET i == IF statePath = None THEN FreshInode ELSE statePath IN
         /\ content' = [content EXCEPT ![i] = Empty]
         /\ statePath' = i
         /\ tempPath' = i
         /\ handle' = [handle EXCEPT ![d] = i]
    /\ pc' = [pc EXCEPT ![d] = "write"]
    /\ UNCHANGED <<work, final, syncs, saves, crashes>>

\* fs::File::create("sync.tempstate"): creates the file, or truncates the
\* inode the path names now.
CreateTemp(d) ==
    /\ pc[d] = "create"
    /\ LET i == IF tempPath = None THEN FreshInode ELSE tempPath IN
         /\ content' = [content EXCEPT ![i] = Empty]
         /\ tempPath' = i
         /\ handle' = [handle EXCEPT ![d] = i]
    /\ pc' = [pc EXCEPT ![d] = "write"]
    /\ UNCHANGED <<statePath, work, final, syncs, saves, crashes>>

\* serde_json::to_writer through the handle; the handle is then dropped.
WriteTemp(d) ==
    /\ pc[d] = "write"
    /\ \E c \in Overwrite(content[handle[d]], work[d]) :
         content' = [content EXCEPT ![handle[d]] = c]
    /\ pc' = [pc EXCEPT ![d] = "rename"]
    /\ handle' = [handle EXCEPT ![d] = None]
    /\ UNCHANGED <<statePath, tempPath, work, final, syncs, saves, crashes>>

\* fs::rename("sync.tempstate", "sync.state"): whatever inode the temp path
\* names replaces the state file (the old one is unlinked); if another sync
\* already renamed it the call fails with NotFound and sync returns the error.
RenameTemp(d) ==
    /\ pc[d] = "rename"
    /\ IF tempPath = None
          THEN UNCHANGED <<statePath, tempPath>>
          ELSE /\ statePath' = tempPath
               /\ tempPath' = None
    /\ pc' = [pc EXCEPT ![d] = IF tempPath # None /\ ~final[d]
                                  THEN "loop" ELSE "idle"]
    /\ final' = [final EXCEPT ![d] = IF pc'[d] = "idle" THEN FALSE ELSE @]
    /\ UNCHANGED <<content, work, handle, syncs, saves, crashes>>

\* The process dies: its syncs stop, the files and paths stay.
Crash ==
    /\ crashes < MaxCrashes
    /\ crashes' = crashes + 1
    /\ pc' = [d \in Drivers |-> "idle"]
    /\ final' = [d \in Drivers |-> FALSE]
    /\ handle' = [d \in Drivers |-> None]
    /\ UNCHANGED <<content, statePath, tempPath, work, syncs, saves>>

Next ==
    \/ \E d \in Drivers :
         \/ SyncRead(d) \/ CommitFinal(d)
         \/ \E s \in SDKs, v \in Versions : CommitChange(d, s, v)
         \/ CreateTemp(d) \/ WriteTemp(d) \/ RenameTemp(d)
    \/ Crash

Spec == Init /\ [][Next]_vars

-----------------------------------------------------------------------------
(* Properties                                                              *)

TypeOK ==
    /\ content \in [Inodes -> SyncState \cup {None, Empty, Garbled}]
    /\ statePath \in Inodes \cup {None} /\ tempPath \in Inodes \cup {None}
    /\ pc \in [Drivers -> {"idle", "loop", "create", "write", "rename"}]
    /\ work \in [Drivers -> SyncState]
    /\ final \in [Drivers -> BOOLEAN]
    /\ handle \in [Drivers -> Inodes \cup {None}]

\* "sync.state" always parses: save_state's temp file and rename mean that
\* read_local_state, at any moment and after any crash, sees a complete
\* state, never an empty or half-written file (spec 4.1, 5).
StateFileParseable ==
    statePath # None => content[statePath] \in SyncState

\* Whenever what read_local_state would return changes from one complete
\* state to another, its revision increases: no save is lost to another
\* and no two different states share a revision (spec 3).
RevisionAdvances ==
    [][ReadStateFile # None /\ ReadStateFile' # None
       /\ ReadStateFile' # ReadStateFile
       => RevNum(ReadStateFile') > RevNum(ReadStateFile)]_vars

=============================================================================
