----------------------------- MODULE MemDbStash -----------------------------
(***************************************************************************)
(* The memdb stash of src/src/memdb/stash.rs: the durable sync state       *)
(* ("sync.state"), the memdb files under the symbol directory, the cached  *)
(* snapshot of the sync state (local_state), the cache of opened memdbs    *)
(* (memdbs), and three kinds of threads sharing one MemDbStash: a sync     *)
(* driver running MemDbStash::sync, readers running get_memdb, and health  *)
(* checkers running get_sync_status / get_revision.  The S3 bucket is the  *)
(* environment: its listing changes and its calls may fail.  A crash       *)
(* loses everything in memory and keeps what is on disk.                   *)
(*                                                                         *)
(* Data is abstracted: an SDK is a member of SDKs (integers, so that the   *)
(* descending sort of sync keeps its order), a RemoteSdk is its etag, a    *)
(* member of Versions (two RemoteSdk values are equal iff their etags are),*)
(* and a memdb handle is named by the file content it mapped.              *)
(***************************************************************************)
EXTENDS Integers, FiniteSets, Sequences, SequencesExt

CONSTANTS
    SDKs,             \* SdkInfo values (ordered)
    Versions,         \* etags of RemoteSdk values
    Ignored,          \* SDKs matched by the configured ignore patterns
    Readers,          \* threads calling get_memdb
    Checkers,         \* threads calling get_sync_status / get_revision
    None,             \* Option::None, an absent map entry or absent file
    Torn,             \* a memdb file truncated by File::create, not yet written
    MaxSyncs,         \* bound on calls of sync
    MaxRemoteChanges, \* bound on changes of the S3 listing
    MaxCrashes,       \* bound on process crashes
    MaxCalls          \* bound on calls of get_memdb, get_sync_status, get_revision

ASSUME /\ Ignored \subseteq SDKs
       /\ SDKs \subseteq Int
       /\ None \notin Versions /\ Torn \notin Versions

VARIABLES
    remote,        \* the S3 listing: SDK -> etag or None
    stateFile,     \* contents of sync.state on disk (replaced by atomic rename)
    files,         \* memdb file of each SDK on disk
    localState,    \* MemDbStash.local_state: None or a snapshot of the sync state
    memdbs,        \* MemDbStash.memdbs: SDK -> handle (content mapped) or None
    syncPc,        \* where the sync driver is in MemDbStash::sync
    work,          \* sync's local_state working copy
    fetched,       \* sync's remote_state
    queue,         \* remote SDKs still to visit, in descending order
    toDelete,      \* sync's to_delete set
    rPc, rSdk, rLocal, rHandle, \* reader threads in get_memdb
    hPc, hLocal, hStatus,       \* health checker threads
    syncs, remoteChanges, crashes, calls \* bound counters

vars == <<remote, stateFile, files, localState, memdbs, syncPc, work, fetched,
          queue, toDelete, rPc, rSdk, rLocal, rHandle, hPc, hLocal, hStatus,
          syncs, remoteChanges, crashes, calls>>
SyncVars == <<syncPc, work, fetched, queue, toDelete>>
ReaderVars == <<rPc, rSdk, rLocal, rHandle>>
CheckerVars == <<hPc, hLocal, hStatus>>
Bounds == <<syncs, remoteChanges, crashes, calls>>

Etag == Versions \cup {None}
SyncState == [sdks: [SDKs -> Etag], rev: Nat \cup {None}]
FreshState == [sdks |-> [s \in SDKs |-> None], rev |-> None]
Status == [total: Nat, missing: Nat, different: Nat, rev: Nat, offline: BOOLEAN]

\* revision.unwrap_or(0)
RevNum(st) == IF st.rev = None THEN 0 ELSE st.rev

\* The SDKs a sync state (or a listing) holds.
Held(m) == {s \in SDKs : m[s] # None}

\* SdkSyncState::update_sdk / remove_sdk with the revision bump of sync.
WithSdk(st, s, v) == [st EXCEPT !.sdks[s] = v]
Bumped(st) == [st EXCEPT !.rev = RevNum(st) + 1]

\* MemDbStash::sdk_is_ignored: the ignore patterns match the SDK id.
IsIgnored(s) == s \in Ignored

\* sdks.sort_by(|a, b| b.cmp(a)) over the remote listing
SortedDesc(m) == SetToSortSeq(Held(m), >)

\* SyncStatus::lag and SyncStatus::is_healthy.  lag / total < 0.10 in f32:
\* for the small counts here it is exact, and 0 / 0 is NaN, which is not < 0.10.
Lag(st) == st.missing + st.different
IsHealthy(st) == st.offline \/ (st.total > 0 /\ 10 * Lag(st) < st.total)

-----------------------------------------------------------------------------
(* Initial state: a process starting on a symbol directory left by earlier *)
(* runs (possibly under other ignore patterns): a consistent cache, a      *)
(* fresh state file if nothing was ever synced, nothing in memory.         *)

Init ==
    /\ remote \in [SDKs -> Etag]
    /\ \E m \in [SDKs -> Etag] :
         /\ stateFile = [sdks |-> m, rev |-> IF Held(m) = {} THEN None ELSE 1]
         /\ files = m
    /\ localState = None
    /\ memdbs = [s \in SDKs |-> None]
    /\ syncPc = "idle"
    /\ work = FreshState
    /\ fetched = [s \in SDKs |-> None]
    /\ queue = <<>>
    /\ toDelete = {}
    /\ rPc = [r \in Readers |-> "idle"]
    /\ rSdk = [r \in Readers |-> CHOOSE s \in SDKs : TRUE]
    /\ rLocal = [r \in Readers |-> None]
    /\ rHandle = [r \in Readers |-> None]
    /\ hPc = [c \in Checkers |-> "idle"]
    /\ hLocal = [c \in Checkers |-> None]
    /\ hStatus = [c \in Checkers |-> None]
    /\ syncs = 0 /\ remoteChanges = 0 /\ crashes = 0 /\ calls = 0

-----------------------------------------------------------------------------
(* The environment: the S3 listing gains, loses or replaces an SDK.        *)

RemotePublish(s, e) ==
    /\ remoteChanges < MaxRemoteChanges
    /\ remote[s] # e
    /\ remote' = [remote EXCEPT ![s] = e]
    /\ remoteChanges' = remoteChanges + 1
    /\ UNCHANGED <<stateFile, files, localState, memdbs, SyncVars, ReaderVars,
                   CheckerVars, syncs, crashes, calls>>

\* read_local_state, the read: sync.state parsed, or the fresh state when
\* it is absent.  It is never half written (see SaveState).
ReadLocalState == stateFile

\* read_local_state and save_local_state, the store: the snapshot is
\* replaced under the write lock by the state given.
StoreSnapshot(st) == localState' = st

\* save_state: write sync.tempstate, rename it over sync.state.  The
\* rename is atomic, so sync.state goes from one whole state to the next.
SaveState(st) == stateFile' = st

\* fetch_remote_state: the S3 listing keyed by memdb filename.
FetchRemoteState == remote

\* remove_sdk: delete the memdb file; NotFound counts as success.
RemoveSdk(s) == files' = [files EXCEPT ![s] = None]

\* sync returns: its locals are dropped.
SyncReturns ==
    /\ syncPc' = "idle"
    /\ work' = FreshState
    /\ fetched' = [s \in SDKs |-> None]
    /\ queue' = <<>>
    /\ toDelete' = {}


\* Variant: sync starts from the cached snapshot (get_local_state) instead
\* of re-reading sync.state.
SyncStartFromSnapshot ==
    /\ syncPc = "idle"
    /\ syncs < MaxSyncs
    /\ syncs' = syncs + 1
    /\ LET st == IF localState # None THEN localState ELSE ReadLocalState IN
         /\ StoreSnapshot(st)
         /\ \/ UNCHANGED SyncVars
            \/ /\ syncPc' = "loop"
               /\ work' = st
               /\ fetched' = FetchRemoteState
               /\ queue' = SortedDesc(FetchRemoteState)
               /\ toDelete' = Held(st.sdks)
    /\ UNCHANGED <<remote, stateFile, files, memdbs, ReaderVars, CheckerVars,
                   remoteChanges, crashes, calls>>
-----------------------------------------------------------------------------
(* MemDbStash::sync.  It starts with read_local_state, which also replaces *)
(* the snapshot, and fetch_remote_state; either may fail (S3Unavailable or *)
(* another error) and end the call.  The sync state file is always         *)
(* parseable: save_state writes a temp file and renames it over it.        *)

SyncStart ==
    /\ syncPc = "idle"
    /\ syncs < MaxSyncs
    /\ syncs' = syncs + 1
    /\ StoreSnapshot(ReadLocalState)
    /\ \/ UNCHANGED SyncVars
       \/ /\ syncPc' = "loop"
          /\ work' = ReadLocalState
          /\ fetched' = FetchRemoteState
          /\ queue' = SortedDesc(FetchRemoteState)
          /\ toDelete' = Held(ReadLocalState.sdks)
    /\ UNCHANGED <<remote, stateFile, files, memdbs, ReaderVars, CheckerVars,
                   remoteChanges, crashes, calls>>

\* Variant: an SDK counts as unchanged when it merely has a local entry.
SyncSkipPresent ==
    /\ syncPc = "loop"
    /\ queue # <<>>
    /\ LET s == Head(queue) IN
         /\ IsIgnored(s) \/ work.sdks[s] # None
         /\ queue' = Tail(queue)
         /\ toDelete' = toDelete \ {s}
    /\ UNCHANGED <<remote, stateFile, files, localState, memdbs, syncPc, work,
                   fetched, ReaderVars, CheckerVars, Bounds>>

\* Variant: to_delete.remove only in the branch of SDKs not ignored.
SyncSkipIgnoredKept ==
    /\ syncPc = "loop"
    /\ queue # <<>>
    /\ LET s == Head(queue) IN
         /\ IsIgnored(s) \/ work.sdks[s] = fetched[s]
         /\ queue' = Tail(queue)
         /\ toDelete' = IF IsIgnored(s) THEN toDelete ELSE toDelete \ {s}
    /\ UNCHANGED <<remote, stateFile, files, localState, memdbs, syncPc, work,
                   fetched, ReaderVars, CheckerVars, Bounds>>

\* The next remote SDK is ignored by config or equal to the local entry:
\* nothing changes but the iteration and to_delete.
SyncSkip ==
    /\ syncPc = "loop"
    /\ queue # <<>>
    /\ LET s == Head(queue) IN
         /\ IsIgnored(s) \/ work.sdks[s] = fetched[s]
         /\ queue' = Tail(queue)
         /\ toDelete' = toDelete \ {s}
    /\ UNCHANGED <<remote, stateFile, files, localState, memdbs, syncPc, work,
                   fetched, ReaderVars, CheckerVars, Bounds>>

\* update_sdk up to File::create: download_sdk may fail first; otherwise
\* the destination is created or truncated in place.
UpdateSdkStart ==
    /\ syncPc = "loop"
    /\ queue # <<>>
    /\ LET s == Head(queue) IN
         /\ ~IsIgnored(s)
         /\ work.sdks[s] # fetched[s]
         /\ \/ /\ SyncReturns
               /\ UNCHANGED files
            \/ /\ syncPc' = "copy"
               /\ files' = [files EXCEPT ![s] = Torn]
               /\ UNCHANGED <<work, fetched, queue, toDelete>>
    /\ UNCHANGED <<remote, stateFile, localState, memdbs, ReaderVars,
                   CheckerVars, Bounds>>

\* The copy returned: the file holds f, sync goes on to commit, and the
\* cached memdb is evicted if the SDK had a local entry (a new SDK evicts
\* nothing).
CopyReturned(s, f) ==
    /\ syncPc' = "commit"
    /\ files' = [files EXCEPT ![s] = f]
    /\ memdbs' = IF work.sdks[s] # None THEN [memdbs EXCEPT ![s] = None]
                                      ELSE memdbs
    /\ UNCHANGED <<work, fetched, queue, toDelete>>

\* Variant: a failed copy is retried from the download instead of ending sync.
UpdateSdkCopyRetry ==
    /\ syncPc = "copy"
    /\ LET s == Head(queue) IN
         \/ /\ syncPc' = "loop"
            /\ UNCHANGED <<files, memdbs, work, fetched, queue, toDelete>>
         \/ CopyReturned(s, fetched[s])
    /\ UNCHANGED <<remote, stateFile, localState, ReaderVars, CheckerVars,
                   Bounds>>

\* copy_with_progress through the XzDecoder: it fails, leaving the torn
\* file and ending sync, or returns Ok.  The decoder is then dropped
\* without finish(): its Drop writes the last buffered output and ignores
\* any error, so a stream that ends early or a failed last write still
\* returns Ok with a short file.
UpdateSdkCopy ==
    /\ syncPc = "copy"
    /\ LET s == Head(queue) IN
         \/ /\ SyncReturns
            /\ UNCHANGED <<files, memdbs>>
         \/ CopyReturned(s, fetched[s])
         \/ CopyReturned(s, Torn)
    /\ UNCHANGED <<remote, stateFile, localState, ReaderVars, CheckerVars,
                   Bounds>>

\* Variant: the per-update revision bump is missing.
SyncCommitNoBump ==
    /\ syncPc = "commit"
    /\ LET new == WithSdk(work, Head(queue), fetched[Head(queue)]) IN
         /\ work' = new
         /\ SaveState(new)
    /\ syncPc' = "publish"
    /\ UNCHANGED <<remote, files, localState, memdbs, fetched, queue, toDelete,
                   ReaderVars, CheckerVars, Bounds>>

\* local_state.update_sdk, the revision bump and save_state of
\* save_local_state: the rename replaces sync.state in one step.
SyncCommit ==
    /\ syncPc = "commit"
    /\ LET s == Head(queue)
           new == Bumped(WithSdk(work, s, fetched[s]))
       IN /\ work' = new
          /\ SaveState(new)
    /\ syncPc' = "publish"
    /\ UNCHANGED <<remote, files, localState, memdbs, fetched, queue, toDelete,
                   ReaderVars, CheckerVars, Bounds>>

\* The rest of save_local_state (the snapshot is replaced under the write
\* lock) and to_delete.remove at the end of the iteration.
SyncPublish ==
    /\ syncPc = "publish"
    /\ StoreSnapshot(work)
    /\ queue' = Tail(queue)
    /\ toDelete' = toDelete \ {Head(queue)}
    /\ syncPc' = "loop"
    /\ UNCHANGED <<remote, stateFile, files, memdbs, work, fetched, ReaderVars,
                   CheckerVars, Bounds>>

\* One SDK of to_delete (a HashSet: any order).  The code removes the entry
\* from local_state before looking it up with get_sdk, so the lookup finds
\* nothing and remove_sdk and the eviction of the memdb never run.
SyncDelete ==
    /\ syncPc = "loop"
    /\ queue = <<>>
    /\ \E s \in toDelete :
         LET w == WithSdk(work, s, None) IN
         /\ work' = w
         /\ toDelete' = toDelete \ {s}
         /\ IF w.sdks[s] # None
               THEN /\ RemoveSdk(s)
                    /\ memdbs' = [memdbs EXCEPT ![s] = None]
               ELSE UNCHANGED <<files, memdbs>>
    /\ UNCHANGED <<remote, stateFile, localState, syncPc, fetched, queue,
                   ReaderVars, CheckerVars, Bounds>>

\* "save us one last time": bump and save_state.
SyncFinalSave ==
    /\ syncPc = "loop"
    /\ queue = <<>>
    /\ toDelete = {}
    /\ work' = Bumped(work)
    /\ SaveState(Bumped(work))
    /\ syncPc' = "final"
    /\ UNCHANGED <<remote, files, localState, memdbs, fetched, queue, toDelete,
                   ReaderVars, CheckerVars, Bounds>>

SyncFinalPublish ==
    /\ syncPc = "final"
    /\ StoreSnapshot(work)
    /\ SyncReturns
    /\ UNCHANGED <<remote, stateFile, files, memdbs, ReaderVars, CheckerVars,
                   Bounds>>
-----------------------------------------------------------------------------
(* MemDbStash::get_memdb, by reader r for SDK s.  Each lock acquisition is *)
(* a step of its own; between them the other threads run.                 *)

\* The read-locked lookup in memdbs: a hit returns a clone of the Arc.
GetMemdb(r, s) ==
    /\ rPc[r] = "idle"
    /\ calls < MaxCalls
    /\ calls' = calls + 1
    /\ rSdk' = [rSdk EXCEPT ![r] = s]
    /\ IF memdbs[s] # None
          THEN /\ rPc' = [rPc EXCEPT ![r] = "hold"]
               /\ rHandle' = [rHandle EXCEPT ![r] = memdbs[s]]
          ELSE /\ rPc' = [rPc EXCEPT ![r] = "state"]
               /\ UNCHANGED rHandle
    /\ UNCHANGED <<remote, stateFile, files, localState, memdbs, SyncVars,
                   rLocal, CheckerVars, syncs, remoteChanges, crashes>>

\* list_sdks / sdk_count by reader r: get_local_state, then the SDKs of the
\* state it returns (sorted or counted) are returned.  rSdk None marks it.
ListSdks(r) ==
    /\ rPc[r] = "idle"
    /\ calls < MaxCalls
    /\ calls' = calls + 1
    /\ rSdk' = [rSdk EXCEPT ![r] = None]
    /\ rPc' = [rPc EXCEPT ![r] = "state"]
    /\ UNCHANGED <<remote, stateFile, files, localState, memdbs, SyncVars,
                   rLocal, rHandle, CheckerVars, syncs, remoteChanges, crashes>>

\* After get_local_state returned st: list_sdks returns; get_memdb goes on
\* (Some) or fails with UnknownSdk (None).
AfterLookup(r, st) ==
    rPc' = [rPc EXCEPT ![r] = IF rSdk[r] # None /\ st.sdks[rSdk[r]] # None
                                THEN "open" ELSE "idle"]

\* get_local_state: the snapshot if there is one, else read_local_state,
\* whose read of sync.state happens before it takes the write lock.
GetLocalState(r) ==
    /\ rPc[r] = "state"
    /\ IF localState # None
          THEN /\ AfterLookup(r, localState)
               /\ UNCHANGED rLocal
          ELSE /\ rPc' = [rPc EXCEPT ![r] = "load"]
               /\ rLocal' = [rLocal EXCEPT ![r] = ReadLocalState]
    /\ UNCHANGED <<remote, stateFile, files, localState, memdbs, SyncVars, rSdk,
                   rHandle, CheckerVars, Bounds>>

\* read_local_state stores what it read, whatever was stored meanwhile,
\* and releases the write lock.
SetLocalState(r) ==
    /\ rPc[r] = "load"
    /\ StoreSnapshot(rLocal[r])
    /\ rPc' = [rPc EXCEPT ![r] = "reload"]
    /\ rLocal' = [rLocal EXCEPT ![r] = None]
    /\ UNCHANGED <<remote, stateFile, files, memdbs, SyncVars, rSdk, rHandle,
                   CheckerVars, Bounds>>

\* get_local_state then takes the read lock again and returns the snapshot
\* there now, which another thread may have replaced since the store.
ReloadSnapshot(r) ==
    /\ rPc[r] = "reload"
    /\ AfterLookup(r, localState)
    /\ UNCHANGED <<remote, stateFile, files, localState, memdbs, SyncVars, rSdk,
                   rLocal, rHandle, CheckerVars, Bounds>>

\* MemDb::from_path on the file as it is now.  A missing file is an error;
\* a torn file may fail its header check or, if the header is already
\* written, map the partial file.
OpenMemdb(r) ==
    /\ rPc[r] = "open"
    /\ LET f == files[rSdk[r]] IN
         \/ /\ f \in Versions \cup {Torn}
            /\ rPc' = [rPc EXCEPT ![r] = "insert"]
            /\ rHandle' = [rHandle EXCEPT ![r] = f]
         \/ /\ f \in {None, Torn}
            /\ rPc' = [rPc EXCEPT ![r] = "idle"]
            /\ UNCHANGED rHandle
    /\ UNCHANGED <<remote, stateFile, files, localState, memdbs, SyncVars, rSdk,
                   rLocal, CheckerVars, Bounds>>

\* The write-locked insert, which replaces any handle inserted meanwhile.
InsertMemdb(r) ==
    /\ rPc[r] = "insert"
    /\ memdbs' = [memdbs EXCEPT ![rSdk[r]] = rHandle[r]]
    /\ rPc' = [rPc EXCEPT ![r] = "reread"]
    /\ UNCHANGED <<remote, stateFile, files, localState, SyncVars, rSdk, rLocal,
                   rHandle, CheckerVars, Bounds>>

\* Variant: get_memdb retries the lookup until a handle is cached.
RereadMemdbSpin(r) ==
    /\ rPc[r] = "reread"
    /\ memdbs[rSdk[r]] # None
    /\ rPc' = [rPc EXCEPT ![r] = "hold"]
    /\ rHandle' = [rHandle EXCEPT ![r] = memdbs[rSdk[r]]]
    /\ UNCHANGED <<remote, stateFile, files, localState, memdbs, SyncVars, rSdk,
                   rLocal, CheckerVars, Bounds>>

\* The second read-locked lookup: whatever is cached now, or UnknownSdk if
\* sync evicted it in between.
RereadMemdb(r) ==
    /\ rPc[r] = "reread"
    /\ LET h == memdbs[rSdk[r]] IN
         /\ rPc' = [rPc EXCEPT ![r] = IF h # None THEN "hold" ELSE "idle"]
         /\ rHandle' = [rHandle EXCEPT ![r] = IF h # None THEN h ELSE None]
    /\ UNCHANGED <<remote, stateFile, files, localState, memdbs, SyncVars, rSdk,
                   rLocal, CheckerVars, Bounds>>

\* The caller (dump_object_action, the API) uses the memdb and drops its Arc.
ReleaseMemdb(r) ==
    /\ rPc[r] = "hold"
    /\ rPc' = [rPc EXCEPT ![r] = "idle"]
    /\ rHandle' = [rHandle EXCEPT ![r] = None]
    /\ UNCHANGED <<remote, stateFile, files, localState, memdbs, SyncVars, rSdk,
                   rLocal, CheckerVars, Bounds>>

-----------------------------------------------------------------------------
(* get_sync_status and get_revision, by checker c: both start with         *)
(* read_local_state (read, then store under the write lock).               *)

ReloadRead(c) ==
    /\ hPc[c] = "idle"
    /\ calls < MaxCalls
    /\ calls' = calls + 1
    /\ hPc' = [hPc EXCEPT ![c] = "load"]
    /\ hLocal' = [hLocal EXCEPT ![c] = ReadLocalState]
    /\ UNCHANGED <<remote, stateFile, files, localState, memdbs, SyncVars,
                   ReaderVars, hStatus, syncs, remoteChanges, crashes>>

\* Variant: missing counted as the listed minus the recorded SDKs.
StatusOfUnderflow(st, m) ==
    LET counted == {s \in Held(m) : ~IsIgnored(s)} IN
    [total |-> Cardinality(counted),
     missing |-> Cardinality(counted) - Cardinality(Held(st.sdks)),
     different |-> Cardinality({s \in counted : st.sdks[s] \notin {None, m[s]}}),
     rev |-> RevNum(st), offline |-> FALSE]

\* The status of get_sync_status against listing m, ignored SDKs skipped.
StatusOf(st, m) ==
    LET counted == {s \in Held(m) : ~IsIgnored(s)} IN
    [total |-> Cardinality(counted),
     missing |-> Cardinality({s \in counted : st.sdks[s] = None}),
     different |-> Cardinality({s \in counted : st.sdks[s] \notin {None, m[s]}}),
     rev |-> RevNum(st), offline |-> FALSE]

\* Store the snapshot, then: get_revision returns; get_sync_status lists S3
\* and returns a status, an offline status on S3Unavailable, or the error.
ReloadFinish(c) ==
    /\ hPc[c] = "load"
    /\ StoreSnapshot(hLocal[c])
    /\ hPc' = [hPc EXCEPT ![c] = "idle"]
    /\ \/ UNCHANGED hStatus
       \/ hStatus' = [hStatus EXCEPT ![c] = StatusOf(hLocal[c], FetchRemoteState)]
       \/ hStatus' = [hStatus EXCEPT ![c] =
              [total |-> 0, missing |-> 0, different |-> 0,
               rev |-> RevNum(hLocal[c]), offline |-> TRUE]]
    /\ hLocal' = [hLocal EXCEPT ![c] = None]
    /\ UNCHANGED <<remote, stateFile, files, memdbs, SyncVars, ReaderVars,
                   Bounds>>

-----------------------------------------------------------------------------
(* A crash and restart (MemDbStash::new): memory is lost, the disk stays.  *)
(* A sync interrupted in update_sdk leaves its torn file behind.           *)

Crash ==
    /\ crashes < MaxCrashes
    /\ crashes' = crashes + 1
    /\ localState' = None
    /\ memdbs' = [s \in SDKs |-> None]
    /\ SyncReturns
    /\ rPc' = [r \in Readers |-> "idle"]
    /\ rHandle' = [r \in Readers |-> None]
    /\ rLocal' = [r \in Readers |-> None]
    /\ hPc' = [c \in Checkers |-> "idle"]
    /\ hLocal' = [c \in Checkers |-> None]
    /\ UNCHANGED <<remote, stateFile, files, rSdk, hStatus, syncs,
                   remoteChanges, calls>>

-----------------------------------------------------------------------------
SyncStep ==
    \/ SyncStart \/ SyncSkip \/ UpdateSdkStart \/ UpdateSdkCopy \/ SyncCommit
    \/ SyncPublish \/ SyncDelete \/ SyncFinalSave \/ SyncFinalPublish

ReaderStep(r) ==
    \/ \E s \in SDKs : GetMemdb(r, s)
    \/ ListSdks(r)
    \/ GetLocalState(r) \/ SetLocalState(r) \/ ReloadSnapshot(r) \/ OpenMemdb(r)
    \/ InsertMemdb(r) \/ RereadMemdb(r) \/ ReleaseMemdb(r)

CheckerStep(c) == ReloadRead(c) \/ ReloadFinish(c)

Next ==
    \/ \E s \in SDKs, e \in Etag : RemotePublish(s, e)
    \/ SyncStep
    \/ \E r \in Readers : ReaderStep(r)
    \/ \E c \in Checkers : CheckerStep(c)
    \/ Crash

\* Every call, once made, runs to its end: the sync driver and each thread
\* are weakly fair once started.  Starting a call, the S3 listing and
\* crashes are not.
Fairness ==
    /\ WF_vars(SyncStep /\ syncPc # "idle")
    /\ \A r \in Readers : WF_vars(ReaderStep(r) /\ rPc[r] \notin {"idle", "hold"})
    /\ \A c \in Checkers : WF_vars(ReloadFinish(c))

Spec == Init /\ [][Next]_vars /\ Fairness

-----------------------------------------------------------------------------
(* Properties                                                              *)

TypeOK ==
    /\ remote \in [SDKs -> Etag]
    /\ stateFile \in SyncState /\ work \in SyncState
    /\ files \in [SDKs -> Etag \cup {Torn}]
    /\ localState \in SyncState \cup {None}
    /\ memdbs \in [SDKs -> Etag \cup {Torn}]
    /\ syncPc \in {"idle", "loop", "copy", "commit", "publish", "final"}
    /\ fetched \in [SDKs -> Etag]
    /\ queue \in Seq(SDKs) /\ toDelete \subseteq SDKs
    /\ rPc \in [Readers -> {"idle", "state", "load", "reload", "open", "insert",
                            "reread", "hold"}]
    /\ rSdk \in [Readers -> SDKs \cup {None}]
    /\ rLocal \in [Readers -> SyncState \cup {None}]
    /\ rHandle \in [Readers -> Etag \cup {Torn}]
    /\ hPc \in [Checkers -> {"idle", "load"}]
    /\ hLocal \in [Checkers -> SyncState \cup {None}]
    /\ hStatus \in [Checkers -> Status \cup {None}]

\* Every write of sync.state (each committed update and the final save of
\* sync, across crashes and restarts) strictly increases its revision, so
\* that a later state is always told apart from an earlier one.
RevisionAdvances ==
    [][stateFile' # stateFile => RevNum(stateFile') > RevNum(stateFile)]_vars

\* sync.state is only ever written the way StashAbstract allows, with the
\* listing sync fetched as the abstract listing: each commit of the loop
\* records one listed, not ignored SDK at its listed version under the next
\* revision, and the final save records the listing exactly (ignored SDKs
\* kept only while listed, unlisted SDKs dropped), whatever crashes, failed
\* downloads and listing changes happen in between.
Abstract == INSTANCE StashAbstract WITH durable <- stateFile, listing <- fetched

StashRefinement == Abstract!Spec

\* A started sync always ends, by completing or by an error.
SyncTerminates == syncPc # "idle" ~> syncPc = "idle"

\* A started get_memdb always returns, a handle or UnknownSdk, and so does
\* a started list_sdks: each step runs once, and none waits for a condition
\* another thread has to establish.
GetMemdbReturns ==
    \A r \in Readers :
        rPc[r] \notin {"idle", "hold"} ~> rPc[r] \in {"idle", "hold"}

\* Once sync has finished and no get_memdb is between its lookups, the
\* memdb cache holds handles only for SDKs that sync.state records: an SDK
\* deleted upstream is evicted (spec 4.3 step 4).
DeletedSdkEvicted ==
    (syncPc = "idle" /\ \A r \in Readers : rPc[r] \in {"idle", "hold"}) =>
        \A s \in SDKs : memdbs[s] # None => stateFile.sdks[s] # None

\* When no sync is running, every SDK sync.state records has its complete
\* file on disk: a failed download leaves the previous file (spec 4.3).
RecordedFilesIntact ==
    syncPc = "idle" =>
        \A s \in Held(stateFile.sdks) : files[s] = stateFile.sdks[s]

\* A handle in the memdb cache mapped from a complete file is for the
\* version sync.state records, once no sync is running (spec 8, cache
\* coherence: after a sync that replaced an SDK, get_memdb returns the new
\* file, never a stale cached one).
CachedHandleCurrent ==
    syncPc = "idle" =>
        \A s \in Held(stateFile.sdks) :
            memdbs[s] \in Versions => memdbs[s] = stateFile.sdks[s]

\* The cached snapshot of the sync state never goes back to an older
\* revision once a newer one was stored (spec 4.1, 5).
SnapshotNeverRegresses ==
    [][localState # None /\ localState' # None =>
         RevNum(localState') >= RevNum(localState)]_vars

\* The state a completed sync saves is healthy against the listing it
\* fetched: get_sync_status run after the final save, with the S3 listing
\* unchanged, reports is_healthy() (spec 8, idempotence: sync with an
\* unchanged listing yields healthy == true).  It relates the whole loop of
\* sync (ignored, unchanged, updated and deleted SDKs) to the counting of
\* get_sync_status and the f32 ratio of SyncStatus::is_healthy.
SyncLeavesHealthy ==
    [][syncPc = "loop" /\ syncPc' = "final" =>
         IsHealthy(StatusOf(stateFile', fetched))]_vars

\* A memdb handed to a caller maps a complete file, and keeps the content
\* it mapped until the caller drops it (spec 5: readers are never pointed at
\* a download in progress; spec 3: an evicted handle is not invalidated
\* while in use).  The handle maps the inode of the SDK's file, and
\* update_sdk's File::create truncates and rewrites that same inode (no file
\* of an SDK is ever unlinked, since remove_sdk does not run), so files[s]
\* is what it maps.
HeldHandleIntact ==
    \A r \in Readers :
        rPc[r] = "hold" => rHandle[r] \in Versions /\ files[rSdk[r]] = rHandle[r]

\* A get_memdb that found its SDK in the local state and inserted a handle
\* returns a handle, never UnknownSdk (spec 4.5: in the open/insert race
\* every caller still receives a valid handle).
NoSpuriousUnknownSdk ==
    [][\A r \in Readers : rPc[r] = "reread" => rPc'[r] # "idle"]_vars

=============================================================================
