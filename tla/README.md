# TLA+ models of the symbolserver memdb stash and command line

This directory holds TLA+ models of `src/src/memdb/stash.rs`, the part of
symbolserver that mirrors SDK symbol databases ("memdbs") from S3 to local
disk and serves them, and of `src/src/cli.rs`, the binary's entry point. It
also holds the TLC configurations that check the
models. `PROJECT.json` lists the components, runs, mutants, findings and
hazards, and maps every definition to the source lines it models.

## The system

One `MemDbStash` value is shared by several threads:

- **Sync driver.** This is `MemDbStash::sync`, run by the `sync` subcommand
  or by the server's background sync. It reads `sync.state`, fetches the S3
  listing, and visits the listed SDKs in descending order. For each SDK it
  does one of three things:
  - skips it when it is ignored or unchanged;
  - downloads it with `update_sdk`, evicts the cached memdb, bumps the
    revision and saves `sync.state`;
  - leaves it in `to_delete` when it is no longer listed.

  The SDKs left in `to_delete` are removed afterwards. A final revision
  bump and save then follow.
- **Readers.** These run `get_memdb`, called by `dump-object` and by the
  server. `get_memdb` looks in the `memdbs` cache. On a miss it consults the
  sync-state snapshot (`get_local_state`), maps the file, inserts the
  handle, and looks it up again. Readers also run `list_sdks` and
  `sdk_count`, which go through `get_local_state` too and return the
  snapshot's SDKs.
- **Health checkers.** These run `get_sync_status` and `get_revision`. Both
  re-read `sync.state`, store what they read as the snapshot, and compare it
  with the listing.

The command line (`cli.rs`) runs one subcommand per process: `main` calls
`execute`, which loads the config, sets up logging and dispatches. An error
anywhere makes `main` exit with status 1. `convert-sdk` writes a memdb per
SDK folder into an output directory, or into a `TempDir` from which each
file is uploaded (`share_sdk`). `sdk-fuzzy-match` calls the stash's
`fuzzy_match_sdk_id`. `sync`, `dump-object` and `run` call the stash code
above.

The shared state is:
- on disk: `sync.state`, which is replaced by writing a temp file and renaming
  it, and the memdb files;
- in memory: the `local_state` snapshot and the `memdbs` cache, each behind
  its own RwLock.

`read_local_state` (`stash.rs:183-198`) sits between the disk and the memory
state. Every caller goes through it. It reads the file and then stores what
it read as the snapshot.

## Modules

| Module | Models |
|---|---|
| `MemDbStash` | The whole stash: the sync driver, any number of readers and checkers, the S3 listing as a changing environment, and crashes. |
| `MCMemDbStash` | Model values and the `FirstStart` initial state (no `sync.state` on disk yet) used by the configurations. |
| `StashAbstract` | What sync promises about `sync.state`: it only moves toward a listing a sync fetched, one SDK per revision (`Upsert`), and a completed sync records that listing exactly (`Finish`: ignored SDKs kept while listed, unlisted SDKs dropped). `MemDbStash` instantiates it with `durable <- stateFile, listing <- fetched` and checks `StashRefinement == Abstract!Spec`. |
| `SyncStateStore` | `save_state` and `read_local_state` at the level of paths and inodes: `File::create` of `sync.tempstate` (creating or truncating the inode the path names), the write through the handle, the rename; sync reduced to its read and its saves; one or two sync drivers; crashes. It justifies (for one driver) the atomic `SaveState` step of `MemDbStash`. |
| `MCSyncStateStore` | Driver model values and small sets for `SyncStateStore`. |
| `Cli` | One run of the binary: `config_from_matches` and `setup_logging` (either may fail), the dispatch on the subcommand, `convert-sdk` one folder at a time (`Sdk::new`, the truncating `File::create` under the final name, `dump_memdb`, `share_sdk`, the `TempDir` dropped on exit), `sdk-fuzzy-match` composed with `FuzzyMatch` by `INSTANCE` (sharing its variables), and the outcome of `dump-object`, `sync` and `run`. `out` maps each output file to absent, partial or complete; `uploaded` is what was posted; `shown` is what was printed. |
| `MCCli` | Three SDK folders, two of which hold the same SDK, and four SDKs. |
| `FuzzyMatch` | `fuzzy_match_sdk_id` as a call: start (`get_local_state`, `from_filename`), one scoring step per SDK in HashMap order, the stable `sort_by_key`, `take`. `Reference` is spec 4.6 read declaratively (the i-th result has exactly i-1 candidates ranked before it). |

How state corresponds to code:
- `stateFile` is `sync.state`.
- `files` is the memdb files. A file can be `Torn`, which is the state
  `File::create` leaves it in until the copy finishes. It also stays `Torn`
  when the copy returns Ok but the xz stream was cut short. `XzDecoder` is
  dropped without `finish()`, and its drop ignores the error
  (`CopyReturned(s, Torn)`).
- `localState` is `MemDbStash.local_state`.
- `memdbs` is the handle cache. A handle is named by the content it mapped.
- `work`, `fetched`, `queue` and `toDelete` are the locals of `sync`.
- The per-thread `rPc`/`hPc` and locals are the program counters and locals
  of `get_memdb` and `get_sync_status`.

A step ends wherever the code releases a lock or does I/O:
- sync: the read and fetch; the visit of one SDK; the truncating
  `File::create`; the copy; the commit save; the snapshot store; the delete
  loop; the final save and store;
- get_memdb: the cache read; the state load; the state store; the
  read-locked re-read of the snapshot, which another thread may have
  replaced since the store (`stash.rs:205`); the open; the
  insert; the re-read.

The delete loop is modelled as written. It calls `remove_sdk` before
`get_sdk`, so its eviction branch is dead code.

Data is abstracted:
- an SDK is a small integer, ordered so that the descending sort keeps its
  meaning;
- a `RemoteSdk` is its etag (`PartialEq` compares the whole record);
- the ignore patterns are the set `Ignored`;
- the f32 health ratio `lag/total < 0.10` becomes `total > 0 /\ 10*lag <
  total`. In f32, 0/0 is NaN, and NaN < 0.10 is false.

A crash loses memory, the sync and thread locals included, and keeps the
disk.

## Runs

| Run | Expect | Checks |
|---|---|---|
| `sync_crash` | pass | 3 SDKs (one ignored), 2 syncs, 2 listing changes, 2 crashes. `RevisionAdvances`: every write of `sync.state` raises its revision, across crashes. `StashRefinement`: the detailed sync implements `StashAbstract` (each commit records one listed SDK under the next revision; the final save records the fetched listing, keeps listed ignored SDKs, drops unlisted ones). `SyncTerminates`: every sync returns. It runs with `VIEW SyncOnlyView`, which drops `files`: no reader runs here, and sync only writes files, so the view is a sound quotient. About 870k states, 70 s. |
| `serve` | pass | 2 SDKs, reader r1, checker c1, 2 syncs, 1 change, 2 calls, from a first start, no crash (crashes are covered by `sync_crash`). `TypeOK` includes the `u32` counts of `get_sync_status`. `RevisionAdvances` still holds while checkers overwrite the snapshot, because sync reads the file and not the snapshot. `GetMemdbReturns`: every get_memdb and list_sdks returns, a handle or UnknownSdk. The straight-line code makes this plain; it guards against a retry loop (the mutant), and it does not tell a spurious UnknownSdk from a real one (that is `spurious_unknown`). The reader calls `get_memdb` or `list_sdks` (`ListSdks`), whose `get_local_state` may store a snapshot. About 2.0M states, 2.5 min. |
| `cli` | pass | Every command line over 3 folders (two hold the same SDK), up to 2 folders per run, with and without `-c` and `--share-to`; every I/O call either fails or not; sdk-fuzzy-match over local states of up to 4 SDKs in every HashMap order, with `TakeLimit` 3 so that truncation happens. `ConvertedOnSuccess`: convert-sdk exits 0 only when every folder's SDK has a complete memdb, or was uploaded as xz. `PrintsReference`: the printed matches are the ranking of spec 4.6. About 77k states, 5 s. |
| `state_store_crash` | pass | One driver, 2 syncs, 4 saves, 2 crashes, at inode level. `StateFileParseable`: `sync.state` always parses; `RevisionAdvances`: each change of it raises its revision. About 52k states. |
| `two_syncs_garble` | violation | `StateFileParseable`. Two syncs share the `sync.tempstate` inode: one renames it over `sync.state` just after the other truncated it; `sync.state` is empty. |
| `held_handle` | violation | `HeldHandleIntact`. A cache-miss reader maps a file sync is rewriting, and `File::create` truncates the inode a caller's memdb maps (`stash.rs:237`). |
| `spurious_unknown` | violation | `NoSpuriousUnknownSdk`. Eviction between the insert and the second lookup of get_memdb yields UnknownSdk. |
| `delete_keeps_handle` | violation | `DeletedSdkEvicted`. The delete loop never removes the file or evicts the handle (`stash.rs:379`). |
| `failed_download` | violation | `RecordedFilesIntact`. A copy error leaves a truncated file that `sync.state` still records (`stash.rs:237`). |
| `stale_handle` | violation | `CachedHandleCurrent`. The reader inserts its handle after sync's eviction, so the cache holds the old version after sync completes. |
| `snapshot_regress` | violation | `SnapshotNeverRegresses`. `get_sync_status` stores a snapshot read before sync saved a newer one (`stash.rs:195`). |
| `synced_unhealthy` | violation | `SyncLeavesHealthy`: a completed sync leaves `sync.state` healthy against the listing it fetched (spec 8: a sync right after a sync has nothing to do). When the listing has no non-ignored SDK, the ratio is 0/0 = NaN and the status is unhealthy (`stash.rs:137`). That is the only way to violate it: with the zero case patched, it holds on `sync_crash`. |

The findings in `PROJECT.json` say what each violation means against the
spec.

Bounds:
- Two versions per SDK, with one change of the listing, are enough to make
  an SDK new, changed or deleted.
- Two syncs let a second sync start from the state the first one left,
  including a torn file or a crash. Two crashes let the second sync
  itself be interrupted after starting from what the first crash left.
- Three SDKs with one ignored in `sync_crash` give the descending visit
  several entries, an ignored SDK, and a delete.
- One reader and one checker are enough for every race here, because each
  race is between one serving thread and sync.
- Each counter is bounded by a named constant (`MaxSyncs`,
  `MaxRemoteChanges`, `MaxCrashes`, `MaxCalls`).
- In `cli`, two of the three folders hold the same SDK, so two folders
  write one output file. With two folders per run, a failure after a
  success is reachable. Four local SDKs and three targets are enough for
  ties, truncation, and the unparsable query.
- `CHECK_DEADLOCK FALSE` is set in `cli` because the process ends. It is
  also set because the bounded run ends idle when all
  bounds are used, and an idle stash is a legal end.

## Fairness

`StashAbstract`, `SyncStateStore`, `FuzzyMatch` and `Cli` state safety only and
assume no fairness.

Weak fairness is assumed only for steps of a call already in progress: the
steps of a running sync, of a get_memdb, and the finishing step of a health
check. These are plain sequential code, and the threads holding the locks
always release them. Nothing is assumed about starting calls, changes of the
listing, or crashes.

## Mutants

Each property of a passing run is broken by a plausible bug in the code it
is about:
- a commit without the revision bump;
- treating an SDK as unchanged whenever it has a local entry;
- `to_delete.remove` moved into the branch of SDKs not ignored;
- the fuzzy sort key without its `Rev(info)` tie-break;
- `convert-sdk` ignoring the error of `dump_memdb`;
- `save_state` writing `sync.state` in place, with no temp file;
- retrying a failed copy (the code does not retry; `SyncTerminates` would catch it);
- starting sync from the snapshot instead of the file;
- a get_memdb that retries on UnknownSdk;
- `missing` computed by subtracting counts, which underflows `u32` (TypeOK).

## Not modelled

- Outside TLC's scope, or with no shared state:
  - what `cli.rs` prints and logs (`println!`, `SimpleLogger`); no property
    is about output text. Two things were observed while reading it.
    `setup_logging` opens the log file with `File::open`, which is
    read-only, so each write fails and `SimpleLogger::log` drops the error.
    `SimpleLogger::enabled` also caps records at Info, whatever the filter;
  - clap's argument parsing, which is reduced to the set of command lines
    `Args`;
  - the S3 client and HTTP;
  - the memdb file format.
- What `list_sdks` and `sdk_count` return (the sorted SDKs and the count
  of the snapshot). Their call is modelled, but no property is about the
  result.
- `get_memdb_from_sdk_id` with an id `SdkInfo::from_filename` rejects. It
  returns UnknownSdk without touching the stash. With a valid id, it is
  `get_memdb`.
- Two processes on one symbol directory, each with its own `MemDbStash`
  (the `sync` subcommand beside a server). Each process evicts only its own
  `memdbs` and refreshes only its own snapshot. `SyncStateStore` checks
  their shared temp file, and `HeldHandleIntact` checks the in-place
  rewrite under a held handle. A second cache is not modelled.
- `SdkInfo::get_fuzzy_match` and `SdkInfo::from_filename` are outside the
  source tree: a score is an arbitrary member of `Scores` or no match, and
  a query parses to a member of `Targets` or fails.
- The spurious `get_memdb` result and the held-handle truncation are checked
  in `MemDbStash`, whose handle names the content it mapped; since no SDK
  file is ever unlinked (the delete loop never calls `remove_sdk`), the
  file of an SDK is a single inode and `files[s]` is what every handle of
  `s` maps.

## What was considered and left out

- A liveness property of the health check needs a sync to start
  eventually. No code under `src/` starts one: the server's background
  sync is outside the source tree. The model therefore assumes no fairness
  on starting a sync, and the property would not hold. Whether a completed
  sync leaves a healthy state is checked as the action property
  `SyncLeavesHealthy` instead.
- Composing `FuzzyMatch` with `MemDbStash`. The fuzzy lookup reads the same
  snapshot as `get_memdb`, and `snapshot_regress` already shows that
  snapshot regressing. `sdk-fuzzy-match` runs in a fresh process, whose
  snapshot is empty, so there it reads `sync.state` itself.
