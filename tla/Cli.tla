-------------------------------- MODULE Cli --------------------------------
(***************************************************************************)
(* One run of the symbolserver binary (src/src/cli.rs): main calls         *)
(* execute, which builds the config from the arguments, sets up logging    *)
(* and runs one subcommand; an error anywhere ends execute and main exits  *)
(* with status 1 after printing the cause chain.                           *)
(*                                                                         *)
(* convert-sdk is modelled step by step: the list of SDK folders, the      *)
(* output directory (a TempDir when sharing), and for each folder          *)
(* Sdk::new, File::create of the memdb, dump_memdb and share_sdk.          *)
(* sdk-fuzzy-match is composed with FuzzyMatch, whose call it makes.       *)
(* dump-object, sync and run call the stash and the API server, modelled   *)
(* in MemDbStash and not under src/; here only their outcome is kept.      *)
(*                                                                         *)
(* A folder is a member of Paths; PathInfo gives the SdkInfo Sdk::new      *)
(* reads from it (two folders may hold the same SDK).  Every `?` on a      *)
(* call that does I/O is a possible failure.                               *)
(***************************************************************************)
EXTENDS Integers, Sequences, SequencesExt, FiniteSets

CONSTANTS
    Paths,      \* SDK support folders
    PathInfo,   \* folder -> the SdkInfo of the SDK in it
    MaxPaths,   \* bound on the folders given or found
    SDKs, Targets, Scores, TakeLimit, None  \* as in FuzzyMatch

ASSUME PathInfo \in [Paths -> SDKs]

VARIABLES
    cliPc,     \* where execute is
    args,      \* the parsed command line
    paths,     \* convert_sdk_action's paths
    idx,       \* its loop index
    out,       \* output file -> None, "partial" or "complete"
    uploaded,  \* what share_sdk posted: SdkInfo and whether it is xz
    exitCode,  \* None while running, then the process exit status
    shown,     \* what sdk-fuzzy-match printed, for which query
    pc, query, rv, result  \* the fuzzy_match_sdk_id call

fuzzyVars == <<pc, query, rv, result>>
cliVars == <<cliPc, args, paths, idx, out, uploaded, exitCode, shown>>
vars == <<cliVars, fuzzyVars>>

Fuzzy == INSTANCE FuzzyMatch

Subcommands == {"convert-sdk", "dump-object", "sdk-fuzzy-match", "run", "sync"}

\* Command lines: convert-sdk with its flags and 0..MaxPaths folders; the
\* other subcommands' arguments only reach calls modelled by their outcome.
Args ==
    [sub: {"convert-sdk"}, defaultLocation: BOOLEAN,
     given: BoundedSeq(Paths, MaxPaths), shareTo: BOOLEAN, compress: BOOLEAN]
    \cup [sub: Subcommands \ {"convert-sdk"}, defaultLocation: {FALSE},
          given: {<<>>}, shareTo: {FALSE}, compress: {FALSE}]

\* --share-to forces compression and a TempDir as the output path.
Compressed == args.shareTo \/ args.compress

\* dst_base.join(memdb_filename()), with the extension memdbz if compressed.
OutFiles == SDKs \X {"memdb", "memdbz"}
Dst(i) == <<PathInfo[paths[i]], IF Compressed THEN "memdbz" ELSE "memdb">>
EmptyDir == [f \in OutFiles |-> None]

\* get_default_sdks: the folders of iOS DeviceSupport with an Info.plist,
\* in read_dir order.
DefaultSdks == BoundedSeq(Paths, MaxPaths)

Init ==
    /\ cliPc = "config"
    /\ args \in Args
    /\ paths = <<>>
    /\ idx = 0
    /\ out = EmptyDir
    /\ uploaded = {}
    /\ exitCode = None
    /\ shown = None
    /\ Fuzzy!Init

\* execute returns and main exits: 0 on Ok, 1 on Err.  When sharing, the
\* TempDir holding the output is dropped on the way out, either way.
Exit(code) ==
    /\ cliPc' = "exit"
    /\ exitCode' = code
    /\ out' = IF args.sub = "convert-sdk" /\ args.shareTo THEN EmptyDir ELSE out

\* config_from_matches: Config::load_file / load_default, then the
\* --log-level and --aws-region overrides, each of which may fail to parse.
ConfigFromMatches ==
    /\ cliPc = "config"
    /\ \/ cliPc' = "logging" /\ UNCHANGED <<out, exitCode>>
       \/ Exit(1)
    /\ UNCHANGED <<args, paths, idx, uploaded, shown, fuzzyVars>>

\* setup_logging: the level filter, the log file (File::open, which fails
\* when the file does not exist) or stdout, and the logger.
SetupLogging ==
    /\ cliPc = "logging"
    /\ \/ cliPc' = "dispatch" /\ UNCHANGED <<out, exitCode>>
       \/ Exit(1)
    /\ UNCHANGED <<args, paths, idx, uploaded, shown, fuzzyVars>>

\* The convert-sdk branch of execute: the folders from --default-location
\* (get_default_sdks, which may fail) or from the arguments (none given is
\* an error), TempDir::new when sharing, then convert_sdk_action.
ConvertSdkStart ==
    /\ cliPc = "dispatch" /\ args.sub = "convert-sdk"
    /\ \/ /\ ~args.defaultLocation /\ args.given = <<>>
          /\ Exit(1) /\ UNCHANGED paths
       \/ /\ args.defaultLocation
          /\ Exit(1) /\ UNCHANGED paths
       \/ /\ paths' \in IF args.defaultLocation THEN DefaultSdks
                                            ELSE {args.given} \ {<<>>}
          /\ \/ cliPc' = "convert" /\ UNCHANGED <<out, exitCode>>
             \/ args.shareTo /\ Exit(1)
    /\ idx' = 1
    /\ UNCHANGED <<args, uploaded, shown, fuzzyVars>>

\* One folder: Sdk::new (fails on a folder that is not an SDK) and
\* fs::File::create of its memdb, which creates or truncates the file.
ConvertNext ==
    /\ cliPc = "convert" /\ idx <= Len(paths)
    /\ \/ /\ cliPc' = "dump"
          /\ out' = [out EXCEPT ![Dst(idx)] = "partial"]
          /\ UNCHANGED exitCode
       \/ Exit(1)
    /\ UNCHANGED <<args, paths, idx, uploaded, shown, fuzzyVars>>

\* Variant: the error of dump_memdb is dropped and the loop goes on.
DumpMemdbIgnoringError ==
    /\ cliPc = "dump"
    /\ \/ out' = [out EXCEPT ![Dst(idx)] = "complete"]
       \/ UNCHANGED out
    /\ cliPc' = IF args.shareTo THEN "share" ELSE "convert"
    /\ idx' = IF args.shareTo THEN idx ELSE idx + 1
    /\ UNCHANGED <<args, paths, uploaded, exitCode, shown, fuzzyVars>>

\* sdk.dump_memdb writes the whole memdb, or fails and leaves the file
\* partial; then the SDK is shared, or the loop moves on.
DumpMemdb ==
    /\ cliPc = "dump"
    /\ \/ /\ out' = [out EXCEPT ![Dst(idx)] = "complete"]
          /\ cliPc' = IF args.shareTo THEN "share" ELSE "convert"
          /\ idx' = IF args.shareTo THEN idx ELSE idx + 1
          /\ UNCHANGED exitCode
       \/ Exit(1) /\ UNCHANGED idx
    /\ UNCHANGED <<args, paths, uploaded, shown, fuzzyVars>>

\* share_sdk: the file is posted as application/x-xz; the client, the open
\* or the request may fail.
ShareSdk ==
    /\ cliPc = "share"
    /\ \/ /\ uploaded' = uploaded \cup
                 {[info |-> PathInfo[paths[idx]], xz |-> Dst(idx)[2] = "memdbz"]}
          /\ cliPc' = "convert"
          /\ idx' = idx + 1
          /\ UNCHANGED <<out, exitCode>>
       \/ Exit(1) /\ UNCHANGED <<uploaded, idx>>
    /\ UNCHANGED <<args, paths, shown, fuzzyVars>>

\* Every folder done: convert_sdk_action and execute return Ok.
ConvertDone ==
    /\ cliPc = "convert" /\ idx > Len(paths)
    /\ Exit(0)
    /\ UNCHANGED <<args, paths, idx, uploaded, shown, fuzzyVars>>

\* sdk_fuzzy_match_action: MemDbStash::new and the get_local_state of
\* fuzzy_match_sdk_id may fail; otherwise the call runs (FuzzyMatch).
FuzzyMatchAction ==
    /\ cliPc = "dispatch" /\ args.sub = "sdk-fuzzy-match"
    /\ \/ /\ \E q \in Fuzzy!Queries : Fuzzy!FuzzyMatchStart(q)
          /\ cliPc' = "fuzzy"
          /\ UNCHANGED <<out, exitCode>>
       \/ Exit(1) /\ UNCHANGED fuzzyVars
    /\ UNCHANGED <<args, paths, idx, uploaded, shown>>

\* The rest of fuzzy_match_sdk_id: scoring, sort_by_key, take(10).
FuzzyStep ==
    /\ cliPc = "fuzzy"
    /\ Fuzzy!ScoreNext \/ Fuzzy!SortCandidates \/ Fuzzy!FuzzyMatchReturn
    /\ UNCHANGED cliVars

\* The "> sdk_id" lines are printed, and execute returns Ok.
PrintMatches ==
    /\ cliPc = "fuzzy"
    /\ Fuzzy!Consume
    /\ shown' = [query |-> query, lines |-> result]
    /\ Exit(0)
    /\ UNCHANGED <<args, paths, idx, uploaded>>

\* dump_object_action: MemDbStash::new, SdkInfo::from_filename, get_memdb
\* (MemDbStash), find_uuid_fuzzy and the symbol iteration, then Ok.
DumpObjectAction ==
    /\ cliPc = "dispatch" /\ args.sub = "dump-object"
    /\ Exit(0) \/ Exit(1)
    /\ UNCHANGED <<args, paths, idx, uploaded, shown, fuzzyVars>>

\* sync_action: MemDbStash::new and MemDbStash::sync (MemDbStash).
SyncAction ==
    /\ cliPc = "dispatch" /\ args.sub = "sync"
    /\ Exit(0) \/ Exit(1)
    /\ UNCHANGED <<args, paths, idx, uploaded, shown, fuzzyVars>>

\* run_action: ApiServer::new, the --threads (or configured) count and the
\* --bind-fd parse, then the server, which returns Ok when it stops.
RunAction ==
    /\ cliPc = "dispatch" /\ args.sub = "run"
    /\ Exit(0) \/ Exit(1)
    /\ UNCHANGED <<args, paths, idx, uploaded, shown, fuzzyVars>>

Next ==
    \/ ConfigFromMatches \/ SetupLogging
    \/ ConvertSdkStart \/ ConvertNext \/ DumpMemdb \/ ShareSdk \/ ConvertDone
    \/ FuzzyMatchAction \/ FuzzyStep \/ PrintMatches
    \/ DumpObjectAction \/ SyncAction \/ RunAction

Spec == Init /\ [][Next]_vars

-----------------------------------------------------------------------------
(* Properties                                                              *)

\* When convert-sdk exits with status 0, every SDK folder it was given (or
\* found) has been converted: without --share-to the output directory holds
\* a complete memdb for it, with the extension -c asks for; with --share-to
\* it was uploaded, xz-compressed as its content type says.  A failing
\* Sdk::new, create, dump or upload must end the run with status 1.
ConvertedOnSuccess ==
    exitCode = 0 /\ args.sub = "convert-sdk" =>
        \A i \in 1..Len(paths) :
            IF args.shareTo
            THEN [info |-> PathInfo[paths[i]], xz |-> TRUE] \in uploaded
            ELSE out[Dst(i)] = "complete"

\* What sdk-fuzzy-match prints is the ranking of spec 4.6 for the query,
\* whatever order the stash's HashMap yields the local SDKs in.
PrintsReference ==
    shown # None => shown.lines = Fuzzy!Reference(shown.query)

=============================================================================
