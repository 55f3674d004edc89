\* The sync driver alone against a changing S3 listing, with failed
\* downloads and two crashes: the durable-state guarantees of sync.
SPECIFICATION Spec
CONSTANTS
    SDKs <- SDKsThree
    Versions <- TwoVersions
    Ignored <- IgnoredOne
    Readers = {}
    Checkers = {}
    None = None
    Torn = Torn
    MaxSyncs = 2
    MaxRemoteChanges = 2
    MaxCrashes = 2
    MaxCalls = 0
PROPERTIES RevisionAdvances StashRefinement SyncTerminates
VIEW SyncOnlyView
\* Between calls the stash is idle; with every bound used up nothing is
\* enabled, which is the end of the bounded run, not a stuck state.
CHECK_DEADLOCK FALSE
