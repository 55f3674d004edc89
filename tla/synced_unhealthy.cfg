\* One sync from a first start against any S3 listing, ignored SDK included:
\* the state the completed sync saves, judged by get_sync_status.
SPECIFICATION FirstStartSpec
CONSTANTS
    SDKs <- SDKsThree
    Versions <- TwoVersions
    Ignored <- IgnoredOne
    Readers = {}
    Checkers = {}
    None = None
    Torn = Torn
    MaxSyncs = 1
    MaxRemoteChanges = 0
    MaxCrashes = 0
    MaxCalls = 0
PROPERTY SyncLeavesHealthy
\* A single bounded sync ends idle with nothing enabled.
CHECK_DEADLOCK FALSE
