\* get_sync_status storing a snapshot it read before a concurrent sync saved.
SPECIFICATION FirstStartSpec
CONSTANTS
    SDKs <- SDKsTwo
    Versions <- TwoVersions
    Ignored <- NoneIgnored
    Readers = {}
    Checkers = {c1}
    None = None
    Torn = Torn
    MaxSyncs = 1
    MaxRemoteChanges = 0
    MaxCrashes = 0
    MaxCalls = 1
PROPERTY SnapshotNeverRegresses
CHECK_DEADLOCK FALSE
