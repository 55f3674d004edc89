\* A caller holding a memdb while sync rewrites its file.
SPECIFICATION Spec
CONSTANTS
    SDKs <- SDKsTwo
    Versions <- TwoVersions
    Ignored <- NoneIgnored
    Readers = {r1}
    Checkers = {}
    None = None
    Torn = Torn
    MaxSyncs = 1
    MaxRemoteChanges = 1
    MaxCrashes = 0
    MaxCalls = 1
INVARIANT HeldHandleIntact
CHECK_DEADLOCK FALSE
