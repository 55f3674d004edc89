\* A reader inserting its handle after sync evicted the SDK.
SPECIFICATION Spec
CONSTANTS
    SDKs <- SDKsTwo
    Versions <- TwoVersions
    Ignored <- NoneIgnored
    Readers = {r1}
    Checkers = {}
    None = None
    Torn = Torn
    MaxSyncs = 1
    MaxRemoteChanges = 1
    MaxCrashes = 0
    MaxCalls = 1
INVARIANT CachedHandleCurrent
CHECK_DEADLOCK FALSE
