\* An SDK deleted upstream after a reader opened it: is its memdb evicted?
SPECIFICATION Spec
CONSTANTS
    SDKs <- SDKsTwo
    Versions <- TwoVersions
    Ignored <- NoneIgnored
    Readers = {r1}
    Checkers = {}
    None = None
    Torn = Torn
    MaxSyncs = 1
    MaxRemoteChanges = 1
    MaxCrashes = 0
    MaxCalls = 1
INVARIANT DeletedSdkEvicted
CHECK_DEADLOCK FALSE
