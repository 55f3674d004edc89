\* A get_memdb whose inserted handle is evicted before its second lookup.
SPECIFICATION Spec
CONSTANTS
    SDKs <- SDKsTwo
    Versions <- TwoVersions
    Ignored <- NoneIgnored
    Readers = {r1}
    Checkers = {}
    None = None
    Torn = Torn
    MaxSyncs = 1
    MaxRemoteChanges = 1
    MaxCrashes = 0
    MaxCalls = 1
PROPERTY NoSpuriousUnknownSdk
CHECK_DEADLOCK FALSE
