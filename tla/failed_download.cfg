\* A download that fails half way: does the recorded file stay intact?
SPECIFICATION Spec
CONSTANTS
    SDKs <- SDKsTwo
    Versions <- TwoVersions
    Ignored <- NoneIgnored
    Readers = {}
    Checkers = {}
    None = None
    Torn = Torn
    MaxSyncs = 1
    MaxRemoteChanges = 1
    MaxCrashes = 0
    MaxCalls = 0
INVARIANT RecordedFilesIntact
CHECK_DEADLOCK FALSE
