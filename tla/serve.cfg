\* Sync racing one get_memdb reader and one health checker (crashes are
\* checked in sync_crash): what the serving threads observe.
SPECIFICATION FirstStartSpec
CONSTANTS
    SDKs <- SDKsTwo
    Versions <- TwoVersions
    Ignored <- NoneIgnored
    Readers = {r1}
    Checkers = {c1}
    None = None
    Torn = Torn
    MaxSyncs = 2
    MaxRemoteChanges = 1
    MaxCrashes = 0
    MaxCalls = 2
INVARIANT TypeOK
PROPERTIES RevisionAdvances GetMemdbReturns
CHECK_DEADLOCK FALSE
