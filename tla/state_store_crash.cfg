\* One sync driver, crashing between any two file operations.
SPECIFICATION Spec
CONSTANTS
    Drivers <- OneDriver
    SDKs <- SDKsTwo
    Versions <- TwoVersions
    d1 = d1
    d2 = d2
    None = None
    Empty = Empty
    Garbled = Garbled
    MaxSyncs = 2
    MaxSaves = 4
    MaxCrashes = 2
INVARIANT StateFileParseable
PROPERTY RevisionAdvances
\* The bounded run ends idle once every bound is used.
CHECK_DEADLOCK FALSE
