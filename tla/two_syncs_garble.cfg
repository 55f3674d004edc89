\* Two syncs (the sync subcommand and a server) on one symbol directory:
\* can sync.state become unparseable?
SPECIFICATION Spec
CONSTANTS
    Drivers <- TwoDrivers
    SDKs <- SDKsTwo
    Versions <- TwoVersions
    d1 = d1
    d2 = d2
    None = None
    Empty = Empty
    Garbled = Garbled
    MaxSyncs = 2
    MaxSaves = 3
    MaxCrashes = 0
INVARIANT StateFileParseable
\* The bounded run ends idle once every bound is used.
CHECK_DEADLOCK FALSE
