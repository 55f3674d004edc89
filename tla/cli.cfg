\* One run of the binary, every subcommand and command line: convert-sdk
\* with up to two of three folders (two holding the same SDK), -c and
\* --share-to; sdk-fuzzy-match over local states of up to four SDKs in every
\* HashMap order; every I/O call failing or not.
SPECIFICATION Spec
CONSTANTS
    p1 = p1
    p2 = p2
    p3 = p3
    Paths <- ThreePaths
    PathInfo <- SharedInfo
    MaxPaths = 2
    SDKs <- FourSDKs
    Targets <- ThreeTargets
    Scores = {0, 1}
    TakeLimit = 3
    None = None
INVARIANTS ConvertedOnSuccess PrintsReference
\* The process ends: after main exits nothing is enabled.
CHECK_DEADLOCK FALSE
