------------------------------- MODULE MCCli -------------------------------
(* A model-checking instance of Cli: three SDK folders, two of which hold  *)
(* the same SDK, and four SdkInfo values ordered by version.              *)
EXTENDS Cli, TLC

CONSTANTS p1, p2, p3

ThreePaths == {p1, p2, p3}
\* p1 and p2 hold the same SDK, so their memdbs have one file name.
SharedInfo == (p1 :> 1) @@ (p2 :> 1) @@ (p3 :> 2)
FourSDKs == {1, 2, 3, 4}
\* Targets older than, equal to and newer than local SDKs.
ThreeTargets == {0, 2, 5}
=============================================================================
