---------------------------- MODULE MCMemDbStash ----------------------------
(* Model-checking instances of MemDbStash: small sets of SDKs and etags,   *)
(* one thread of each kind, and the bounds named in the .cfg files.        *)
EXTENDS MemDbStash

\* Three SDKs, the smallest one ignored, so that sync visits an ignored,
\* an updated and a deleted SDK in one descending pass.
SDKsThree == {1, 2, 3}
IgnoredOne == {1}
\* Two SDKs, none ignored, for the runs with concurrent threads.
SDKsTwo == {1, 2}
NoneIgnored == {}
\* Two etags: an SDK can be replaced by different content and back.
TwoVersions == {10, 20}

\* A first start on an empty symbol directory (sync.state absent, read as
\* the fresh state), against any S3 listing.
FirstStart == Init /\ stateFile = FreshState

\* For the runs without readers: sync only writes the memdb files (no guard
\* of sync or of a health check reads them), so states that differ only in
\* them behave alike and are explored once.
SyncOnlyView == <<remote, stateFile, localState, memdbs, SyncVars,
                  CheckerVars, Bounds>>

FirstStartSpec == FirstStart /\ [][Next]_vars /\ Fairness
=============================================================================
