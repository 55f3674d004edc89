--------------------------- MODULE MCSyncStateStore ---------------------------
EXTENDS SyncStateStore

CONSTANTS d1, d2

OneDriver == {d1}
TwoDrivers == {d1, d2}
SDKsTwo == {1, 2}
TwoVersions == {10, 20}
=============================================================================
