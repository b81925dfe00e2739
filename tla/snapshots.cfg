SPECIFICATION FairSpec
CONSTANTS
  Snapshots = {s1, s2}
  NoSnapshot = NoSnapshot
  Nobody = Nobody
  Window <- Midnight
  MaxScheduled = 1
  MaxMishaps = 1
INVARIANT TypeOK
INVARIANT AvailableIsBackedUp
INVARIANT BackupsAccountedFor
INVARIANT SInv
 
PROPERTY NoBackupAfterEnd
PROPERTY FollowsSnapshotLifecycle
PROPERTY SnapshotsEnd
CHECK_DEADLOCK FALSE
