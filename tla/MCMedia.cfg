SPECIFICATION FairSpec
CONSTANTS
  Ssrcs = {s1, s2, s3}
  NoStream = nostream
  NumSsrc = 2
  MaxSyncInfos = 10
  MaxFails = 1
  MaxBuf = 1
  MaxCtrl = 1
  MaxNet = 3
INVARIANTS TypeOK SyncInfoThere QueueUndisturbed PlaysCurrent NobodyUsesDeleted
PROPERTIES StopReturns PacketsRead
