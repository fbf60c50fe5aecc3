SPECIFICATION FairSpec
CONSTANTS
  Gone = Gone
  Unknown = Unknown
  Containers = {c1}
  States = {running, exited}
  Publishers = {p1, p2}
  MaxChanges = 1
  MaxFaults = 1
INVARIANT TypeOK
INVARIANT SnapshotsDoNotPileUp
INVARIANT SkippedWasReported
PROPERTY DashboardConverges
CHECK_DEADLOCK FALSE
