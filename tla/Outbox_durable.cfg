SPECIFICATION Spec
CONSTANTS
  NoKey = NoKey
  NoItem = NoItem
  Facts = {f1, f2}
  Signals = {s1}
  Keys = {k1}
  CompactEvery = 2
  LegacyMsgs = {}
  CrashPoints <- SafePoints
  IOFaults = {"rename", "open"}
  MaxCrashes = 1
SYMMETRY MessageSymmetry
INVARIANT AcceptedStaysOnDisk
PROPERTY ImplementsDurableStore
CHECK_DEADLOCK FALSE
