SPECIFICATION Spec
CONSTANTS
  NoKey = NoKey
  NoItem = NoItem
  Facts = {f1, f2}
  Signals = {}
  Keys = {}
  CompactEvery = 2
  LegacyMsgs = {}
  CrashPoints <- AllPoints
  IOFaults = {}
  MaxCrashes = 1
INVARIANT AcceptedStaysOnDisk
CHECK_DEADLOCK FALSE
