SPECIFICATION DSpec
CONSTANTS
  NoKey = NoKey
  NoItem = NoItem
  NoConn = NoConn
  Facts = {f1, f2}
  Signals = {}
  Keys = {}
  CompactEvery = 2
  LegacyMsgs = {}
  CrashPoints <- StrictPoints
  IOFaults = {}
  MaxCrashes = 1
  Conns = {c1, c2}
  BatchSize = 2
SYMMETRY FactSymmetry
INVARIANT DTypeOK
INVARIANT RestartIsLossless
INVARIANT SeqNotReused
PROPERTY ImplementsReliableChannel
CHECK_DEADLOCK FALSE
