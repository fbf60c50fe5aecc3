SPECIFICATION FairSpec
CONSTANTS
  MaxConns = 2
  MaxStreak = 1
  NoShell = NoShell
  NoOne = NoOne
  Ids = {t1}
  Shells = {s1}
  Runners = {r1}
  ReusedIds = {}
  Hangs = {"probe", "input"}
PROPERTY LostSessionIsReplaced
CHECK_DEADLOCK FALSE
