SPECIFICATION FairSpec
CONSTANTS
  MaxConns = 2
  MaxStreak = 1
  NoShell = NoShell
  NoOne = NoOne
  Ids = {t1, t2}
  Shells = {s1}
  Runners = {r1}
  ReusedIds = {t2}
  Hangs = {}
INVARIANT TypeOK
INVARIANT EveryShellIsHeld
INVARIANT NoReconnectStorm
PROPERTY ShutdownEnds
PROPERTY LostSessionIsReplaced
PROPERTY EndIsTold
CHECK_DEADLOCK FALSE
