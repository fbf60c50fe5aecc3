SPECIFICATION FairSpec
CONSTANTS
  NoRunner = NoRunner
  NoCommand = NoCommand
  Commands = {a, b, s}
  Streaming = {s}
  Resent = {a}
  Runners = {r1, r2}
  Cap = 1
  MaxSends <- Sends
  MaxCrashes = 1
INVARIANT TypeOK
INVARIANT RunsAtMostOnce
INVARIANT ResultBehindReceipt
PROPERTY ImplementsExecutor
PROPERTY ReceivedIsAnswered
CHECK_DEADLOCK FALSE
