SPECIFICATION FairSpec
CONSTANTS
  k1 = k1
  k2 = k2
  p1 = p1
  p2 = p2
  NoPull = NoPull
  NoCommand = NoCommand
  Pulls <- MCPulls
  Commands <- MCCommands
INVARIANTS
  TypeOK
  RunOnce
  ResultIsReal

PROPERTY DatedCloses
