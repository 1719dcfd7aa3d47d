\* Links that lose, delay and duplicate.
SPECIFICATION FairSpec
CONSTANTS
  NbOutputs = 2
  Weights <- Shares
  Sizes = {1}
  RetxBuffer = 9
  Period = 1
  Seq0 = 29
  SeqMod = 32
  ClockMod = 1000
  Starts = {0, 9}
  Configs <- Several
  MaxPackets = 11
  BufferLength = 7
  RetxDelay = 3
  MaxBurst = 3
  MaxGap = 5
  MaxJitter = 3
  Average = 2
  TsMod = 16
  MaxDelay = 1
  Disturbed = {1,2,3,4}
  Limits <- All
  MaxFaults = 2
  Slow = FALSE
INVARIANTS
  InOrder
  Complete
  OnTime
  Sharing
  Retransmittable
PROPERTIES
  OnlyMissing
  Drains
