\* The file is played again and again; sections of two packets.
SPECIFICATION InjSpec
CONSTANTS
  ChunkPackets = 3
  TabSize = 8
  MaxFile = 5
  Cases <- LongAgain
CHECK_DEADLOCK FALSE
INVARIANTS
  GoesOn
