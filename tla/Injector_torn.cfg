\* Sections of two packets.
SPECIFICATION InjSpec
CONSTANTS
  ChunkPackets = 3
  TabSize = 8
  MaxFile = 5
  Cases <- Long
CHECK_DEADLOCK FALSE
INVARIANTS
  SectionsJoin
