\* Sections of one, two and three packets while a file is played once, and
\* sections that fit in a packet, the file being played once or again and again.
SPECIFICATION FairInjSpec
CONSTANTS
  ChunkPackets = 3
  TabSize = 8
  MaxFile = 6
  Cases <- Files
CHECK_DEADLOCK FALSE
INVARIANTS
  InjTypeOK
  NothingLost
  SectionsWhole
PROPERTIES
  EndsOrLoops
