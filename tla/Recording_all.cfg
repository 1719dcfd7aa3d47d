\* A recorder that stops and fails, a player or the validator, and cleaning.
SPECIFICATION Spec
CONSTANTS
  Rotate = 4
  Cases <- Several
  FileFlush = 1
  Positions <- Seeks
  MaxLateness = 1
  Tolerance = 1
  Gap = 2
  Wanted = 2
INVARIANTS
  Paired
  LookupFinds
  Follows
  Truthful
PROPERTIES
  Kept
CHECK_DEADLOCK FALSE
