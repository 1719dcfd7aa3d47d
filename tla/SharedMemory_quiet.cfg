\* No fault of the environment: the library is a table of atomic registers, and calls return.
SPECIFICATION FairSpec
CONSTANTS
  Proc = {p1, p2}
  Slot = {s1}
  Event = {e1, e2}
  NoEvent = NoEvent
  Sem = {m1, m2}
  NoSem = NoSem
  Faults <- NoFaults
INVARIANTS
  TypeOK
  NoTornCopy
  MutualExclusion
PROPERTIES
  AcknowledgedIsCopied
  ImplementsRegister
  CallsReturn
