\* A process closes the library while others have it open.
SPECIFICATION Spec
CONSTANTS
  Proc = {p1, p2, p3}
  Slot = {s1}
  Event = {e1}
  NoEvent = NoEvent
  Sem = {m1, m2, m3}
  NoSem = NoSem
  Faults <- Unlinked
SYMMETRY Symmetry
INVARIANTS
  MutualExclusion
