\* Signals interrupt waits, and processes unlink the semaphore under each other.
SPECIFICATION Spec
CONSTANTS
  Proc = {p1, p2}
  Slot = {s1}
  Event = {e1}
  NoEvent = NoEvent
  Sem = {m1, m2}
  NoSem = NoSem
  Faults <- Signals
SYMMETRY Symmetry
INVARIANTS
  NeverStuck
