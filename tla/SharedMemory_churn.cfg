\* Processes close, unlink, die inside and reopen in any order.
SPECIFICATION Spec
CONSTANTS
  Proc = {p1, p2, p3}
  Slot = {s1}
  Event = {e1}
  NoEvent = NoEvent
  Sem = {m1, m2}
  NoSem = NoSem
  Faults <- Churn
SYMMETRY Symmetry
INVARIANTS
  PerSemaphoreExclusion
