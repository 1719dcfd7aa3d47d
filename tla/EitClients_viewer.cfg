\* A viewer without -l next to the supervisor.
SPECIFICATION ClientSpec
CONSTANTS
  sup = sup
  m1 = m1
  v1 = v1
  s1 = s1
  s2 = s2
  Proc = {sup, v1}
  Slot = {s1}
  Event <- OneEdition
  NoEvent = NoEvent
  Sem = {a, b, c}
  NoSem = NoSem
  Faults <- NoFaults
  Supervisor = sup
  Streams <- None
  Viewers = {v1}
  Provider <- Viewing
  Loading <- Never
  MaxEdition = 1
INVARIANTS
  ViewingIsReading
