\* Programs are stopped and interrupted by signals, and unlink the semaphore
\* under each other.
SPECIFICATION FairClientSpec
CONSTANTS
  sup = sup
  m1 = m1
  v1 = v1
  s1 = s1
  s2 = s2
  Proc = {sup, m1}
  Slot = {s1}
  Event <- TwoEditions
  NoEvent = NoEvent
  Sem = {a, b, c}
  NoSem = NoSem
  Faults <- Signals
  Supervisor = sup
  Streams = {m1}
  Viewers <- None
  Provider <- OneStream
  Loading <- Never
  MaxEdition = 2
PROPERTIES
  ProgramsFinish
