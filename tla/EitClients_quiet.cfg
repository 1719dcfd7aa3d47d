\* The supervisor, a stream and a viewer of another provider, two editions of
\* each provider, no fault.
SPECIFICATION FairClientSpec
CONSTANTS
  sup = sup
  m1 = m1
  v1 = v1
  s1 = s1
  s2 = s2
  Proc = {sup, m1, v1}
  Slot = {s1, s2}
  Event <- TwoEditions
  NoEvent = NoEvent
  Sem = {a, b, c}
  NoSem = NoSem
  Faults <- NoFaults
  Supervisor = sup
  Streams = {m1}
  Viewers = {v1}
  Provider <- StreamAndViewer
  Loading <- Sometimes
  MaxEdition = 2
INVARIANTS
  SupervisedContent
PROPERTIES
  EditionsInOrder
  LastEditionIsPlayed
