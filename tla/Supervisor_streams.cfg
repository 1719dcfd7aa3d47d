\* Multicat processes exit by themselves, and the daemon is killed in the
\* middle of a script and started again; or rows are bad, the database is lost
\* and multicat processes are slow, and one row has no video.
SPECIFICATION SupSpec
CONSTANTS
  Shell = {sh1, sh2}
  Id = {1, 2}
  NoId = 0
  Pid = {p1, p2, p3}
  Hides <- AllVisible
  Prefix <- NoPrefix
  Cases <- Streams
  MaxEdits = 1
SYMMETRY Symmetry
INVARIANTS
  OneProcess
  NoOrphan
  StoppedIsStopped
  TableMatchesList
