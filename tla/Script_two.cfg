\* Two shells, providers 1 and 12, pids that are used again.
SPECIFICATION ScriptSpec
CONSTANTS
  Shell = {sh1, sh2}
  Id = {1, 12}
  NoId = 0
  Pid = {p1, p2, p3}
  Hides <- AllVisible
  Prefix <- NoPrefix
SYMMETRY Symmetry
INVARIANTS
  OneProcess
