\* Rows whose sections are corrected.
SPECIFICATION FairSupSpec
CONSTANTS
  Shell = {sh}
  Id = {1, 2}
  NoId = 0
  Pid = {p1, p2, p3}
  Hides <- AllVisible
  Prefix <- NoPrefix
  Cases <- BadRows
  MaxEdits = 2
PROPERTIES
  EnabledIsPlayed
