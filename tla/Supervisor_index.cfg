\* Rows that become bad.
SPECIFICATION SupSpec
CONSTANTS
  Shell = {sh}
  Id = {1, 2}
  NoId = 0
  Pid = {p1, p2, p3}
  Hides <- AllVisible
  Prefix <- NoPrefix
  Cases <- BadRows
  MaxEdits = 1
PROPERTIES
  FailureNamesItsRow
