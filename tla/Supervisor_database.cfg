\* A lost database connection.
SPECIFICATION SupSpec
CONSTANTS
  Shell = {sh}
  Id = {1, 2}
  NoId = 0
  Pid = {p1, p2, p3}
  Hides <- AllVisible
  Prefix <- NoPrefix
  Cases <- LostDatabase
  MaxEdits = 0
PROPERTIES
  StopsOnlyDeleted
