\* Provider numbers of which one begins like the other.
SPECIFICATION ScriptSpec
CONSTANTS
  Shell = {sh}
  Id = {1, 12}
  NoId = 0
  Pid = {p1, p2, p3}
  Hides <- AllVisible
  Prefix <- OneTwelve

PROPERTIES
  StopsItsOwn
