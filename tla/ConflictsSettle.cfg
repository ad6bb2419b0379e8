SPECIFICATION Spec
CONSTANTS
  s1 = s1
  s2 = s2
  p1 = p1
  p2 = p2
  p3 = p3
  Content = content
  Saves <- MCSaves
  Pictures <- MCPictures
  PicturesOf <- MCPicturesOf
  PARALLEL_WRITES = 2
  MaxFaults = 0
INVARIANT ConflictsSettle
\* The saves are finitely many: when all have ended nothing is left to do.
CHECK_DEADLOCK FALSE
