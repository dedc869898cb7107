SPECIFICATION Spec
CONSTANTS
  h1 = h1
  h2 = h2
  q1 = q1
  q2 = q2
  f1 = f1
  f2 = f2
  Handles <- MCHandles
  Queries <- MCQueries
  Files <- MCFiles
  Garbage = Garbage
  None = None
  FirstCap = 4
  MaxFile = 1
  MaxSpans = 2
  MaxCells = 12
SYMMETRY Symmetric
INVARIANTS MapIsValid FilesAreValid
