SPECIFICATION Spec
CONSTANTS
  Objects = {o1, o2, o3, o4}
  Table = Table
  Classes = {Table}
  Queries <- WalkQueries
  MaxLevel = 3
  NULL = NULL
INVARIANTS
  RecursiveDownIsSubtree
