SPECIFICATION EitherSpec
CONSTANTS
  Objects = {root, x1, x2, x3, x4}
  Keywords = {k1, k2}
  Table = Table
  Column = Column
  a = a
  b = b
  v = v
  root = root
  x1 = x1
  x2 = x2
  x3 = x3
  x4 = x4
  Classes <- MCClasses
  Names = {a, b}
  Values = {v}
  Queries <- WalkQueries
  Requests <- MCRequests
  MaxLevel = 3
  Characters = {"S", "T", "'", "*"}
  WildCards = {}
  PlainTexts = {}
  NULL = NULL
INVARIANTS
  KwdAnswers
  ObjectAnswers
PROPERTIES
  WalkReturns
  SearchEnds
