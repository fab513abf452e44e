SPECIFICATION EditSpec
CONSTANTS
  Objects = {root, x1, x2, x3}
  Keywords = {k1, k2, k3}
  Table = Table
  Column = Column
  a = a
  b = b
  v = v
  root = root
  x1 = x1
  x2 = x2
  x3 = x3
  x4 = x4
  Classes = {Table}
  Names = {a}
  Values = {v}
  Queries <- WalkQueries
  Requests <- TwoRequests
  MaxLevel = 3
  Characters = {"S", "T", "'", "*"}
  WildCards <- ShortWildCards
  PlainTexts <- ShortTexts
  NULL = NULL
SYMMETRY Relabellings
INVARIANTS
  LinksAgree
  LevelsFollowParents
  FindAnswers
  KwdLinksAgree
  WildCardsFind
PROPERTIES
  ImplementsForest
  ImplementsLists
