SPECIFICATION Spec
CONSTANTS
  NULL = NULL
  Lines <- MCLines
  MaxLines <- MCMaxLines
  Calls <- MCCalls
INVARIANTS
  StatementsAreShortest
  NestingFollowsEnds
  QuietMeansComplete
  FilesReleased
CHECK_DEADLOCK FALSE
