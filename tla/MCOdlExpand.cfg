SPECIFICATION Spec
CONSTANTS
  a = a
  b = b
  c = c
  Names = {a, b, c}
  Label = a
  Attached = Attached
  NoDirectory = NoDirectory
  Directories = {NoDirectory, Elsewhere}
  Masks <- EveryMask
  Disks <- MCDisks
  Spelling <- Exact
  MaxTurns = 20
INVARIANTS
  TidyFilesNotReentered
  OwnKeywordsFirst
CHECK_DEADLOCK FALSE
PROPERTIES ExpansionEnds
