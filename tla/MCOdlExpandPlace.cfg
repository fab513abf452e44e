SPECIFICATION Spec
CONSTANTS
  a = a
  b = b
  c = c
  Names = {a, b, c}
  Label = a
  Attached = Attached
  NoDirectory = NoDirectory
  Directories = {NoDirectory}
  Masks <- OnlyStructure
  Disks <- MCDisks
  Spelling <- Exact
  MaxTurns = 20
PROPERTY
  IncludedInPlace
CHECK_DEADLOCK FALSE
