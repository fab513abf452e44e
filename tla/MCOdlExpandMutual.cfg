SPECIFICATION Spec
CONSTANTS
  a = a
  b = b
  c = c
  Names = {a, b, c}
  Label = a
  Attached = Attached
  NoDirectory = NoDirectory
  Directories = {NoDirectory}
  Masks <- OnlyStructure
  Disks <- MutualDisks
  Spelling <- Exact
  MaxTurns = 6
INVARIANT
  NoFileReentered
CHECK_DEADLOCK FALSE
