SPECIFICATION Spec
CONSTANTS
  Calls <- AllCalls
  BMPFiles <- AllBMPFiles
  Samples = 2
  Lines = 3
  HostIsBig = FALSE
INVARIANTS BMPFilesRead ExistingFilesKept SuccessIsWhole CubesReadBack FailureLeavesNothing NothingKept CallersDataKept
PROPERTIES GIFReplacesNothing CallsReturn
