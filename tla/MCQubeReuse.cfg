SPECIFICATION HSpec
CONSTANTS
  Headers <- MCHeaders
  UserSlices <- MCSlices
  MaxSingleReadSize = 6
INVARIANTS SetSliceReplacesSlice
