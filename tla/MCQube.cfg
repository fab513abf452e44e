SPECIFICATION Spec
CONSTANTS
  Headers <- MCHeaders
  UserSlices <- MCSlices
  MaxSingleReadSize = 6
INVARIANTS
  OutputFits
  LineInsidePlane
  NothingLeaks
  ImageReadsInBounds
PROPERTIES
  SliceRestored
  ImplementsQubeSpec
  ReadReturns
