SPECIFICATION Spec
CONSTANTS
  Word = 64
  Geometries <- AllArrays
INVARIANTS TypeOK WindowCoversEntries AllocAssertsHold InvertedOnlyWhenEmpty TightWindow
PROPERTIES GrowsOnlyWhenPacked ImplementsPool
CHECK_DEADLOCK FALSE
