SPECIFICATION Spec
CONSTANTS
  KeyPtrs = {11, 12, 13, 14}
  ValuePtrs = {21, 22, 23}
  Content <- MCContent
  HashOf <- MCHashOf
  Buckets = {1, 2}
  Ratios <- MCRatios
  NULL = NULL
INVARIANTS ChainsSound OwnershipExact
PROPERTIES ImplementsMap
CHECK_DEADLOCK FALSE
