CONSTANTS
  Layouts <- MCLayouts
  LookupKeys <- MCLookupKeys
  MaxRootEps = 3
  MCSize = 6
SPECIFICATION Spec
INVARIANTS TypeOK OwnerHoldsKey ScansExact
\* A lookup stops when the leaf is found.
CHECK_DEADLOCK FALSE
