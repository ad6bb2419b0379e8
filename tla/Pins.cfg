SPECIFICATION Spec
CONSTANTS
  a = a
  b = b
  c = c
  x = x
  Guides <- MCGuides
  Existing <- MCExisting
  InitialPins <- MCInitialPins
  Requests = {r1, r2, r3}
  PATCH_ATTEMPTS = 2
SYMMETRY Symmetry
INVARIANTS
  TypeOK
  NoGuideTwice
  MovedWhereAsked
  GivesUpOnlyOnChanges
PROPERTIES
  UnpinsTheGuideShown
  PatchesAtOnce
\* Each request is one patch: when all are answered there is nothing left.
CHECK_DEADLOCK FALSE
