SPECIFICATION UsersSpec
CONSTANTS
  SignIns = {s1, s2, s3}
  Identities = {anne, ben}
  Names = {old, new}
  a = a
  b = b
  c = c
  x = x
  Guides <- MCGuides
  Existing <- MCExisting
  Times = {1, 2, 3}
  Visits = {v1, v2, v3, v4}
  RECENTLY_OPENED_KEPT = 2
SYMMETRY Symmetry
INVARIANTS
  SignInTypeOK
  SignInsAgree
  OpeningTypeOK
  ListIsOfEveryOpening
  SurplusIsPulled
PROPERTIES
  NameIsRefreshed
\* Each request is one sign-in or opening: when all are answered there is nothing
\* left.
CHECK_DEADLOCK FALSE
