CONSTANTS
  Guides = {1, 2, 3}
  Gone = {4}
  Details <- MCDetails
  Words <- MCWords
  Reference <- MCReference
  Counted = {"schemes", "systems"}
  CountingNone = {"schemes"}
  Filters <- MCFilters
  OwnLists <- MCOwnLists
  Limit = 1
  MaxClock = 2

SPECIFICATION Spec

\* Nothing is asked of a list that has been shown to its end.
CHECK_DEADLOCK FALSE

INVARIANTS
  StillGuidesShownOnce
  AnswerAgrees
