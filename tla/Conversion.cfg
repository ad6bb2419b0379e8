CONSTANTS
  Declared <- MCDeclared
  Bodies <- MCBodies
  Children <- MCChildren
  MaxChildren = 4
  ALPHABET = 2
  RADIX = 2
  Paragraph = "paragraph"

SPECIFICATION Spec

\* A document and a paragraph come to an end.
CHECK_DEADLOCK FALSE

INVARIANTS
  EveryTextIsFiled
  NumbersAreOfTheOutline
  ReadsBack
  ListReadsAsShown
  InlineSaysAll
