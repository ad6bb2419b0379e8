SPECIFICATION Spec
CONSTANTS
  good = good
  bad = bad
  Files <- MCFiles
  Readable <- MCReadable
  Callbacks = {c1, c2}
  Payloads <- MCPayloads
INVARIANTS
  TypeOK
  OneTaskPerClaim
  ClaimIsAttended
  EveryRecordExpires
PROPERTIES
  VerdictIsFinal
  RecordStepsAreShared
  StuckFileIsFreed
\* The deliveries are finitely many: when all are handled and every record has
\* expired there is nothing left to do.
CHECK_DEADLOCK FALSE
