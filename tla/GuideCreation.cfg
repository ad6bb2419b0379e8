SPECIFICATION Spec
CONSTANTS
  f1 = f1
  f2 = f2
  u1 = u1
  u2 = u2
  p1 = p1
  p2 = p2
  Clients = {c1, c2}
  Files <- MCFiles
  Readable <- MCFiles
  Uploads <- MCUploads
  UploadOf <- MCUploadOf
  Pictures <- MCPictures
  PicturesOf <- MCPicturesOf
  MaxLives <- MCMaxLives
  MaxFaults = 1
INVARIANTS
  TypeOK
  ContentHasItsPictures
  VersionIsWhole
  CommittedHasOneVersion
  OneReservationPerDelivery
  PromotedWasCommitted
PROPERTIES
  CommitsAtomically
  RetriedUntilCommitted
