\* A bot is created while two more requests and a customer come.
SPECIFICATION FairSpec
CONSTANTS
  Limit = 1
  Window = 2
  Requests = {r1, r2, r3}
  NoRequest = noRequest
  NoKey = noKey
  MaxFailures = 1
INVARIANTS
  TypeOK
  TwiceTheLimit
  HeardUnlessDeleted
PROPERTIES
  OldKeyRefused
  DeletedIsSilent
  RefusalEnds
