SPECIFICATION FairSpec
CONSTANTS
  Published = {"incoming", "outgoing", "read", "chat_start", "unknown"}
  MaxRecords = 2
  MaxFailures = 2
  MaxRestarts = 2
INVARIANTS
  TypeOK
  OnlyAbandonedMissing
  CountedOncePerDelivery
  PreviewIsNewest
PROPERTY Drains
