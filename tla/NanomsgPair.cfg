SPECIFICATION FairSpec
CONSTANTS
  Wire = 2
  Inbox = 2
  MaxBreaks = 3
INVARIANTS
  TypeOK
  NoStandoff
PROPERTIES
  KeepTalking
