SPECIFICATION Spec
CONSTANTS
  Absent = Absent
  Malformed = Malformed
  MaxEdits = 4
  Inventories <- MCInventories
  Entries <- MCEntries
  Contents <- MCContents
INVARIANT
  TypeOK
PROPERTY
  LockedPositionsKeepTheirMeaning
  ReviewedReleasesAreAppendOnly
CHECK_DEADLOCK FALSE
