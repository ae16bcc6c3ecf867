SPECIFICATION ToolLocksSpec
CONSTANTS
  Absent = Absent
  Malformed = Malformed
  MaxEdits = 4
  Inventories <- MCInventories
  Entries <- MCEntries
  Contents <- MCContents
PROPERTY
  CheckFailsOnRemoval
CHECK_DEADLOCK FALSE
