SPECIFICATION DiskSpec
CONSTANTS
  Run = {1, 2}
  Job = {1, 2}
  Blob = {1, 2}
  File = {1, 2, 3, 4, 5, 6, 7, 8}
  MaxTry = 2
  MaxUploads = 2
  World <- WorldsUsed
  Setting <- Settings
INVARIANTS TypeOK CacheHoldsItsHash InputsAreRight FilesAreKept ImageIsOfItsContext
PROPERTIES PathKeepsItsFile RunsEnd RetriesWork
CHECK_DEADLOCK FALSE
