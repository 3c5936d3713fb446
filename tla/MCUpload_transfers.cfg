SPECIFICATION Spec
CONSTANTS
  t1 = t1  t2 = t2
  Transfers = {t1, t2}
  Loads <- SomeLoads
  Sizes = {0, 1, 3, 4}
  Part = 2
  Limit = 3
  Chunks = 2
  MaxWrites = 3
  Forms <- SomeForms
CHECK_DEADLOCK FALSE
INVARIANTS TypeOK RecordedWhole FormNeedsKey DownloadWhole NoSilentOrphan
PROPERTIES SessionKeptUntilRecorded
