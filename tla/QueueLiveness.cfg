CONSTANTS
  Pages = {a, b}
  MaxRevision = 1
  Workers = {w1}
  MaxAttempts = 2
  Jobs = {"backfill"}
  WikiEvents = {}
  MaxCrashes = 1
  MaxRevives = 1
  NoLease = NoLease
SPECIFICATION FairSpec
PROPERTIES ReaderJobSettles
