CONSTANTS
  Pages = {a}
  MaxRevision = 2
  Workers = {w1}
  MaxAttempts = 2
  Jobs = {"prewarm", "requested", "backfill", "recompute"}
  WikiEvents = {}
  MaxCrashes = 1
  MaxRevives = 0
  NoLease = NoLease
SPECIFICATION Spec
PROPERTIES LiveJobLeavesAnAnswer KeepsPromise
