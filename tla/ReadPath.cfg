CONSTANTS
  Pages = {a}
  MaxRevision = 2
  Workers = {w1}
  MaxAttempts = 1
  Jobs = {}
  WikiEvents = {"redirect"}
  MaxCrashes = 0
  MaxRevives = 2
  NoLease = NoLease
  Readers = {c1}
SPECIFICATION ReadSpec
INVARIANTS ReadTypeOK PendingIsKept
PROPERTIES LeaseIsRespected
