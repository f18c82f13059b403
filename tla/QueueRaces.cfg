CONSTANTS
  Pages = {a}
  MaxRevision = 2
  Workers = {w1,w2}
  MaxAttempts = 1
  Jobs = {}
  WikiEvents = {"redirect", "elsewhere", "delete"}
  MaxCrashes = 0
  MaxRevives = 0
  NoLease = NoLease
SPECIFICATION Spec
SYMMETRY Replicas
INVARIANTS TypeOK SupersededNeverCurrent
PROPERTIES  NeverUnanswered
