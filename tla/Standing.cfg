CONSTANTS
  Accounts = {1, 2, 3}
  LockChecksPerRun = 1
  MaxChanges = 2
  MaxFailures = 1
SPECIFICATION FairSpec
INVARIANTS TypeOK WithheldWasSanctioned MissingPageWasMissing
PROPERTIES TableConverges
CHECK_DEADLOCK FALSE
