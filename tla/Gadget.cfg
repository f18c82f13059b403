CONSTANTS
  Retries = 2
  MaxHuman = 2
  MaxViews = 2
  MaxChanges = 3
SPECIFICATION FairGadget
INVARIANTS GadgetTypeOK RestsTruthfully
PROPERTIES LoadingEnds ReadyIsShown
CHECK_DEADLOCK FALSE
