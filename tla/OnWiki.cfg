CONSTANTS
  Pages = {1, 2}
  Accounts = {a, b}
  Renamed = {b}
  Options <- RawOptions
  CategoryLimit = 1
  HideSanctioned = TRUE
  MaxEdits = 3
  MaxFailures = 1
SPECIFICATION FairSpec
INVARIANTS TypeOK CoveredStaysOptedOut StatedIsStored AnswersObeyThePage
PROPERTIES TableFollowsPage
CHECK_DEADLOCK FALSE
