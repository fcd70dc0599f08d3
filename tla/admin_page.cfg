CONSTANTS
  e1 = e1  e2 = e2  NoEvent = NoEvent
  Event = {e1, e2}
  Listing <- Listings
  Fetch = {1, 2}
  Put = {1, 2}
  DefaultAdmitRate = 1
  Update <- Updates
  MaxSelects = 1
  MaxSubmits = 2
  MaxFailures = 1
SPECIFICATION AdminSpec
INVARIANTS AdminTypeOK LastUpdateWins
PROPERTY CatchesUp
CHECK_DEADLOCK FALSE
