CONSTANTS
  e1 = e1  e2 = e2  b1 = b1  b2 = b2  d1 = d1  d2 = d2  d3 = d3
  NoEvent = NoEvent  NoTicket = NoTicket
  Event = {e1, e2}
  Ticket = {1, 2, 3, 4, 5, 6}
  EventOf <- Lines
  Browser = {b1, b2}
  Tab = {d1, d2, d3}
  BrowserOf <- Browsers
  Wanted <- Addresses
  CustomPage = {e2}
  MaxOpens <- TabOpens
  MaxVisits = 3
  Mishaps = {"forget_ticket", "forget_hash", "end_session", "kvs_error", "redis_error", "disconnect", "call_error", "late_token"}
  MaxMishaps = 1
SPECIFICATION VisitSpec
INVARIANTS VisitTypeOK OwnToken OneGuest RightLine OnePlace
CHECK_DEADLOCK FALSE
PROPERTY GetsIn
