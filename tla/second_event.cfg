CONSTANTS
  e1 = e1  e2 = e2  b1 = b1  b2 = b2  d1 = d1  d2 = d2  d3 = d3
  NoEvent = NoEvent  NoTicket = NoTicket
  Event = {e1, e2}
  Ticket = {1, 5}
  EventOf <- Lines
  Browser = {b1}
  Tab = {d1, d2}
  BrowserOf <- Browsers
  Wanted <- Addresses
  CustomPage = {}
  MaxOpens <- TabOpens
  MaxVisits = 3
  Mishaps = {}
  MaxMishaps = 0
SPECIFICATION VisitSpec
CHECK_DEADLOCK FALSE
PROPERTY LetThrough
