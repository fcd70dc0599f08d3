CONSTANTS
  e1 = e1  s1 = s1  s2 = s2  NoScheduler = NoScheduler
  Event = {e1}
  Ticket = {1, 2}
  Scheduler = {s1}
  EventOf <- OneEvent
  Score = {0}
  DefaultAdmitRate = 1
  Rates = {}
  Capacities = {1}
  Faults = {"crash", "sigterm", "sign_error"}
  MaxFaults = 2
  MaxExits = 2
SPECIFICATION VisitorsLeaveSpec
INVARIANT ActiveWithinCapacity
PROPERTY EveryoneCalled
