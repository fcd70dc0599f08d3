CONSTANTS
  e1 = e1  s1 = s1  q1 = q1  q2 = q2  NoScheduler = NoScheduler
  Event = {e1}
  Ticket = {1, 2}
  Scheduler = {s1}
  EventOf <- OneEvent
  Score = {0}
  DefaultAdmitRate = 1
  Rates = {}
  Capacities = {}
  Faults = {"redis_error", "crash", "sigterm", "disconnect"}
  MaxFaults = 1
  MaxExits = 0
  SSEThreshold = 1
  Viewer = {2}
  Request = {q1, q2}
SPECIFICATION DeliverySpec
INVARIANTS DeliveryTypeOK OnceEach NoBypass
PROPERTY DeliveredUnlessMissed
