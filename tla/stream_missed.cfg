CONSTANTS
  e1 = e1  s1 = s1  q1 = q1  q2 = q2  NoScheduler = NoScheduler
  Event = {e1}
  Ticket = {1}
  Scheduler = {s1}
  EventOf <- OneEvent
  Score = {0}
  DefaultAdmitRate = 1
  Rates = {}
  Capacities = {}
  Faults = {}
  MaxFaults = 0
  MaxExits = 1
  SSEThreshold = 1
  Viewer = {1}
  Request = {q1, q2}
SPECIFICATION DeliverySpec
PROPERTY Delivered
