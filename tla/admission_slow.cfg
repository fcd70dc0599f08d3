CONSTANTS
  e1 = e1  s1 = s1  s2 = s2  NoScheduler = NoScheduler
  Event = {e1}
  Ticket = {1, 2}
  Scheduler = {s1, s2}
  EventOf <- OneEvent
  Score = {0}
  DefaultAdmitRate = 1
  Rates = {2}
  Capacities = {}
  Faults = {"slow_tick", "redis_retry", "redis_error", "long_wait"}
  MaxFaults = 1
  MaxExits = 0
SPECIFICATION Spec
SYMMETRY SchedulerSymmetry
INVARIANTS LossBounded AuditTrailSound
