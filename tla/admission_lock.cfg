CONSTANTS
  e1 = e1  s1 = s1  s2 = s2  NoScheduler = NoScheduler
  Event = {e1}
  Ticket = {1, 2}
  Scheduler = {s1, s2}
  EventOf <- OneEvent
  Score = {0, 1}
  DefaultAdmitRate = 2
  Rates = {}
  Capacities = {1}
  Faults = {"redis_error", "aws_error", "sign_error", "crash", "sigterm"}
  MaxFaults = 1
  MaxExits = 1
SPECIFICATION Spec
SYMMETRY SchedulerSymmetry
INVARIANTS TypeOK OneHolder AtMostOneToken DriftBounded
PROPERTY RoomSpec
