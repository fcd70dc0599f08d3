CONSTANTS
  j1 = j1  b1 = b1  b2 = b2  r1 = r1  r2 = r2  r3 = r3
  Token = {j1}
  Browser = {b1, b2}
  Request = {r1, r2, r3}
  TokenOf <- OneToken
  BrowserOf <- Browsers
  JwtTTL = 3  UsedTTL = 3  SessionTTL = 3
  MaxDelay = 1
  MaxClock = 8
  Failures = {"call_error", "redis_error", "disconnect", "forget"}
SPECIFICATION RedemptionSpec
INVARIANTS RedemptionTypeOK OnceWhileValid MarkOutlivesToken
