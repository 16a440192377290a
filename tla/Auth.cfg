\* Two browsers behind one address, two requests in flight, two sessions.
SPECIFICATION FairSpec
CONSTANTS
  ip1 = ip1
  Browsers = {b1, b2}
  IPs = {ip1}
  IpOf <- OneAddress
  Slots = {r1, r2}
  Tokens = {t1, t2}
  MaxAttempts = 2
  LockoutWindow = 2
  SessionTTL = 1
  MaxFaults = 1
  Nil = Nil
INVARIANTS
  OvershootBounded
  NothingAfterTheEnd
  CookieNamesASession
PROPERTIES
  LockEnds
