\* Two retries meet an expired record.
CONSTANTS
  r1 = r1  r2 = r2  r3 = r3  r4 = r4
  Requests = {r1, r2, r3}
  Fingerprint <- MCSame
  Large = {}
  Timeout = 2
  Backoff = 1
  TTL = 3
  MaxLag = 1
  MaxClock = 5
  MaxFaults = 0
SPECIFICATION Spec
INVARIANTS
  OneEffectPerWindow
\* Every request is answered and the clock stops at its bound.
CHECK_DEADLOCK FALSE
