\* Four requests with one key, one of them with another payload and one with a
\* long response, across the expiry of the record and its cleanup, two failures.
CONSTANTS
  r1 = r1  r2 = r2  r3 = r3  r4 = r4
  Requests = {r1, r2, r3, r4}
  Fingerprint <- MCReused
  Large = {r2}
  Timeout = 2
  Backoff = 1
  TTL = 3
  MaxLag = 1
  MaxClock = 5
  MaxFaults = 2
SPECIFICATION Spec
INVARIANTS
  TypeOK
  OneExecutionAtATime
  ReplayIsFaithful
PROPERTIES
  NoEffectAfterSuccess
\* Every request is answered and the clock stops at its bound.
CHECK_DEADLOCK FALSE
