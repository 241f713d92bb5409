SPECIFICATION Spec
CONSTANTS
  s1 = s1
  s2 = s2
  t1 = t1
  t2 = t2
  b1 = b1
  b2 = b2
  b3 = b3
  h = h
  None = None
  NoLength = NoLength
  BadLength = BadLength
  Scope = {s1, s2}
  Attempt = {t1, t2}
  Burst = 2
  Cost = 2
  MaxTime = 4
  MaxRequestBytes = 2
  MaxStdout = 2
  MaxWritten = 4
  MaxResponseBytes = 2
  Sent = 4
  Business = {b1, b2, b3}
  Probe = {h}
  Workers = 2
  Queue = 1
  Active = 1
  Limits = {2, 5}
  MaxLength = 5
  MaxParts = 2
  MaxPayload = 4
INVARIANTS OneValidation ReadyHasSchemas OneStatus SettledTruly WholeOrNothing PermitsReturned NormalizedTrue PartsExact
PROPERTIES BecomesReady RateBound ProbeAnswered
CHECK_DEADLOCK FALSE
