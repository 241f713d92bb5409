SPECIFICATION FairSpec
CONSTANTS
  t1 = t1
  t2 = t2
  p1 = p1
  p2 = p2
  s1 = s1
  s2 = s2
  s3 = s3
  s4 = s4
  None = None
  Thread = {t1, t2}
  Profile = {p1, p2}
  Session = {s1, s2, s3, s4}
  Concurrency = 1
INVARIANT SemaphoreAccounting
PROPERTIES NeverHandsOutEnded RetryOnAnotherSession EveryRequestEnds
CHECK_DEADLOCK FALSE
