SPECIFICATION Spec
CONSTANTS
  t1 = t1
  t2 = t2
  p1 = p1
  s1 = s1
  s2 = s2
  s3 = s3
  None = None
  Thread = {t1, t2}
  Profile = {p1}
  Session = {s1, s2, s3}
  Concurrency = 1
INVARIANT ProfileConcurrency
CHECK_DEADLOCK FALSE
