SPECIFICATION FairSpec
CONSTANTS
  c1 = c1
  c2 = c2
  Callers = {c1, c2}
  Wishes <- MCWishes
  Lights <- MCLights
  TTL = 1
  Delay = 2
  MaxRefs = 2
  Retries = 1
INVARIANTS
  NoThrottleSwallowed
  NotFoundIsTrue
  ResumesWhatIsMissing
PROPERTY
  CallsEnd
CHECK_DEADLOCK FALSE
