SPECIFICATION FairSpec
CONSTANTS
  c1 = c1
  f1 = f1
  f2 = f2
  s1 = s1
  t1 = t1
  Challenges = {c1}
  Failures = {f1, f2}
  Sinks = {s1}
  Tickers = {t1}
  Batch = 2
  MaxDelay = 2
  SinkFailures = 2
  MayCrash = FALSE
PROPERTIES
  EnabledIsDelivered
CHECK_DEADLOCK FALSE
