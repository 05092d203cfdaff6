SPECIFICATION MCFiringSpec
CONSTANTS
  b1 = b1
  b2 = b2
  b3 = b3
  b4 = b4
  s1 = s1
  s2 = s2
  Bindings = {b1, b2, b3, b4}
  Spaces = {s1, s2}
  SpaceOf <- Homes
  Skipping = {b1}
  Dated = {b2}
  Zoned = {}
  EndOfDates = 1
  Tickers = {t1, t2}
  Nobody = Nobody
  Batch = 2
  MaxActive = 1
  MaxTime = 2
  MaxEdits = 0
  MaxCrashesOfTicks = 0
CHECK_DEADLOCK FALSE
PROPERTY DueAnswered
