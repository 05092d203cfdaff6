SPECIFICATION MCFiringSpec
CONSTANTS
  b1 = b1
  b2 = b2
  b3 = b3
  b4 = b4
  s1 = s1
  s2 = s2
  Bindings = {b1, b2, b3, b4}
  Spaces = {s1, s2}
  SpaceOf <- Homes
  Skipping = {b1}
  Dated = {}
  Zoned = {b3}
  EndOfDates = 2
  Tickers = {t1, t2}
  Nobody = Nobody
  Batch = 2
  MaxActive = 1
  MaxTime = 2
  MaxEdits = 2
  MaxCrashesOfTicks = 1
CHECK_DEADLOCK FALSE
INVARIANT NoBurst
PROPERTIES
  StartsOnlyWhileOn
  DueAnswered
