\* What the printed average adds up.
SPECIFICATION Safety
CONSTANTS
  N = 2
  Interval = 2
  Faults = {}
  Readies = {0, 1}
  Bursts = {1, 2}
  MaxTime = 6
  StrayPids <- OnlyZero
INVARIANTS AverageIsOfWaitingTime
