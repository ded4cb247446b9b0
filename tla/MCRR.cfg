\* Three processes, slots of two units, no failing call.
SPECIFICATION Spec
CONSTANTS
  N = 3
  Interval = 2
  Faults = {}
  Readies = {0, 1, 3}
  Bursts = {1, 2, 4}
  MaxTime = 16
  StrayPids <- OnlyZero
INVARIANTS TypeOK BoundedWait FairShares AwakeIsRunning
PROPERTIES Terminates IdealSchedule
