\* Three processes, no failing call: the ideal schedule and termination.
SPECIFICATION Spec
CONSTANTS
  N = 3
  Faults = {}
  Readies = {0, 1, 2}
  Bursts = {1, 2}
  MaxTime = 9
  StrayPids <- ZeroOrNobody
INVARIANTS TypeOK AwakeIsRunning DoneMeansAllReaped
PROPERTIES NonPreemptive Terminates IdealSchedule
