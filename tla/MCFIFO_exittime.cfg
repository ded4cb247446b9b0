\* Two processes: the exit time that a child prints.
SPECIFICATION Spec
CONSTANTS
  N = 2
  Faults = {}
  Readies = {0, 1}
  Bursts = {1, 2}
  MaxTime = 6
  StrayPids <- ZeroOrNobody
PROPERTIES ExitTimeIsNow
