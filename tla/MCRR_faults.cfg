\* Three processes, slots of one unit; every call may
\* fail, and an entry may have nothing to do.
SPECIFICATION Spec
CONSTANTS
  N = 3
  Interval = 1
  Faults = {"fork", "affinity", "priority"}
  Readies = {0, 1, 2}
  Bursts = {0, 1, 2}
  MaxTime = 9
  StrayPids <- ZeroOrNobody
INVARIANTS RR_nextReturns WaitIsTurnaround EndedRanToCompletion
PROPERTIES ForkedAreReaped FollowsIdeal
