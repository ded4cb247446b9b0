\* Three processes; fork, sched_setaffinity and sched_setscheduler may fail,
\* and an entry may have nothing to do.
SPECIFICATION Spec
CONSTANTS
  N = 3
  Faults = {"fork", "affinity", "priority"}
  Readies = {0, 1, 2}
  Bursts = {0, 1, 2}
  MaxTime = 9
  StrayPids <- ZeroOrNobody
INVARIANTS FifoOrder EndedOnSchedule EndedRanToCompletion
PROPERTIES ForkedAreReaped FollowsIdeal
