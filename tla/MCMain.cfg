\* All policies on tables of three entries; fork, sched_setaffinity and RR's own
\* sched_setscheduler may fail, and an entry may have nothing to do.
SPECIFICATION Spec
CONSTANTS
  Policies = {"FIFO", "RR", "SJF", "PSJF", "other"}
  N = 3
  Faults = {"fork", "affinity", "own"}
  Readies = {0, 2}
  Bursts = {0, 1, 2}
  MaxTime = 9
  StrayPids = {0}
  Interval = 1
  HeapWaiting = {0}
  HeapPids = {7}
INVARIANTS TypeOK ReturnsOnTime NoneLeftBehind EndlessNeverReturns
PROPERTIES HandsOver MainEnds ChildrenFinish
