\* Three processes; fork and sched_setaffinity may fail.
SPECIFICATION Spec
CONSTANTS
  N = 3
  Faults = {"fork", "affinity"}
  Readies = {0, 1, 2}
  Bursts = {1, 2, 3}
  MaxTime = 12
  StrayPids <- OnlyZero
INVARIANTS TypeOK ChosenOutranks ShortestFirst
PROPERTIES Terminates FollowsIdeal
