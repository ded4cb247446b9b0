\* Three processes; the memory for their flags is not zeroed, and that for their
\* pids is (so a flag that is set names the scheduler itself); fork and
\* sched_setaffinity may fail.
SPECIFICATION Spec
CONSTANTS
  N = 3
  Faults = {"fork", "affinity"}
  Readies = {0, 2}
  Bursts = {1, 3}
  MaxTime = 11
  HeapWaiting = {0, 1}
  HeapPids = {0}
INVARIANTS TypeOK OnlyForkedAreCharged OnlyShorterOrEarlierDelay NobodyFinishesMore
PROPERTIES Terminates FollowsIdeal
