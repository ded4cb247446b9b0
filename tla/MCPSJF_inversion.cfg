\* Two processes: the priorities after a preemption.
SPECIFICATION Safety
CONSTANTS
  N = 2
  Faults = {}
  Readies = {0, 1}
  Bursts = {1, 3}
  MaxTime = 9
  HeapWaiting = {0}
  HeapPids = {0}
INVARIANTS NobodyAboveChosen
