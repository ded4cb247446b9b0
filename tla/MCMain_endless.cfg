\* RR.c on a table of one entry, which may have nothing to do.
SPECIFICATION Spec
CONSTANTS
  Policies = {"RR"}
  N = 1
  Faults = {}
  Readies = {0, 1}
  Bursts = {0, 1}
  MaxTime = 4
  StrayPids = {0}
  Interval = 1
  HeapWaiting = {0}
  HeapPids = {0}
PROPERTIES EndsWhenAllFinished
