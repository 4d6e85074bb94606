CONSTANTS
  Workers = {"w1", "w2"}
  Requests = {"a", "b", "c", "x", "y"}
  Hosts = {"h1", "h2"}
  WorkerOf <- MCWorkerOf
  HostOf <- MCHostOf
  Interval = 2
  Bursts = {1, 2}
  FirstSweep = 1
  Timeouts = {4}
  LastArrival = 2
  Horizon = 12
  Preempts = FALSE
SPECIFICATION FairSpec
INVARIANTS
  DelayedQueue
  RateConforms
PROPERTIES
  EarliestConforming
  DelayedLeaves
