CONSTANTS
  Workers = {"w1", "w2"}
  Requests = {"a", "c", "x"}
  Hosts = {"h1", "h2"}
  WorkerOf <- MCWorkerOf
  HostOf <- MCHostOf
  Interval = 2
  Bursts = {1}
  FirstSweep = 2
  Timeouts = {4}
  LastArrival = 2
  Horizon = 8
  Preempts = TRUE
SPECIFICATION Spec
INVARIANT RateConforms
