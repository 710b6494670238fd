\* One worker, one scheduler, a timer id that is scheduled a second time; no faults.
SPECIFICATION Spec
CONSTANTS
  i1 = i1  a = a  w1 = w1  w2 = w2  s1 = s1  s2 = s2
  Instances = {i1}  Ids = {a}  Workers = {w1}  Schedulers = {s1}
  MaxPos = 2  Correlate <- OneInstance  Starts = {1}
  Reactions <- Renewals  BatchSize = 1  MaxArms = 2
  Exposed = {}  MaxFaults = 0
INVARIANT FiredWasDelivered
CHECK_DEADLOCK FALSE
