\* Two workers, two schedulers, one instance with one timer; any two faults.
SPECIFICATION FairSpec
CONSTANTS
  i1 = i1  a = a  w1 = w1  w2 = w2  s1 = s1  s2 = s2
  Instances = {i1}  Ids = {a}  Workers = {w1, w2}  Schedulers = {s1, s2}
  MaxPos = 2  Correlate <- OneInstance  Starts = {1, 2}
  Reactions <- Timeouts  BatchSize = 1  MaxArms = 1
  Exposed = {"error", "claimUnknown", "commitUnknown", "replay", "orphan", "retention"}  MaxFaults = 2
INVARIANT DeliversOnce
PROPERTIES TransitionsSerial TimersSettle
CHECK_DEADLOCK FALSE
