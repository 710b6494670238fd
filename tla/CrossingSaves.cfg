\* One client loads and raises, one appends, two streams in either order; a new session after each failure.
SPECIFICATION FairSpec
CONSTANTS
  c1 = c1  c2 = c2  s1 = s1  s2 = s2
  Clients = {c1, c2}  Streams = {s1, s2}  MaxEvents = 4  EveryNEvents = 0
  Api <- OneLoadsOneAppends
  Reuse = {}  Faults = {}  MaxFaults = 0
INVARIANT StreamsGapless
PROPERTIES ConflictIsReal SaveEnds
CHECK_DEADLOCK FALSE
