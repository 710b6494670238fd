\* Three sends share a key, two at once or all, over either store; two faults.
SPECIFICATION FairSpec
CONSTANTS
  s1 = s1  s2 = s2  s3 = s3  k1 = k1
  Senders = {s1, s2, s3}  Keys = {k1} NoKey = NoKey  KeyOf <- AllShare
  MaxAttempts = 2  Stores = {"pg", "memory"}  FaultsOf <- BothExposed
  MaxSends = 3  MaxPolls = 1  MaxFaults = 2
INVARIANT SlotsSound
PROPERTIES BusIsExactlyOnce SendEnds
CHECK_DEADLOCK FALSE
