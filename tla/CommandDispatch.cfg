\* One command, a dispatcher of each claim strategy; any two faults.  The bus is asked 13 times at most.
SPECIFICATION FairSpec
CONSTANTS
  r1 = r1  d1 = d1  d2 = d2
  Rows = {r1}  Dispatchers = {d1, d2}  Fair = {d2}  TenantOf <- OneTenant
  BatchSize = 1  MaxAttempts = 2  MaxSends = 14
  Exposed = {"claimUnknown", "ackFails", "settleFails", "sendUnknown", "crash", "requeue", "retention", "forget"}
  MaxFaults = 2
INVARIANTS NothingLost AppliedOnce
PROPERTY CommandsEnd
CHECK_DEADLOCK FALSE
