\* One client keeps its sessions after failed and ambiguous saves, one takes new ones, works on bare snapshots or through a repository; events are dismissed.
SPECIFICATION Spec
CONSTANTS
  c1 = c1  c2 = c2  s1 = s1  s2 = s2
  Clients = {c1, c2}  Streams = {s1}  MaxEvents = 4  EveryNEvents = 2
  Api <- OneBareSnapshots
  Reuse = {c1}  Faults = {"dbError", "commitUnknown"}  MaxFaults = 2
INVARIANTS EventOnce DecidedOnLatest SnapshotFaithful
PROPERTY NothingDropped
CHECK_DEADLOCK FALSE
