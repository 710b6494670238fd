\* Writers against projectors, sealers or a verifier: one deployment of Both in each behaviour.
SPECIFICATION FairSpec
CONSTANTS
  w1 = w1  w2 = w2  w3 = w3  p1 = p1  p2 = p2  z1 = z1  z2 = z2  v1 = v1
  a = a  b = b  c = c  t1 = t1  t2 = t2
  Writers = {w1, w2, w3}  Streams = {a, b, c}  Tenants = {t1, t2}
  TenantOf <- TwoTenants  ChainedBy <- Chaining  Deployments <- Both  AppendsTo <- Appending
  MaxPos = 3  MaxBatch = 2  MaxDismissed = 1  PartitionEnds = {1}
  Projectors = {p1, p2}  BatchSize = 2  MaxBatches = 2  Unlimited = Unlimited
  IncludeDismissed = FALSE  Poison = {3}  Faults = {"dbError", "commitUnknown", "crash"}  MaxFaults = 1
  Sealers = {z1, z2}  Verifiers = {v1}  MaxSealErrors = 1
INVARIANTS OncePerProjector SkipsOnlyLate AnchorsSound
PROPERTIES AuditExact CaughtUp HeadsSealed
CHECK_DEADLOCK FALSE
