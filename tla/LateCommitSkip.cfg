\* One worker, two writers whose commits cross, no faults.
SPECIFICATION Spec
CONSTANTS
  w1 = w1  w2 = w2  w3 = w3  w4 = w4  t1 = t1  t2 = t2  topicA = topicA  topicB = topicB
  Workers = {w1}  NoWorker = NoWorker  Tenants = {t1}  Topics = {topicA}
  NoTopic = NoTopic  AnyTopic = AnyTopic
  MaxPos = 2  MaxId = 2  MaxOpenTx = 2  TenantOf <- OneTenant  TopicOf <- OneTopic
  Disruptions = {}  Deployments <- Alone
  NumProjections = 1  FilterOf <- AllOnce  ClaimTopic <- ClaimAny  Mode <- ModeOf
  BatchSize = 1  MaxAttempts = 1  IncludeDismissed = FALSE  Poison = {}
INVARIANT AtLeastOnce
CHECK_DEADLOCK FALSE
