\* A worker alone that meets two disruptions, or two that meet none; one writer at a time, nothing requeued.
SPECIFICATION FairSpec
CONSTANTS
  w1 = w1  w2 = w2  w3 = w3  w4 = w4  t1 = t1  t2 = t2  topicA = topicA  topicB = topicB
  Workers = {w1, w2}  NoWorker = NoWorker  Tenants = {t1, t2}  Topics = {topicA}
  NoTopic = NoTopic  AnyTopic = AnyTopic
  MaxPos = 4  MaxId = 4  MaxOpenTx = 1  TenantOf <- TwoTenants  TopicOf <- MixedTopics
  Disruptions = {"rollback", "dismiss", "purge", "archive", "claimUnknown",
                 "dbError", "commitUnknown", "releaseFails", "crash"}
  Deployments <- AloneOrUndisturbed
  NumProjections = 2  FilterOf <- AllAndNotA  ClaimTopic <- ClaimAny  Mode <- ModeOf
  BatchSize = 2  MaxAttempts = 1  IncludeDismissed = FALSE  Poison = {3}
INVARIANT AtLeastOnce
PROPERTY EventuallyResolved
CHECK_DEADLOCK FALSE
