\* Two workers in batch mode, in per-row mode, or one of each; one event known to fail; any two or three disruptions.
SPECIFICATION Spec
CONSTANTS
  w1 = w1  w2 = w2  w3 = w3  w4 = w4  t1 = t1  t2 = t2  topicA = topicA  topicB = topicB
  Workers = {w1, w2, w3, w4}  NoWorker = NoWorker  Tenants = {t1}  Topics = {topicA, topicB}
  NoTopic = NoTopic  AnyTopic = AnyTopic
  MaxPos = 4  MaxId = 4  MaxOpenTx = 2  TenantOf <- OneTenant  TopicOf <- LateMixedTopics
  Disruptions = {"rollback", "dismiss", "archive", "requeue", "purge", "claimUnknown",
                 "dbError", "commitUnknown", "releaseFails", "abort", "crash"}
  Deployments <- PairsOfWorkers
  NumProjections = 2  FilterOf <- Crossing  ClaimTopic <- ClaimAny  Mode <- ModeOf
  BatchSize = 2  MaxAttempts = 1  IncludeDismissed = FALSE  Poison = {4}
SYMMETRY Interchangeable
INVARIANTS RowExclusive EffectAtMostOnce NoPartialEffect CheckpointCoversEffects AttemptBudget
PROPERTIES CustodySpec EffectsInOrder
CHECK_DEADLOCK FALSE
