\* A transfer driven by the saga.
SPECIFICATION FairSpec
CONSTANTS
  a = a  b = b  t1 = t1  t2 = t2  c1 = c1  c2 = c2
  Accounts = {a, b}  Transfers = {t1, t2}  Clients = {c1, c2}
  Openings <- SmallOpenings  Amounts = {0, 1}  Orders <- SmallOrders
  MaxAttempts = 2  BatchSize = 2  MaxDispatches = 2
  acme = acme  contoso = contoso  holder = holder  policy = policy  m1 = m1  m2 = m2  d1 = d1  d2 = d2
  Tenants = {acme, contoso}  Holders = {holder}  Policies = {policy}  Claims = {m1, m2}
  Clerks = {d1, d2}  Letters <- AllLetters  Inboxes <- AllInboxes  Allowed = {acme, contoso}
  RetryAttempts = 2  PageSize = 1
  q1 = q1  q2 = q2  e1 = e1  e2 = e2
  Processes = {q1, q2}  Databases = {e1, e2}  Served <- Serves  PlanOf <- Plans
  Partitioning = {q2}  PartitionSize = 2  Ranges <- Spare  Histories <- Olds
  MaxTop = 3  MaxCrashes = 1
  Deployments <- SagaAlone
PROPERTY SagaSeesFollowUps
CHECK_DEADLOCK FALSE
