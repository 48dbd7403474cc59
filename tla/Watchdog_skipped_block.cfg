SPECIFICATION Spec
CONSTANTS
  t1 = t1  t2 = t2  managed = managed  late = late  outside = outside
  NoTx = NoTx
  From <- FromOf  To <- ToOf
  KnownAtStart = {managed}
  Tx = {t1}  Unsuccessful = {}
  Handlers = {"subscriptions"}
  Cap = 1  MaxBlock = 2  MaxErrors = 1  MaxCrashes = 0  Lag = 0
  FailingCalls = {"catchup"}
INVARIANT PersistedCovered
