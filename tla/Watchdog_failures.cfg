SPECIFICATION Spec
CONSTANTS
  t1 = t1  t2 = t2  managed = managed  late = late  outside = outside
  NoTx = NoTx
  From <- FromOf  To <- ToOf
  KnownAtStart = {managed}
  Tx = {t1}  Unsuccessful = {}
  Handlers = {"subscriptions"}
  Cap = 1  MaxBlock = 3  MaxErrors = 2  MaxCrashes = 1  Lag = 1
  FailingCalls = {"mempool", "blocknum", "single", "catchup", "save"}
INVARIANTS BlockBeforeItsTransactions NoPhantomEvent
PROPERTIES NoBlockTwice LoopOwnsMutex
CHECK_DEADLOCK FALSE
