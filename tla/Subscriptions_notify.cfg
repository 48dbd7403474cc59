CONSTANTS
  t1 = t1  t2 = t2  g1 = g1
  out = out  in1 = in1  in2 = in2  master = master
  s1 = s1  s2 = s2
  NoRec = NoRec  NoTx = NoTx  NoAddr = NoAddr
  Tx = {t1, g1}
  From <- FromOf  To <- ToOf
  NativeCoin = {t1, t2, g1}
  GatherTx <- GatherOf
  Managed = {in1, in2}  HasKey = {in1, in2}
  ServiceOf <- Serves  Services = {s1, s2}
  ReportNewBlock = {}  ReportIncomingTx = {s1}  ReportOutgoingTx = {}
  GatherToMaster = {s1}
  MinConfirmations = 3
  StoreMayFail = TRUE  SendMayFail = FALSE
  MaxBlock = 4  MaxCrashes = 1
SPECIFICATION FairSpec
INVARIANTS TypeOK TruthfulNotifications
PROPERTIES EventuallyConfirmed EventuallyDelivered
