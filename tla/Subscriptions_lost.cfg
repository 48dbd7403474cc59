CONSTANTS
  t1 = t1  t2 = t2  g1 = g1
  out = out  in1 = in1  in2 = in2  master = master
  s1 = s1  s2 = s2
  NoRec = NoRec  NoTx = NoTx  NoAddr = NoAddr
  Tx = {t1}
  From <- FromOf  To <- ToOf
  NativeCoin = {t1, t2, g1}
  GatherTx <- GatherOf
  Managed = {in1, in2}  HasKey = {in1, in2}
  ServiceOf <- Serves  Services = {s1, s2}
  ReportNewBlock = {}  ReportIncomingTx = {s1}  ReportOutgoingTx = {}
  GatherToMaster = {s1}
  MinConfirmations = 1
  StoreMayFail = FALSE  SendMayFail = TRUE
  MaxBlock = 2  MaxCrashes = 0
SPECIFICATION FairSpec
PROPERTY AtLeastOnce
