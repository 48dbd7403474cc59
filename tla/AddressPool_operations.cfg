SPECIFICATION Spec
CONSTANTS
  a1 = a1  a2 = a2  a3 = a3  a4 = a4  a5 = a5  a6 = a6  e1 = e1  e2 = e2
  get1 = get1  get2 = get2  get3 = get3  sub1 = sub1  sub2 = sub2
  add1 = add1  key1 = key1  fill1 = fill1  bulk1 = bulk1
  Main = Main  NoOne = NoOne  NoRec = NoRec  NoAddr = NoAddr
  Kind <- KindOf
  EnableAddressGenerate = TRUE
  Addr = {a1, a2, a3, e1}  Ext = {e1}
  Requests = {get1, sub1, key1, bulk1}
  MinFreePoolSize = 1  GeneratePoolUpTo = 1
  NameIssued = TRUE  SaveMayFail = TRUE  GenerateMayFail = TRUE
  MaxVersion = 3  MaxCrashes = 1
SYMMETRY Symmetry
INVARIANTS PoolSound
