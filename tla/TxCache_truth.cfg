CONSTANTS
  t1 = t1  t2 = t2  NoRec = NoRec
  Tx = {t1, t2}
  Confirmations = 2  RegisterConfirmations = 4
  MaxBlock = 6
SYMMETRY Symmetry
SPECIFICATION Spec
INVARIANTS TypeOK NeverOverstates
