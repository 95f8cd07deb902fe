CONSTANTS
  p1 = p1
  p2 = p2
  t1 = t1
  t2 = t2
  c1 = c1
  c2 = c2
  a1 = a1
  a2 = a2
  r1 = r1
  r2 = r2
  None = None
  Payments <- MCPayments
  Calls <- MCCalls
  Admins <- TwoAdmins
  Refs = {r1}
  Txns <- MCTxns
  AttachLags = TRUE
  TxnOf <- MixedTxn
SPECIFICATION Spec
SYMMETRY Symmetry
INVARIANTS
  TypeOK
  OwnTransactionCreditedOnce
  PaidOnceEach
PROPERTY
  ImplementsPurchases
CHECK_DEADLOCK FALSE
