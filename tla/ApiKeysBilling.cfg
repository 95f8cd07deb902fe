CONSTANTS
  k1 = k1
  k2 = k2
  k3 = k3
  e1 = e1
  e2 = e2
  pay = pay
  adj = adj
  c1 = c1
  c2 = c2
  None = None
  KeyIds <- MCKeyIds
  Events <- MCEvents
  Cost <- MCCost
  Postings <- MCPostings
  Amount <- MCAmount
  Payments <- MCPayments
  Calls <- MCCalls
  MaxStarts = 3
SPECIFICATION Spec
SYMMETRY Symmetry
PROPERTY
  BillingSuspends
CHECK_DEADLOCK FALSE
