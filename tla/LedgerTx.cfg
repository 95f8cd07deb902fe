CONSTANTS
  u1 = u1
  u2 = u2
  k1 = k1
  k2 = k2
  c1 = c1
  c2 = c2
  c3 = c3
  NoKey = NoKey
  NoReason = NoReason
  None = None
  Users <- MCUsers
  Keys <- MCKeys
  Calls <- MCCalls
  Refs <- MCRefs
  Reasons <- MCReasons
  Mutations <- MCMutations
SPECIFICATION FairSpec
PROPERTIES
  ImplementsLedger
  EveryCallReturns
INVARIANTS
  TypeOK
  BalanceFollowsLedger
  KeyAppliedOnce
  SuccessIsPosted
  LifetimeFollowsLedger
