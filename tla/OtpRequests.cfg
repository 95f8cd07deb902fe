SPECIFICATION Spec
CONSTANTS
  e1 = e1
  e2 = e2
  ip1 = ip1
  c1 = c1
  c2 = c2
  None = None
  Emails <- MCEmails
  IPs = {ip1}
  Calls <- MCCalls
  Asks <- MCAsks
  Flows = {"signup", "reset"}
  Cooldown = 1
  Window = 2
  Ttl = 1
  MaxEmail = 2
  MaxIp = 2
  MaxTime = 5
  MaxDelay = 1
INVARIANTS
  TypeOK
  EveryRequestCounted
PROPERTY
  WindowRunsToItsEnd
CHECK_DEADLOCK FALSE
