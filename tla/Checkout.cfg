SPECIFICATION LiveSpec
CONSTANTS
  Slots <- MCSlots
  Writes <- MCWrites
  Redirects <- MCRedirects
INVARIANT CheckoutTypeOK
INVARIANT SuccessIsTrue
PROPERTY PolledSettles
