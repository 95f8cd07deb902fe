SPECIFICATION Spec
CONSTANTS
  Slots <- MCSlots
  Writes <- MCWrites
  Redirects <- MCRedirects
  MaxKeys = 2
  Filters <- MCFilters
  Limit = 1
  MaxRows = 1
  Packages <- MCPackages
  MaxOrders = 1
INVARIANT TypeOK
INVARIANT ButtonsRecover
INVARIANT RowsAnswerFilters
