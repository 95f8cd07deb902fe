SPECIFICATION Spec
CONSTANTS
  Slots <- MCSlots
  Writes <- MCWrites
  Redirects <- MCRedirects
  NumUsers = 2
  References <- MCReferences
  StatusFilters <- MCStatus
  PageSize = 1
  MaxEntries = 2
  NumPayments = 2
  Transfer <- MCTransfer
  UsedElsewhere <- MCUsed
  ListLimit = 1
  MaxPackages = 2
  PriceTexts <- MCPriceTexts
  Prices <- MCPrices
  ListFilters <- MCFilters
  ListSize = 1
  MaxListed = 1
  Links <- MCLinks
INVARIANT TypeOK
INVARIANT ConsoleRecovers
INVARIANT ApprovedByItsReference
INVARIANT ReferenceCreditsOnce
INVARIANT PackagesKeepTheirFields
VIEW MCView
