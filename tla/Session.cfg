SPECIFICATION Spec
CONSTANTS
  Slots <- MCSlots
  Writes <- MCWrites
  Redirects <- MCRedirects
  Accounts <- MCAccounts
  Emails <- MCEmails
INVARIANT TypeOK
INVARIANT FrameIsConfirmed
INVARIANT CodeFormNamesAddress
