CONSTANTS
  MaxMail = 5
  PageSize = 2
  MaxPollMessages = 1
  Labelled = {}
  StoreOnly = {}
  MaxFailures = 0
SPECIFICATION MailSpec
INVARIANT
  NoMailIsPassedOver
