CONSTANTS
  MaxMail = 5
  PageSize = 5
  MaxPollMessages = 1
  Labelled <- MCLabelled
  StoreOnly <- MCStoreOnly
  MaxFailures = 2
  MaxOutlookMail = 3
  ListLimit = 1
  SeenCap = 2
  MaxOutlookFaults = 2
  b1 = b1
  Binders <- MCBinders
  s1 = s1
  s2 = s2
  s3 = s3
  Senders <- MCSenders
  ThreadOf <- MCThreadOf
  MaxUpdates = 3
  Workers = 2
SPECIFICATION FairSpec
CHECK_DEADLOCK FALSE
INVARIANTS
  NoMailIsPassedOver
  StoredMailIsEmitted
  SeenMailWasEmitted
  EmittedAgainForAReason
  HandledUpdatesAreSomewhereOnce
PROPERTIES
  EmittedOnce
  MailIsRead
  UpdatesAreDelivered
