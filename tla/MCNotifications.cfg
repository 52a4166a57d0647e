\* Four notifications sent at once, lists of two, writes that fail, and a crash.
SPECIFICATION FairSpec
CONSTANTS
  n1 = n1  n2 = n2  n3 = n3  n4 = n4  Unreadable = Unreadable
  Notes = {n1, n2, n3, n4}
  UserOf <- TheUserOf
  ChannelsOf <- TheChannelsOf
  Enabled = {"in_app", "telegram", "sms"}
  TelegramSet = TRUE
  MaxList = 2
  MaxCrashes = 1
INVARIANTS
  TypeOK
  ListsAreTheNewest
  ResultsAreTrue
PROPERTIES
  OutlivesTheProcess
  EverySendReturns
CHECK_DEADLOCK FALSE
