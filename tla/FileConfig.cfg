\* Every kind of edit; a channel that holds a single response.
SPECIFICATION FairSpec
CONSTANTS
  Reader = {r}
  Edits = {"write", "rename", "replace", "remove"}
  MaxVersion = 7
  MaxEvents = 2
  FeedCap = 1
INVARIANTS
  TypeOK
PROPERTIES
  ImplementsSource
  GetNotBehindFeed
  LastEditIsSent
CHECK_DEADLOCK FALSE
