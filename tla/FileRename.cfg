\* Two vim-style edits: rename away, create anew.
SPECIFICATION FairSpec
CONSTANTS
  Reader = {r}
  Edits = {"rename"}
  MaxVersion = 5
  MaxEvents = 2
  FeedCap = 2
PROPERTIES
  HotReload
CHECK_DEADLOCK FALSE
