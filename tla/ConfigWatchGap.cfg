\* One bound call alone: a change between conf.Get and conf.Watch.
SPECIFICATION FairSpec
CONSTANTS
  b = b
  d = d
  w = w
  Call = {d}
  Bound = {d}
  MaxVersion = 2
  FeedCap = 1
  None = None
  Decodable <- MCDecodable
PROPERTIES
  BindFollowsSource
CHECK_DEADLOCK FALSE
