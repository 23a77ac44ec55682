\* A bound and a bare call: the reader of the bare one may stop reading.
SPECIFICATION FairSpec
CONSTANTS
  b = b
  d = d
  w = w
  Call = {b, w}
  Bound = {b}
  MaxVersion = 3
  FeedCap = 1
  None = None
  Decodable <- MCDecodable
PROPERTIES
  FullChannelIsRefreshed
CHECK_DEADLOCK FALSE
