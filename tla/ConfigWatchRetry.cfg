\* Three calls, one bound: the first attempt to subscribe fails, the second succeeds.
SPECIFICATION Spec
CONSTANTS
  b = b
  d = d
  w = w
  Call = {b, w, d}
  Bound = {b}
  MaxVersion = 1
  FeedCap = 1
  None = None
  Decodable <- MCDecodable
PROPERTIES
  SecondConsumerServed
CHECK_DEADLOCK FALSE
