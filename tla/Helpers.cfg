\* ErrToCode: codes of four bits, int64 of six; fields narrower than a code, as wide,
\* wider.  Logger: two goroutines, three nodes.  Detach: three calls, two of them with
\* the same options.  EtcdClientProvider: two keys, of three and of two versions.
SPECIFICATION HelpersSpec
CONSTANTS
  CodeBits = 4
  WideBits = 6
  FieldBits = {3, 4, 6}
  MaxFields = 2
  Undefined = 5
  NoError = NoError
  Goroutine = {g1, g2}
  FieldKey = {"TRACE_ID"}
  FieldValue = {"x", "y"}
  TraceId = {"id"}
  MaxNodes = 3
  t1 = t1
  t2 = t2
  t3 = t3
  callback1 = callback1
  callback2 = callback2
  Task = {t1, t2, t3}
  Sharing = {t1, t2}
  Given <- MCGiven
  Outer = Outer
  None = None
  p1 = p1
  p2 = p2
  s1 = s1
  s2 = s2
  s3 = s3
  Provider = {p1, p2}
  Service = {s1, s2, s3}
  MaxUpdate <- MCMaxUpdate
  Lists <- MCLists
  Rejected <- MCRejected
  FromFile = FromFile
  Second = 4
  Bits = 6
INVARIANTS
  TypeOK
  ErrorCarried
  OnlyZeroIsLost
  NothingInvented
  HelpersTypeOK
  LineIsOwn
  CallIsTraced
  PanicContext
  PanicToldAsAsked
  GlobalWasAccepted
  InStep
  OwnClientsKept
  TtlRounded
PROPERTIES
  LatestTakesEffect
CHECK_DEADLOCK FALSE
