CONSTANTS
  None = None
  Nil = Nil
  Missing = Missing
  NegZero = NegZero
  Remnant = Remnant
  Failure = Failure
  Text <- AllTexts
  TextValue <- PlatformTexts
  Chars <- TextLengths
  Number <- Numbers
  Double <- Doubles
  Single = {half}
  Class <- Classes
  Thrown <- ThrownClass
  Frame <- FrameClass
  ScaleKey = "scale"
  ValueKey = "value"
  MaxDocument = 2
  Payload = {small, full, large}
  Size <- Sizes
  Letter = {"a", ".", "B"}
  Type <- PlatformTypes
  Attachment = {"k"}
  Id = {0, 1}
  MaxList = 2
  Bytes <- ByteStrings
  Verb = {"read", "update", "delete", "patch", "none"}
  Code <- Codes
  MaxStream = 2
  half = half
  tenth = tenth
  small = small
  full = full
  large = large
  Provider = {"p1", "p2"}
  Listener = {"l1", "l2"}
  Expire = 2
  Period = 1
  MaxOps = 2
  Caller = {"c1", "c2"}
  Host = {"h1", "h2"}
  Watcher = {"l1"}
  MaxCalls = 3
  Backends = 3
  MaxMultiple = 3
  ConfigListener = {"l1", "l2"}
  Client = {"c1", "c2"}
  Task = {"t1", "t2"}
  Content = {"v1", "v2"}
  NoContent = NoContent
  MaxChange = 2
  App = {"a1", "a2"}
  Interface = {"i1"}
  Storer = {"p1", "p2"}
  Nothing = Nothing
  Blank = Blank
  MaxRevision = 2
  Invocation = {"c1", "c2"}
  Scraper = {"s1"}
  Prober = {"p1"}
  Event = {"config_changes"}
  Check = {"k1", "k2"}
  MaxMove = 3
  MaxAttempt = 2
  Absent = Absent
  Bad = Bad

SPECIFICATION PlatformSpec

INVARIANTS
  
  
  
  MetricsAreTrue

PROPERTY ClosedLetGo

CHECK_DEADLOCK FALSE
