SPECIFICATION Spec
CONSTANTS
  Uris <- MCUris
  Names = {"checkout"}
  Headers = {"valid"}
  SpanBodies <- MCSpanBodies
  Attributes <- MCAttributes
  ErrorTypes = {"E_ERROR", "E_WARNING"}
  Classes = {"LogicException"}
  Ignored = {}
  Functions <- MCFunctions
  MaxSegments = 2
  MaxCustom = 1
  MaxErrors = 1
  MaxSpans = 3
  MaxItems = 3
  CallTimes = {30}
  Durations = {100, 1000}
  App = "shop"
  Host = "web1"
  Size <- MCSize
  MaxStrings = 14
  MaxFrameSize = 800
  Limits <- MCLimits
  Thresholds = {0, 70}
  CollapseAt = 2
  RepeatedAt = 2
  MinFinding = 20
  MaxFindings = 2
INVARIANTS
  RoundTrip
  OnlySizeRefuses
  RowsCoverSpans
  SelfTimeAddsUp
  HiddenRowsAreShort
  FindingsBlameCode
CHECK_DEADLOCK FALSE
