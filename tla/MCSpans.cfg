SPECIFICATION Spec
CONSTANTS
  Main = main
  Contexts = {main, fiber}
  MaxDepth = 2
  MaxStack = 2
  FunctionMs = 1
  MaxSpans = 2
  MaxCalls = 3
  MaxOpens = 3
  MaxTime = 1
INVARIANTS Paired FunctionTree SpansNest Delivered
PROPERTIES ClosedIsFinal
