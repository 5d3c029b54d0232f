CONSTANTS
  po = po
  Gates <- TwoGates
  Starts <- OneStart
  Ends <- OneEnd
  Netlists <- LoopNetlists
SPECIFICATION Spec
INVARIANT LoopsAreBroken
CHECK_DEADLOCK FALSE
