CONSTANTS
  NumTargets <- MCOneTarget
  MaxMsgs <- MCMaxMsgs
  MaxCalls <- MCMaxCalls
SPECIFICATION Spec
INVARIANT DirectAgreesWithProxy
