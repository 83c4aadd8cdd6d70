CONSTANTS
  NumTargets <- MCNumTargets
  MaxMsgs <- MCMaxMsgs
  MaxCalls <- MCMaxCalls
SPECIFICATION Spec
INVARIANT TypeOK
INVARIANT DirectTerminalIsLast
INVARIANT ProxyPreservesPerTargetOrder
