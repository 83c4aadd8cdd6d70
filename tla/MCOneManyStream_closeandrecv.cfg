CONSTANTS
  NumTargets <- MCNumTargets
  MaxMsgs <- MCMaxMsgs
  MaxCalls <- MCMaxCalls
SPECIFICATION Spec
INVARIANT CloseAndRecvReturnsReplies
