CONSTANTS
  MaxStreams <- MCLiveMaxStreams
  MaxClientFrames <- MCMaxClientFrames
  MaxData <- MCMaxData
SPECIFICATION Spec
PROPERTY ProtocolViolationEndsSession
