CONSTANTS
  MaxStreams <- MCMaxStreams
  MaxClientFrames <- MCMaxClientFrames
  MaxData <- MCMaxData
SPECIFICATION Spec
INVARIANT TypeOK
PROPERTY ImplementsReplyProtocol
