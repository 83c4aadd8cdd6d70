CONSTANTS
  MaxStreams <- MCLiveStreams
  MaxClientFrames <- MCLiveFrames
  MaxData <- MCMaxData
SPECIFICATION Spec
PROPERTY RpcCancelTearsDown
PROPERTY EveryStreamGetsServerClose
PROPERTY EveryStartStreamAnswered
\* The handler really can stop with work left: after a CloseSend it hangs
\* in streamSet.Wait (run proxy_closesend); such stops are not errors here.
CHECK_DEADLOCK FALSE
