--------------------------- MODULE MCProxySession ---------------------------
(* Bounds for model checking ProxySession.                                 *)
EXTENDS ProxySession

\* Safety runs: two stream ids, so that two target streams race each other
\* and the dispatcher on replyChan and doneChan; three client frames are
\* enough to start both streams and act on one of them.
MCMaxStreams == 2
MCMaxClientFrames == 3
MCMaxData == 1

\* Violation runs: one stream id; the hangs and the panic need only one.
MCLiveMaxStreams == 1

\* Liveness run: two stream ids, so that one target stream can hold up the
\* other's replies, with two client frames (two StartStreams, or one and
\* a StreamData, ClientClose or ClientCancel) to keep TLC's behaviour
\* graph small; CloseSend and cancelling the RPC are not frames.
MCLiveStreams == 2
MCLiveFrames == 2
=============================================================================
