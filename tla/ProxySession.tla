---------------------------- MODULE ProxySession ----------------------------
(***************************************************************************)
(* One proxy session: the handler server.Proxy (src/proxy/server/server.go)*)
(* with its three errgroup goroutines -- receive, dispatch and send -- the *)
(* TargetStreamSet the dispatcher owns, one goroutine per target stream,   *)
(* and the client at the other end of the bidirectional gRPC stream.       *)
(*                                                                         *)
(* The three Go channels of the handler are unbuffered:                    *)
(*   requestChan  receive  -> dispatch      (server.go:39)                 *)
(*   replyChan    dispatch, targets -> send (server.go:40)                 *)
(*   doneChan     targets  -> dispatch      (server.go:136)                *)
(* so every transfer over them is one joint step of sender and receiver.   *)
(* Closing a channel is a flag; a send on a closed channel panics and      *)
(* crashes the process (panicked).                                         *)
(*                                                                         *)
(* TargetStreamSet and TargetStream are not under src/: their actions are  *)
(* written from spec.md sections 4.2 and 4.3.  Where the spec leaves a     *)
(* choice open, the model takes the reading most favourable to the code:   *)
(* every blocking channel send of a target stream and of Add also selects  *)
(* on ctx.Done() and gives up when the context is cancelled.               *)
(***************************************************************************)
EXTENDS Naturals, Sequences, FiniteSets

CONSTANTS
  MaxStreams,       \* stream ids the session may allocate: 1..MaxStreams
  MaxClientFrames,  \* frames the client sends over the session
  MaxData           \* StreamData replies a backend produces per stream

ASSUME MaxStreams \in Nat \ {0} /\ MaxClientFrames \in Nat /\ MaxData \in Nat

Ids == 1 .. MaxStreams

\* Request frames (pb.ProxyRequest).  A StartStream names a method the
\* registry knows ("Known") or not; the other frames name one stream id.
\* "Unknown" is a request whose oneof type dispatch has no case for.
StartFrames == [kind : {"StartStream"}, method : {"Known", "Unknown"}]
IdFrames    == [kind : {"StreamData", "ClientClose", "ClientCancel"}, id : Ids]
ClientFrames == StartFrames \cup IdFrames \cup {[kind |-> "Unknown"]}

\* Reply frames (pb.ProxyReply).  A failed StartStreamReply carries id 0.
ReplyFrames ==
  [kind : {"StartReply"}, id : {0} \cup Ids] \cup
  [kind : {"Data", "Close"}, id : Ids]

NoFrame == [kind |-> "None"]

VARIABLES
  \* the client end of the gRPC stream
  inbox,        \* frames the client sent that stream.Recv has not returned
  sent,         \* number of frames the client has sent
  starts,       \* number of StartStream frames among them
  cli,          \* per id: "open", or the client sent "closed" / "cancelled"
  closeSent,    \* the client called CloseSend (stream.Recv then gives EOF)
  rpcCancelled, \* the client cancelled the RPC: stream.Context() is done
  wire,         \* reply frames stream.Send delivered, in order
  \* the three goroutines of Proxy
  recvPc, recvReq,   \* receive: "recv" | "deliver" | "exited", frame held
  reqClosed,         \* requestChan closed (defer in Proxy)
  dispPc, dispReply, \* dispatch: "loop" | "addReply" | "wait" | "exited"
  replyClosed,       \* replyChan closed (defer in Proxy)
  sendPc, sendMsg,   \* send: "recv" | "send" | "exited", frame held
  groupErr,          \* a goroutine returned an error: errgroup cancelled ctx
  \* TargetStreamSet and its target streams
  set,          \* ids in the stream set
  nextId,       \* next stream id Add allocates
  tState,       \* "None" | "Opening" | "Open" | "Closed"
  tHalf,        \* the client half-closed the stream (HalfClosedLocal)
  tCancel,      \* ClientCancel cancelled the stream's context
  tPc,          \* "none" | "run" | "emit" | "publish" | "exited"
  tOut,         \* frame the target is sending on replyChan
  tData,        \* StreamData frames the backend produced
  panicked,     \* a goroutine sent on a closed channel
  protoErr      \* history: a stream-set call returned a protocol error

clientVars == <<inbox, sent, starts, cli, closeSent, rpcCancelled, wire>>
pumpVars   == <<recvPc, recvReq, reqClosed, dispPc, dispReply, replyClosed,
                sendPc, sendMsg, groupErr>>
setVars    == <<set, nextId, tState, tHalf, tCancel, tPc, tOut, tData>>
vars == <<clientVars, pumpVars, setVars, panicked, protoErr>>

-----------------------------------------------------------------------------
(* Derived state                                                           *)

\* The errgroup context: derived from stream.Context() and cancelled by the
\* first goroutine that returns an error, and by group.Wait on return.
ProxyReturned == recvPc = "exited" /\ dispPc = "exited" /\ sendPc = "exited"
CtxDone == rpcCancelled \/ groupErr \/ ProxyReturned

\* A target stream's context: the session context or its own ClientCancel.
Cancelled(i) == CtxDone \/ tCancel[i]

Launched == {i \in Ids : tPc[i] # "none"}
Live     == {i \in Ids : tPc[i] \notin {"none", "exited"}}

\* Ids the client learnt from a successful StartStreamReply.
Started == {wire[n].id : n \in {m \in DOMAIN wire : wire[m].kind = "StartReply"}} \ {0}

-----------------------------------------------------------------------------
(* The client                                                              *)

\* The client sends one request frame, as a well-behaved client does: it
\* names only ids it was given in a StartStreamReply and has not yet seen a
\* ServerClose for, sends nothing on an id after cancelling it, and no data
\* or ClientClose after closing it.  It starts at most MaxStreams streams.
ClientSend(f) ==
  /\ ~panicked
  /\ ~closeSent /\ ~rpcCancelled /\ ~ProxyReturned
  /\ sent < MaxClientFrames
  /\ f.kind \in {"StreamData", "ClientClose", "ClientCancel"} =>
        /\ f.id \in Started
        /\ ~\E n \in DOMAIN wire : wire[n] = [kind |-> "Close", id |-> f.id]
        /\ cli[f.id] = "open" \/ (cli[f.id] = "closed" /\ f.kind = "ClientCancel")
  /\ f.kind = "StartStream" => starts < MaxStreams
  /\ inbox' = Append(inbox, f)
  /\ sent' = sent + 1
  /\ starts' = IF f.kind = "StartStream" THEN starts + 1 ELSE starts
  /\ cli' = CASE f.kind = "ClientClose"  -> [cli EXCEPT ![f.id] = "closed"]
              [] f.kind = "ClientCancel" -> [cli EXCEPT ![f.id] = "cancelled"]
              [] OTHER                   -> cli
  /\ UNCHANGED <<closeSent, rpcCancelled, wire, pumpVars, setVars, panicked, protoErr>>

ClientCloseSend ==
  /\ ~panicked
  /\ ~closeSent /\ ~rpcCancelled /\ ~ProxyReturned
  /\ closeSent' = TRUE
  /\ UNCHANGED <<inbox, sent, starts, cli, rpcCancelled, wire, pumpVars, setVars, panicked, protoErr>>

\* The client cancels the RPC (or its connection breaks).
ClientCancelRPC ==
  /\ ~panicked
  /\ ~rpcCancelled /\ ~ProxyReturned
  /\ rpcCancelled' = TRUE
  /\ UNCHANGED <<inbox, sent, starts, cli, closeSent, wire, pumpVars, setVars, panicked, protoErr>>

-----------------------------------------------------------------------------
(* receive (server.go:105-129), run by the second goroutine of Proxy,      *)
(* whose defer closes requestChan when receive returns (server.go:62-70).  *)
(* stream.Recv observes stream.Context() only, not the errgroup context.   *)

\* receive returns: requestChan is closed, and an error cancels the group.
ReceiveReturn(err) ==
  /\ recvPc' = "exited"
  /\ reqClosed' = TRUE
  /\ groupErr' = (groupErr \/ err)

\* stream.Recv returns the next frame.
ReceiveFrame ==
  /\ ~panicked
  /\ recvPc = "recv" /\ ~rpcCancelled /\ inbox # <<>>
  /\ recvPc' = "deliver"
  /\ recvReq' = Head(inbox)
  /\ inbox' = Tail(inbox)
  /\ UNCHANGED <<sent, starts, cli, closeSent, rpcCancelled, wire, reqClosed, dispPc,
                 dispReply, replyClosed, sendPc, sendMsg, groupErr, setVars, panicked, protoErr>>

\* stream.Recv returns io.EOF after the client's CloseSend: return nil.
ReceiveEOF ==
  /\ ~panicked
  /\ recvPc = "recv" /\ ~rpcCancelled /\ inbox = <<>> /\ closeSent
  /\ ReceiveReturn(FALSE)
  /\ UNCHANGED <<clientVars, recvReq, dispPc, dispReply, replyClosed, sendPc,
                 sendMsg, setVars, panicked, protoErr>>

\* stream.Recv fails because the RPC was cancelled: return err.
ReceiveError ==
  /\ ~panicked
  /\ recvPc = "recv" /\ rpcCancelled
  /\ ReceiveReturn(TRUE)
  /\ UNCHANGED <<clientVars, recvReq, dispPc, dispReply, replyClosed, sendPc,
                 sendMsg, setVars, panicked, protoErr>>

\* Mutant: receive hands the request over with a plain requestChan <- req,
\* without the ctx.Done() case.
ReceiveCtxDoneMissing ==
  /\ ~panicked
  /\ recvPc = "deliver" /\ FALSE
  /\ UNCHANGED vars

\* The select on requestChan <- req takes the <-ctx.Done() case.
ReceiveCtxDone ==
  /\ ~panicked
  /\ recvPc = "deliver" /\ CtxDone
  /\ ReceiveReturn(TRUE)
  /\ recvReq' = NoFrame
  /\ UNCHANGED <<clientVars, dispPc, dispReply, replyClosed, sendPc, sendMsg,
                 setVars, panicked, protoErr>>

-----------------------------------------------------------------------------
(* send (server.go:93-100), run by the first goroutine of Proxy.           *)

\* Mutant: send returns after relaying one message instead of ranging.
SendRelayOnce ==
  /\ ~panicked
  /\ sendPc = "send" /\ ~rpcCancelled
  /\ wire' = Append(wire, sendMsg)
  /\ sendPc' = "exited"
  /\ sendMsg' = NoFrame
  /\ UNCHANGED <<inbox, sent, starts, cli, closeSent, rpcCancelled, recvPc, recvReq,
                 reqClosed, dispPc, dispReply, replyClosed, groupErr, setVars, panicked, protoErr>>

\* stream.Send delivers the frame the pump took from replyChan.
SendRelay ==
  /\ ~panicked
  /\ sendPc = "send" /\ ~rpcCancelled
  /\ wire' = Append(wire, sendMsg)
  /\ sendPc' = "recv"
  /\ sendMsg' = NoFrame
  /\ UNCHANGED <<inbox, sent, starts, cli, closeSent, rpcCancelled, recvPc, recvReq,
                 reqClosed, dispPc, dispReply, replyClosed, groupErr, setVars, panicked, protoErr>>

\* stream.Send fails: send returns err and the group is cancelled.
SendError ==
  /\ ~panicked
  /\ sendPc = "send" /\ rpcCancelled
  /\ sendPc' = "exited"
  /\ sendMsg' = NoFrame
  /\ groupErr' = TRUE
  /\ UNCHANGED <<clientVars, recvPc, recvReq, reqClosed, dispPc, dispReply,
                 replyClosed, setVars, panicked, protoErr>>

\* Mutant: send loops on msg := <-replyChan without the ok check of range,
\* so after the close it takes the nil zero value and sends it.
SendExitReadsNil ==
  /\ ~panicked
  /\ sendPc = "recv" /\ replyClosed
  /\ sendPc' = "send"
  /\ sendMsg' = NoFrame
  /\ UNCHANGED <<clientVars, recvPc, recvReq, reqClosed, dispPc, dispReply,
                 replyClosed, groupErr, setVars, panicked, protoErr>>

\* range replyChan ends when the channel is closed: send returns nil.
SendExit ==
  /\ ~panicked
  /\ sendPc = "recv" /\ replyClosed
  /\ sendPc' = "exited"
  /\ UNCHANGED <<clientVars, recvPc, recvReq, reqClosed, dispPc, dispReply,
                 replyClosed, sendMsg, groupErr, setVars, panicked, protoErr>>

\* The send pump takes frame m off replyChan (the receiving half of a
\* transfer whose sending half is the caller's action).
SendTake(m) ==
  /\ sendPc = "recv" /\ ~replyClosed
  /\ sendPc' = "send"
  /\ sendMsg' = m

-----------------------------------------------------------------------------
(* TargetStreamSet operations the dispatcher calls (spec.md 4.3).          *)

\* Add: a known method gets the next id, a stream in Opening state, and a
\* successful StartStreamReply; an unknown one a failed reply and no id.
SetAdd(f) ==
  IF f.method = "Known"
  THEN /\ set' = set \cup {nextId}
       /\ nextId' = nextId + 1
       /\ tState' = [tState EXCEPT ![nextId] = "Opening"]
       /\ dispReply' = [kind |-> "StartReply", id |-> nextId]
  ELSE /\ dispReply' = [kind |-> "StartReply", id |-> 0]
       /\ UNCHANGED <<set, nextId, tState>>

\* Send fails on an id not in the set, or one that takes no more input.
SetSendFails(id) == id \notin set \/ tState[id] = "Closed" \/ tHalf[id]

\* ClientCloseAll half-closes every stream of the set that is not Closed.
ClientCloseAll ==
  tHalf' = [i \in Ids |-> tHalf[i] \/ (i \in set /\ tState[i] # "Closed")]

-----------------------------------------------------------------------------
(* dispatch (server.go:132-184), run by the third goroutine of Proxy,      *)
(* whose defer closes replyChan when dispatch returns (server.go:74-82).   *)
(* Go picks uniformly among the ready cases of the select.                 *)

DispatchReturn(err) ==
  /\ dispPc' = "exited"
  /\ replyClosed' = TRUE
  /\ groupErr' = (groupErr \/ err)

\* case <-ctx.Done(): return ctx.Err()
DispatchCtxDone ==
  /\ ~panicked
  /\ dispPc = "loop" /\ CtxDone
  /\ DispatchReturn(TRUE)
  /\ UNCHANGED <<clientVars, recvPc, recvReq, reqClosed, dispReply, sendPc,
                 sendMsg, setVars, panicked, protoErr>>

\* case closedStream := <-doneChan: streamSet.Remove(closedStream).
\* Joint step with target stream i publishing its id on doneChan.
DispatchRemove(i) ==
  /\ ~panicked
  /\ dispPc = "loop" /\ tPc[i] = "publish"
  /\ set' = set \ {i}
  /\ tPc' = [tPc EXCEPT ![i] = "exited"]
  /\ UNCHANGED <<clientVars, pumpVars, nextId, tState, tHalf, tCancel, tOut, tData, panicked, protoErr>>

\* case req, ok := <-requestChan with ok: joint step with receive.
TakeRequest(kind) ==
  /\ dispPc = "loop" /\ recvPc = "deliver" /\ recvReq.kind = kind
  /\ recvPc' = "recv"
  /\ recvReq' = NoFrame

\* Mutant: Add launches the target stream before it sends its reply.
DispatchStartStreamLaunchFirst ==
  /\ ~panicked
  /\ TakeRequest("StartStream")
  /\ SetAdd(recvReq)
  /\ dispPc' = "addReply"
  /\ tPc' = IF recvReq.method = "Known" THEN [tPc EXCEPT ![nextId] = "run"] ELSE tPc
  /\ UNCHANGED <<clientVars, reqClosed, replyClosed, sendPc, sendMsg, groupErr,
                 tHalf, tCancel, tOut, tData, panicked, protoErr>>

\* StartStream: streamSet.Add, which then sends its reply on replyChan.
DispatchStartStream ==
  /\ ~panicked
  /\ TakeRequest("StartStream")
  /\ SetAdd(recvReq)
  /\ dispPc' = "addReply"
  /\ UNCHANGED <<clientVars, reqClosed, replyClosed, sendPc, sendMsg, groupErr,
                 tHalf, tCancel, tPc, tOut, tData, panicked, protoErr>>

\* Add's reply reaches the send pump; Add then launches the target stream.
DispatchAddReply ==
  /\ ~panicked
  /\ dispPc = "addReply"
  /\ SendTake(dispReply)
  /\ dispPc' = "loop"
  /\ dispReply' = NoFrame
  /\ tPc' = IF dispReply.id = 0 THEN tPc ELSE [tPc EXCEPT ![dispReply.id] = "run"]
  /\ UNCHANGED <<clientVars, recvPc, recvReq, reqClosed, replyClosed, groupErr,
                 set, nextId, tState, tHalf, tCancel, tOut, tData, panicked, protoErr>>

\* Add gives up its reply on a cancelled context and still launches.
DispatchAddCtxDone ==
  /\ ~panicked
  /\ dispPc = "addReply" /\ CtxDone
  /\ dispPc' = "loop"
  /\ dispReply' = NoFrame
  /\ tPc' = IF dispReply.id = 0 THEN tPc ELSE [tPc EXCEPT ![dispReply.id] = "run"]
  /\ UNCHANGED <<clientVars, recvPc, recvReq, reqClosed, replyClosed, sendPc,
                 sendMsg, groupErr, set, nextId, tState, tHalf, tCancel, tOut, tData, panicked, protoErr>>

\* StreamData: streamSet.Send; an error is returned from dispatch.
DispatchStreamData ==
  /\ ~panicked
  /\ TakeRequest("StreamData")
  /\ IF SetSendFails(recvReq.id)
     THEN DispatchReturn(TRUE)
     ELSE UNCHANGED <<dispPc, replyClosed, groupErr>>
  /\ protoErr' = (protoErr \/ SetSendFails(recvReq.id))
  /\ UNCHANGED <<clientVars, reqClosed, dispReply, sendPc, sendMsg, setVars, panicked>>

\* ClientCancel: streamSet.Cancel cancels the stream's context.
DispatchClientCancel ==
  LET id == recvReq.id IN
  /\ ~panicked
  /\ TakeRequest("ClientCancel")
  /\ IF id \notin set
     THEN DispatchReturn(TRUE) /\ UNCHANGED tCancel
     ELSE tCancel' = [tCancel EXCEPT ![id] = TRUE]
            /\ UNCHANGED <<dispPc, replyClosed, groupErr>>
  /\ protoErr' = (protoErr \/ id \notin set)
  /\ UNCHANGED <<clientVars, reqClosed, dispReply, sendPc, sendMsg,
                 set, nextId, tState, tHalf, tPc, tOut, tData, panicked>>

\* ClientClose: streamSet.ClientClose half-closes the stream.
DispatchClientClose ==
  LET id == recvReq.id IN
  /\ ~panicked
  /\ TakeRequest("ClientClose")
  /\ IF id \notin set
     THEN DispatchReturn(TRUE) /\ UNCHANGED tHalf
     ELSE tHalf' = [tHalf EXCEPT ![id] = (tState[id] # "Closed")]
            /\ UNCHANGED <<dispPc, replyClosed, groupErr>>
  /\ protoErr' = (protoErr \/ id \notin set)
  /\ UNCHANGED <<clientVars, reqClosed, dispReply, sendPc, sendMsg,
                 set, nextId, tState, tCancel, tPc, tOut, tData, panicked>>

\* default: an unhandled request type is returned as an error.
DispatchUnknown ==
  /\ ~panicked
  /\ TakeRequest("Unknown")
  /\ DispatchReturn(TRUE)
  /\ UNCHANGED <<clientVars, reqClosed, dispReply, sendPc, sendMsg, setVars, panicked, protoErr>>

\* requestChan closed (!ok): ClientCloseAll, then Wait.
DispatchRequestClosed ==
  /\ ~panicked
  /\ dispPc = "loop" /\ reqClosed
  /\ ClientCloseAll
  /\ dispPc' = "wait"
  /\ UNCHANGED <<clientVars, recvPc, recvReq, reqClosed, dispReply, replyClosed,
                 sendPc, sendMsg, groupErr, set, nextId, tState, tCancel, tPc,
                 tOut, tData, panicked, protoErr>>

\* Wait returns once every launched target stream has finished; dispatch
\* returns ctx.Err(), an error only if the context is cancelled.
DispatchWaitDone ==
  /\ ~panicked
  /\ dispPc = "wait" /\ Live = {}
  /\ DispatchReturn(CtxDone)
  /\ UNCHANGED <<clientVars, recvPc, recvReq, reqClosed, dispReply, sendPc,
                 sendMsg, setVars, panicked, protoErr>>

-----------------------------------------------------------------------------
(* A target stream's goroutine (spec.md 4.2): it owns the backend call and *)
(* sends its StreamData and its one ServerClose on replyChan, then         *)
(* publishes its id on doneChan.                                           *)

\* The target stream closes with a final status and starts sending it.
CloseWith(i) ==
  /\ tState' = [tState EXCEPT ![i] = "Closed"]
  /\ tPc' = [tPc EXCEPT ![i] = "emit"]
  /\ tOut' = [tOut EXCEPT ![i] = [kind |-> "Close", id |-> i]]

\* The backend dial finishes: Opening -> Open, or Closed on failure.
TargetDial(i) ==
  /\ ~panicked
  /\ tPc[i] = "run" /\ tState[i] = "Opening" /\ ~Cancelled(i)
  /\ \/ tState' = [tState EXCEPT ![i] = "Open"] /\ UNCHANGED <<tPc, tOut>>
     \/ CloseWith(i)
  /\ UNCHANGED <<clientVars, pumpVars, set, nextId, tHalf, tCancel, tData, panicked, protoErr>>

\* The backend produces a response, to be sent as StreamData.
TargetData(i) ==
  /\ ~panicked
  /\ tPc[i] = "run" /\ tState[i] = "Open" /\ ~Cancelled(i)
  /\ tData[i] < MaxData
  /\ tPc' = [tPc EXCEPT ![i] = "emit"]
  /\ tOut' = [tOut EXCEPT ![i] = [kind |-> "Data", id |-> i]]
  /\ tData' = [tData EXCEPT ![i] = @ + 1]
  /\ UNCHANGED <<clientVars, pumpVars, set, nextId, tState, tHalf, tCancel, panicked, protoErr>>

\* The backend call ends with its own status: Open or HalfClosedLocal -> Closed.
TargetEnd(i) ==
  /\ ~panicked
  /\ tPc[i] = "run" /\ tState[i] = "Open" /\ ~Cancelled(i)
  /\ CloseWith(i)
  /\ UNCHANGED <<clientVars, pumpVars, set, nextId, tHalf, tCancel, tData, panicked, protoErr>>

\* The stream's context is cancelled: the backend call is aborted, a queued
\* StreamData is dropped and the final status is CANCELLED.
TargetCancel(i) ==
  /\ ~panicked
  /\ tPc[i] \in {"run", "emit"} /\ tState[i] # "Closed" /\ Cancelled(i)
  /\ CloseWith(i)
  /\ UNCHANGED <<clientVars, pumpVars, set, nextId, tHalf, tCancel, tData, panicked, protoErr>>

\* The frame in hand reaches the send pump over replyChan.
TargetEmit(i) ==
  /\ ~panicked
  /\ tPc[i] = "emit"
  /\ SendTake(tOut[i])
  /\ tPc' = [tPc EXCEPT ![i] = IF tOut[i].kind = "Close" THEN "publish" ELSE "run"]
  /\ tOut' = [tOut EXCEPT ![i] = NoFrame]
  /\ UNCHANGED <<clientVars, recvPc, recvReq, reqClosed, dispPc, dispReply,
                 replyClosed, groupErr, set, nextId, tState, tHalf, tCancel, tData,
                 panicked, protoErr>>

\* The select takes <-ctx.Done() of the session context: the ServerClose
\* is given up.  (A ClientCancel still gets its CANCELLED ServerClose.)
TargetEmitCtxDone(i) ==
  /\ ~panicked
  /\ tPc[i] = "emit" /\ tOut[i].kind = "Close" /\ CtxDone
  /\ tPc' = [tPc EXCEPT ![i] = "publish"]
  /\ tOut' = [tOut EXCEPT ![i] = NoFrame]
  /\ UNCHANGED <<clientVars, pumpVars, set, nextId, tState, tHalf, tCancel, tData,
                 panicked, protoErr>>

\* replyChan is closed: the send case of the select panics.
TargetEmitPanic(i) ==
  /\ ~panicked
  /\ tPc[i] = "emit" /\ replyClosed
  /\ panicked' = TRUE
  /\ UNCHANGED <<clientVars, pumpVars, setVars, protoErr>>

\* The select on doneChan <- id takes <-ctx.Done(): the stream exits
\* without being removed from the set.
TargetPublishCtxDone(i) ==
  /\ ~panicked
  /\ tPc[i] = "publish" /\ CtxDone
  /\ tPc' = [tPc EXCEPT ![i] = "exited"]
  /\ UNCHANGED <<clientVars, pumpVars, set, nextId, tState, tHalf, tCancel, tOut,
                 tData, panicked, protoErr>>

-----------------------------------------------------------------------------
(* The specification                                                       *)

Init ==
  /\ inbox = <<>> /\ sent = 0 /\ starts = 0 /\ cli = [i \in Ids |-> "open"]
  /\ closeSent = FALSE /\ rpcCancelled = FALSE /\ wire = <<>>
  /\ recvPc = "recv" /\ recvReq = NoFrame /\ reqClosed = FALSE
  /\ dispPc = "loop" /\ dispReply = NoFrame /\ replyClosed = FALSE
  /\ sendPc = "recv" /\ sendMsg = NoFrame /\ groupErr = FALSE
  /\ set = {} /\ nextId = 1
  /\ tState = [i \in Ids |-> "None"]
  /\ tHalf = [i \in Ids |-> FALSE]
  /\ tCancel = [i \in Ids |-> FALSE]
  /\ tPc = [i \in Ids |-> "none"]
  /\ tOut = [i \in Ids |-> NoFrame]
  /\ tData = [i \in Ids |-> 0]
  /\ panicked = FALSE /\ protoErr = FALSE

\* The steps of the proxy process: everything but the client.
ServerStep ==
  \/ ReceiveFrame \/ ReceiveEOF \/ ReceiveError \/ ReceiveCtxDone
  \/ SendRelay \/ SendError \/ SendExit
  \/ DispatchCtxDone \/ DispatchStartStream \/ DispatchAddReply
  \/ DispatchAddCtxDone \/ DispatchStreamData \/ DispatchClientCancel
  \/ DispatchClientClose \/ DispatchUnknown \/ DispatchRequestClosed
  \/ DispatchWaitDone
  \/ \E i \in Ids :
       \/ DispatchRemove(i)
       \/ TargetDial(i) \/ TargetData(i) \/ TargetEnd(i) \/ TargetCancel(i)
       \/ TargetEmit(i) \/ TargetEmitCtxDone(i) \/ TargetEmitPanic(i)
       \/ TargetPublishCtxDone(i)

ClientStep ==
  \/ \E f \in ClientFrames : ClientSend(f)
  \/ ClientCloseSend
  \/ ClientCancelRPC

\* The handler has returned and every target stream has exited, or the
\* process has crashed: nothing is left to run.
Terminated ==
  /\ panicked \/ (ProxyReturned /\ Live = {})
  /\ UNCHANGED vars

Next == ServerStep \/ ClientStep \/ Terminated

\* The Go scheduler runs every runnable goroutine, and the backends answer:
\* each step of the proxy process is weakly fair.  The client is not.
Fairness ==
  /\ WF_vars((ReceiveFrame \/ ReceiveEOF \/ ReceiveError \/ ReceiveCtxDone))
  /\ WF_vars((SendRelay \/ SendError \/ SendExit))
  /\ WF_vars((DispatchCtxDone \/ DispatchStartStream \/ DispatchAddReply
                            \/ DispatchAddCtxDone \/ DispatchStreamData
                            \/ DispatchClientCancel \/ DispatchClientClose
                            \/ DispatchUnknown \/ DispatchRequestClosed
                            \/ DispatchWaitDone \/ \E i \in Ids : DispatchRemove(i)))
  /\ \A i \in Ids :
       WF_vars((TargetDial(i) \/ TargetEnd(i) \/ TargetCancel(i)
                             \/ TargetEmit(i) \/ TargetEmitCtxDone(i)
                             \/ TargetEmitPanic(i) \/ TargetPublishCtxDone(i)))

Spec == Init /\ [][Next]_vars /\ Fairness

-----------------------------------------------------------------------------
(* Properties                                                              *)

\* Every frame stream.Send writes is a ProxyReply of one of the three kinds,
\* never the zero value a receive on the closed replyChan would give.
TypeOK ==
  /\ inbox \in Seq(ClientFrames) /\ sent \in 0 .. MaxClientFrames
  /\ starts \in 0 .. MaxStreams
  /\ closeSent \in BOOLEAN /\ rpcCancelled \in BOOLEAN
  /\ wire \in Seq(ReplyFrames)
  /\ recvPc \in {"recv", "deliver", "exited"}
  /\ recvReq \in ClientFrames \cup {NoFrame}
  /\ dispPc \in {"loop", "addReply", "wait", "exited"}
  /\ dispReply \in ReplyFrames \cup {NoFrame}
  /\ sendPc \in {"recv", "send", "exited"}
  /\ sendMsg \in ReplyFrames \cup {NoFrame}
  /\ {reqClosed, replyClosed, groupErr, panicked} \subseteq BOOLEAN
  /\ set \subseteq Ids /\ nextId \in 1 .. MaxStreams + 1
  /\ tState \in [Ids -> {"None", "Opening", "Open", "Closed"}]
  /\ tHalf \in [Ids -> BOOLEAN] /\ tCancel \in [Ids -> BOOLEAN]
  /\ tPc \in [Ids -> {"none", "run", "emit", "publish", "exited"}]
  /\ tOut \in [Ids -> ReplyFrames \cup {NoFrame}]
  /\ tData \in [Ids -> 0 .. MaxData]

\* Positions on the wire of the frames of kind k for stream id i.
At(k, i) == {n \in DOMAIN wire : wire[n].kind = k /\ wire[n].id = i}

\* The client's view of stream id i, from the frames it has read.
WirePhase ==
  LET read == {wire[n] : n \in DOMAIN wire}
  IN [i \in Ids |-> IF [kind |-> "Close", id |-> i] \in read THEN "closed"
                   ELSE IF [kind |-> "StartReply", id |-> i] \in read THEN "open"
                   ELSE "idle"]

Reply == INSTANCE ReplyProtocol WITH phase <- WirePhase, delivered <- wire

\* The session implements the reply protocol of spec.md 3/5: every frame
\* the send pump writes (server.go:95) extends each stream's sequence
\* StartStreamReply StreamData* ServerClose?, although a stream's frames
\* come from two goroutines (dispatch's Add and the target stream) and are
\* serialised by replyChan.
ImplementsReplyProtocol == Reply!Spec

\* No goroutine ever sends on replyChan after dispatch's deferred close
\* (server.go:78) has closed it: such a send panics and kills the server.
ReplyChanNeverSentAfterClose == ~panicked

\* When the client calls CloseSend (io.EOF at server.go:111), the handler
\* returns: dispatch half-closes the streams, Wait sees them finish, and
\* Proxy returns, without any further help from the client.
CloseSendEndsSession ==
  closeSent ~> (ProxyReturned \/ rpcCancelled \/ panicked)

\* When the client cancels the RPC, every goroutine of the session, target
\* streams included, exits (or the process has crashed).
RpcCancelTearsDown ==
  rpcCancelled ~> ((ProxyReturned /\ Live = {}) \/ panicked)


\* spec.md 4.2/8: every stream the proxy opened gets its final status in a
\* ServerClose on the wire, unless the session itself is torn down: the
\* backend ends, the target stream sends the status, the send pump relays it.
EveryStreamGetsServerClose ==
  \A i \in Ids :
    (tPc[i] = "run") ~> (At("Close", i) # {} \/ CtxDone \/ panicked)

\* spec.md 8: every StartStream the client sends is answered by exactly one
\* StartStreamReply (the "at most one" half is ImplementsReplyProtocol),
\* unless the session is torn down first.  The frame crosses receive,
\* requestChan, dispatch's select (server.go:138-166), Add's send on
\* replyChan, which it shares with every target, and the send pump.
EveryStartStreamAnswered ==
  \A n \in 1 .. MaxStreams :
    (starts >= n) ~>
      (Cardinality({m \in DOMAIN wire : wire[m].kind = "StartReply"}) >= n
       \/ CtxDone \/ panicked)

\* spec.md 4.4/7: a protocol violation found by dispatch (server.go:168-178)
\* cancels the scope and the session returns INTERNAL, whatever the client
\* does next.  receive, blocked in stream.Recv (server.go:110), watches the
\* RPC's context and not the group's.
ProtocolViolationEndsSession ==
  protoErr ~> (ProxyReturned \/ panicked)

\* A well-behaved client (one that never names an id it has seen a
\* ServerClose for, nor acts on a stream it closed or cancelled) never has
\* its session torn down by a protocol error from streamSet.Send,
\* ClientClose or Cancel (server.go:167-178).
WellBehavedClientKeepsSession == ~protoErr

=============================================================================
