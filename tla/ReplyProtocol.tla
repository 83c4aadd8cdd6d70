--------------------------- MODULE ReplyProtocol -----------------------------
(***************************************************************************)
(* What the proxy promises its client about the reply half of a Proxy RPC  *)
(* (spec.md sections 3 and 5): the frames of each stream id form the      *)
(* sequence                                                                 *)
(*     StartStreamReply  StreamData*  ServerClose?                          *)
(* and a failed StartStream is answered by a StartStreamReply that names   *)
(* no stream.  Frames of different ids interleave freely.                  *)
(*                                                                         *)
(* phase is the client's view of a stream id; delivered is the reply       *)
(* stream in the order the client reads it.                                *)
(***************************************************************************)
EXTENDS Sequences

CONSTANTS Ids    \* the stream ids the proxy may hand out

VARIABLES phase, delivered

\* A new stream: its id has not been handed out before.
Start(i) ==
  /\ phase[i] = "idle"
  /\ phase' = [phase EXCEPT ![i] = "open"]
  /\ delivered' = Append(delivered, [kind |-> "StartReply", id |-> i])

\* A StartStream for a method the registry does not know.
Unimplemented ==
  /\ delivered' = Append(delivered, [kind |-> "StartReply", id |-> 0])
  /\ UNCHANGED phase

\* A reply of the backend on an open stream.
Data(i) ==
  /\ phase[i] = "open"
  /\ delivered' = Append(delivered, [kind |-> "Data", id |-> i])
  /\ UNCHANGED phase

\* The stream's final status; nothing of the id follows it.
Close(i) ==
  /\ phase[i] = "open"
  /\ phase' = [phase EXCEPT ![i] = "closed"]
  /\ delivered' = Append(delivered, [kind |-> "Close", id |-> i])

Init == phase = [i \in Ids |-> "idle"] /\ delivered = <<>>

Next == Unimplemented \/ \E i \in Ids : Start(i) \/ Data(i) \/ Close(i)

Spec == Init /\ [][Next]_<<phase, delivered>>

=============================================================================
