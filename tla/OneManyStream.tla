---------------------------- MODULE OneManyStream ----------------------------
(***************************************************************************)
(* The streaming OneMany client methods that protoc-gen-go-grpcproxy       *)
(* emits for every RPC that is not unary                                   *)
(* (src/proxy/protoc-gen-go-grpcproxy/main.go:143-266):                    *)
(*   Recv()          for server-streaming and bidi methods;                *)
(*   CloseAndRecv()  for client-streaming methods.                         *)
(* The module models the generated code, not the generator: each action is *)
(* one call of a generated method, and its definition maps to the g.P     *)
(* lines that emit that code.                                              *)
(*                                                                         *)
(* Three callers run on the same backend behaviour:                        *)
(*   d  Recv on a direct connection (x.cc.Direct(), one target);           *)
(*   p  Recv through the proxy, over NumTargets targets;                   *)
(*   c  CloseAndRecv through the proxy, over NumTargets targets.           *)
(* proxy.Conn is not under src/: what its ClientStream.RecvMsg returns     *)
(* through the proxy is written from spec.md 4.6 -- a batch of one Ret per *)
(* target that produced a frame, a Ret carrying the error of a target that *)
(* failed, nothing for a target that ended OK, and io.EOF once every       *)
(* target has ended.                                                       *)
(***************************************************************************)
EXTENDS Naturals, Sequences, SequencesExt

CONSTANTS
  NumTargets,   \* targets of the proxy.Conn; Index runs over 1..NumTargets
  MaxMsgs,      \* messages a backend stream sends before its status
  MaxCalls      \* Recv calls a caller makes

ASSUME NumTargets \in Nat \ {0} /\ MaxMsgs \in Nat /\ MaxCalls \in Nat

Idx == 1 .. NumTargets

\* A message on the wire decodes into the method's output type ("Good") or
\* does not ("Bad", e.g. a backend built from another schema).
Payloads == {"Good", "Bad"}

\* A backend stream ends with an OK status (io.EOF to the reader) or an
\* error status.
Finals == {"OK", "Err"}

\* An error value: nil, io.EOF, the backend's status, or the error made by
\* fmt.Errorf("can't decode any response ...") or by the codec.
Errors == {"nil", "EOF", "Err", "Decode"}

\* A ManyResponse: Target/Index, Resp ("Empty" when nothing decoded), Error.
ManyResponses == [index : Idx, resp : Payloads \cup {"Empty"}, error : Errors]

VARIABLES
  script,   \* per target: the messages its backend stream sends
  final,    \* per target: the status its backend stream ends with
  reply,    \* per target, client-streaming: its one reply, or "Err"
  \* caller d: Recv on a direct connection to target 1
  dPos, directDone, dCalls, dOut, dErr,
  \* caller p: Recv through the proxy
  pPos, pFin, pCalls, pOut, pErr,
  \* caller c: CloseAndRecv through the proxy
  cPc, cFin, eof, cRet, cResult, cErr

backend == <<script, final, reply>>

\* The callers share nothing but the backend behaviour, so they are run one
\* after the other: d, then p, then c.
DStopped == dErr # "nil" \/ dCalls = MaxCalls
PStopped == pErr # "nil" \/ pCalls = MaxCalls
dVars == <<dPos, directDone, dCalls, dOut, dErr>>
pVars == <<pPos, pFin, pCalls, pOut, pErr>>
cVars == <<cPc, cFin, eof, cRet, cResult, cErr>>
vars == <<backend, dVars, pVars, cVars>>

-----------------------------------------------------------------------------
(* The generated conversion of one proxy.Ret into a ManyResponse           *)
(* (main.go:246-258): the Ret's error is kept; without one, the payload is *)
(* unmarshalled and a failure replaces the error.                          *)

\* A proxy.Ret: Index, a payload or "None", and an error.
Ret(i, resp, err) == [index |-> i, resp |-> resp, error |-> err]

\* Mutant: the payload is unmarshalled whatever the Ret's error.
ConvertDecodeAlways(r) ==
  IF r.resp = "Good"
  THEN [index |-> r.index, resp |-> "Good", error |-> "nil"]
  ELSE [index |-> r.index, resp |-> "Empty", error |-> "Decode"]

Convert(r) ==
  IF r.error = "nil"
  THEN IF r.resp = "Good"
       THEN [index |-> r.index, resp |-> "Good", error |-> "nil"]
       ELSE [index |-> r.index, resp |-> "Empty", error |-> "Decode"]
  ELSE [index |-> r.index, resp |-> "Empty", error |-> r.error]

\* The Rets a target yields through the proxy, in order (spec.md 4.6).
RetsOf(i) ==
  [n \in 1 .. Len(script[i]) |-> Ret(i, script[i][n], "nil")]
    \o (IF final[i] = "Err" THEN <<Ret(i, "None", "Err")>> ELSE <<>>)

-----------------------------------------------------------------------------
(* Caller d: Recv on a direct connection (main.go:196-220).  RecvMsg on    *)
(* the plain grpc.ClientStream returns the next message; a message that    *)
(* does not decode fails the stream with a codec error; after the last     *)
(* message it returns io.EOF or the status error.                          *)

\* What ClientStream.RecvMsg returns at position n of target 1's stream.
DirectRecvMsg(n) ==
  IF n < Len(script[1])
  THEN IF script[1][n + 1] = "Good"
       THEN [resp |-> "Good", error |-> "nil"]
       ELSE [resp |-> "Empty", error |-> "Decode"]
  ELSE [resp |-> "Empty", error |-> IF final[1] = "OK" THEN "EOF" ELSE "Err"]

\* Mutant: directDone is not set when RecvMsg fails.
DirectRecvNoDoneFlag ==
  /\ dErr = "nil" /\ dCalls < MaxCalls
  /\ dCalls' = dCalls + 1
  /\ IF directDone
     THEN dErr' = "EOF" /\ UNCHANGED <<dPos, directDone, dOut>>
     ELSE LET m == DirectRecvMsg(dPos) IN
          /\ dOut' = Append(dOut, [index |-> 1, resp |-> m.resp, error |-> m.error])
          /\ dPos' = IF m.error = "nil" THEN dPos + 1 ELSE dPos
          /\ UNCHANGED <<dErr, directDone>>
  /\ UNCHANGED <<backend, pVars, cVars>>

\* Mutant: the synthesized ManyResponse says Index: 1, as if Targets were
\* numbered from one.
DirectRecvIndexOffByOne ==
  /\ dErr = "nil" /\ dCalls < MaxCalls
  /\ dCalls' = dCalls + 1
  /\ IF directDone
     THEN dErr' = "EOF" /\ UNCHANGED <<dPos, directDone, dOut>>
     ELSE LET m == DirectRecvMsg(dPos) IN
          /\ dOut' = Append(dOut, [index |-> 2, resp |-> m.resp, error |-> m.error])
          /\ directDone' = (m.error # "nil")
          /\ dPos' = IF m.error = "nil" THEN dPos + 1 ELSE dPos
          /\ UNCHANGED dErr
  /\ UNCHANGED <<backend, pVars, cVars>>

\* One Recv call: after an error it returns io.EOF; otherwise one RecvMsg
\* becomes one ManyResponse, and an error sets directDone.
DirectRecv ==
  /\ dErr = "nil" /\ dCalls < MaxCalls
  /\ dCalls' = dCalls + 1
  /\ IF directDone
     THEN dErr' = "EOF" /\ UNCHANGED <<dPos, directDone, dOut>>
     ELSE LET m == DirectRecvMsg(dPos) IN
          /\ dOut' = Append(dOut, [index |-> 1, resp |-> m.resp, error |-> m.error])
          /\ directDone' = (m.error # "nil")
          /\ dPos' = IF m.error = "nil" THEN dPos + 1 ELSE dPos
          /\ UNCHANGED dErr
  /\ UNCHANGED <<backend, pVars, cVars>>

-----------------------------------------------------------------------------
(* Caller p: Recv through the proxy (main.go:194, 242-264).                *)

\* proxy.Conn's RecvMsg (spec.md 4.6): the next Ret of every target of a
\* non-empty set S of unfinished targets, in any order.
ProxyBatches(fin) ==
  LET Unfinished == {i \in Idx : ~fin[i]}
  IN UNION {SetToSeqs(S) : S \in SUBSET Unfinished \ {{}}}

\* Target i's next item through the proxy: a message, or its end.
Advance(pos, fin, S) ==
  [pos |-> [i \in Idx |-> IF i \in S /\ pos[i] < Len(script[i]) THEN pos[i] + 1 ELSE pos[i]],
   fin |-> [i \in Idx |-> fin[i] \/ (i \in S /\ pos[i] = Len(script[i]))]]

\* The Rets a batch delivers: a target that ended OK contributes none.
BatchRets(pos, order) ==
  LET RetAt(i) == IF pos[i] < Len(script[i])
                  THEN <<Ret(i, script[i][pos[i] + 1], "nil")>>
                  ELSE IF final[i] = "Err" THEN <<Ret(i, "None", "Err")>> ELSE <<>>
  IN FoldLeft(LAMBDA acc, i : acc \o RetAt(i), <<>>, order)

ProxyRecv ==
  /\ DStopped
  /\ pErr = "nil" /\ pCalls < MaxCalls
  /\ pCalls' = pCalls + 1
  /\ IF \A i \in Idx : pFin[i]
     THEN pErr' = "EOF" /\ UNCHANGED <<pPos, pFin, pOut>>
     ELSE \E order \in ProxyBatches(pFin) :
            LET nxt == Advance(pPos, pFin, ToSet(order))
                rets == BatchRets(pPos, order)
            IN /\ pOut' = pOut \o [n \in DOMAIN rets |-> Convert(rets[n])]
               /\ pPos' = nxt.pos
               /\ pFin' = nxt.fin
               /\ UNCHANGED pErr
  /\ UNCHANGED <<backend, dVars, cVars>>


-----------------------------------------------------------------------------
(* Caller c: CloseAndRecv through the proxy (main.go:175-183, 196-263).    *)
(* Each target of a client-streaming call answers once: a reply, or an    *)
(* error status.  The generated loop starts every eof[i] at false and      *)
(* leaves the loop when all are true; nothing in the loop sets them.       *)

\* x.ClientStream.CloseSend() succeeds; the non-direct path starts its loop.
CloseAndRecvCloseSend ==
  /\ DStopped /\ PStopped
  /\ cPc = "closeSend"
  /\ cPc' = "loop"
  /\ eof' = [i \in Idx |-> FALSE]
  /\ UNCHANGED <<backend, dVars, pVars, cFin, cRet, cResult, cErr>>

\* The Ret a client-streaming target i delivers through the proxy.
ReplyRet(i) ==
  IF reply[i] = "Err" THEN Ret(i, "None", "Err") ELSE Ret(i, reply[i], "nil")

\* One pass of the for loop: the done check, then RecvMsg.
CloseAndRecvLoop ==
  /\ cPc = "loop"
  /\ IF \A i \in Idx : eof[i]
     THEN /\ cPc' = "returned" /\ cResult' = cRet
          /\ UNCHANGED <<cFin, cRet, cErr>>
     ELSE IF \A i \in Idx : cFin[i]
          THEN \* RecvMsg returns io.EOF: return nil, err
               /\ cPc' = "returned" /\ cResult' = <<>> /\ cErr' = "EOF"
               /\ UNCHANGED <<cFin, cRet>>
          ELSE \E order \in ProxyBatches(cFin) :
                 /\ cRet' = cRet \o [n \in DOMAIN order |-> Convert(ReplyRet(order[n]))]
                 /\ cFin' = [i \in Idx |-> cFin[i] \/ i \in ToSet(order)]
                 /\ UNCHANGED <<cPc, cResult, cErr>>
  /\ UNCHANGED <<backend, dVars, pVars, eof>>

-----------------------------------------------------------------------------
(* The specification                                                       *)

Init ==
  /\ script \in [Idx -> BoundedSeq(Payloads, MaxMsgs)]
  /\ final \in [Idx -> Finals]
  /\ reply \in [Idx -> {"Good", "Bad", "Err"}]
  /\ dPos = 0 /\ directDone = FALSE /\ dCalls = 0 /\ dOut = <<>> /\ dErr = "nil"
  /\ pPos = [i \in Idx |-> 0] /\ pFin = [i \in Idx |-> FALSE]
  /\ pCalls = 0 /\ pOut = <<>> /\ pErr = "nil"
  /\ cPc = "closeSend" /\ cFin = [i \in Idx |-> FALSE]
  /\ eof = [i \in Idx |-> FALSE] /\ cRet = <<>> /\ cResult = <<>> /\ cErr = "nil"

\* Every caller has stopped: Recv returned an error or the caller made its
\* last call, and CloseAndRecv returned.
Finished ==
  /\ DStopped /\ PStopped
  /\ cPc = "returned"
  /\ UNCHANGED vars

Next ==
  \/ DirectRecv
  \/ ProxyRecv
  \/ CloseAndRecvCloseSend
  \/ CloseAndRecvLoop
  \/ Finished

Spec == Init /\ [][Next]_vars

-----------------------------------------------------------------------------
(* Properties                                                              *)

\* The direct path has one target, x.cc.Targets[0] (index 1 here): every
\* ManyResponse it synthesizes names that target; the proxied ones name a
\* target of the call.
TypeOK ==
  /\ script \in [Idx -> Seq(Payloads)] /\ final \in [Idx -> Finals]
  /\ reply \in [Idx -> {"Good", "Bad", "Err"}]
  /\ dPos \in 0 .. MaxMsgs /\ directDone \in BOOLEAN /\ dCalls \in 0 .. MaxCalls
  /\ dOut \in Seq([index : {1}, resp : Payloads \cup {"Empty"}, error : Errors])
  /\ dErr \in Errors
  /\ pPos \in [Idx -> 0 .. MaxMsgs] /\ pFin \in [Idx -> BOOLEAN]
  /\ pCalls \in 0 .. MaxCalls /\ pOut \in Seq(ManyResponses) /\ pErr \in Errors
  /\ cPc \in {"closeSend", "loop", "returned"} /\ cFin \in [Idx -> BOOLEAN]
  /\ eof \in [Idx -> BOOLEAN] /\ cRet \in Seq(ManyResponses)
  /\ cResult \in Seq(ManyResponses) /\ cErr \in Errors

\* The ManyResponses for target i, and what the proxy path should give it.
For(out, i) == SelectSeq(out, LAMBDA r : r.index = i)
\* The reference (spec.md 4.6): a message that decodes, a decode error for
\* one that does not, then the target's error status if it failed.
Expected(i) ==
  [n \in 1 .. Len(script[i]) |->
     IF script[i][n] = "Good" THEN [index |-> i, resp |-> "Good", error |-> "nil"]
     ELSE [index |-> i, resp |-> "Empty", error |-> "Decode"]]
  \o (IF final[i] = "Err" THEN <<[index |-> i, resp |-> "Empty", error |-> "Err"]>> ELSE <<>>)

\* Direct connection (spec.md 4.6, single-target passthrough): the stream's
\* terminal error arrives once, in the last ManyResponse, and every later
\* Recv returns io.EOF; the directDone flag must carry this across calls.
DirectTerminalIsLast ==
  /\ \A n \in DOMAIN dOut : dOut[n].error # "nil" => n = Len(dOut)
  /\ dErr = "EOF" => Len(dOut) > 0 /\ dOut[Len(dOut)].error # "nil"

\* Through the proxy (spec.md 4.6, scenario 3): whatever the batching, each
\* target's ManyResponses are its messages in order, each decoded or marked
\* with the decode error, then its error status if it failed; when Recv
\* returns io.EOF every target has been delivered in full.
ProxyPreservesPerTargetOrder ==
  \A i \in Idx :
    /\ IsPrefix(For(pOut, i), Expected(i))
    /\ pErr = "EOF" => For(pOut, i) = Expected(i)

\* spec.md 8 (round-trip law): one target through the proxy and one target
\* on a direct connection give the same ManyResponses (Resp and Error).
Payload(out) == [n \in DOMAIN out |-> <<out[n].resp, out[n].error>>]
DirectAgreesWithProxy ==
  (dErr = "EOF" /\ pErr = "EOF") => Payload(dOut) = Payload(pOut)

\* spec.md 4.6: CloseAndRecv drains until every target has reported its
\* terminal status, then returns the full collected sequence.
CloseAndRecvReturnsReplies ==
  cPc = "returned" =>
    /\ cErr = "nil"
    /\ \A i \in Idx : \E n \in DOMAIN cResult : cResult[n].index = i

=============================================================================
