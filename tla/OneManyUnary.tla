---------------------------- MODULE OneManyUnary -----------------------------
(***************************************************************************)
(* The unary OneMany method that protoc-gen-go-grpcproxy emits             *)
(* (src/proxy/protoc-gen-go-grpcproxy/main.go:268-325).  It returns an     *)
(* unbuffered channel ret at once; a goroutine fills it and closes it:     *)
(*   one target:  conn.Invoke, send one ManyResponse, close(ret);          *)
(*   more:        read the untyped Rets of conn.InvokeOneMany (manyRet)    *)
(*                until that channel closes, convert each, send it on ret, *)
(*                then close(ret).                                         *)
(* The caller reads ret until it is closed, or abandons it.                *)
(* proxy.Conn is not under src/: InvokeOneMany is written from spec.md 4.6 *)
(* -- one Ret per target, in any order, then the channel is closed.        *)
(***************************************************************************)
EXTENDS Naturals, Sequences, FiniteSets, SequencesExt

CONSTANTS MaxTargets   \* the largest len(conn.Targets) considered

ASSUME MaxTargets \in Nat \ {0}

AllIdx == 1 .. MaxTargets

\* What a target's call gives: a reply that decodes ("Good"), one that does
\* not ("Bad"), or an error status ("Err").
Outcomes == {"Good", "Bad", "Err"}
Errors == {"nil", "Err", "Decode"}
NoResp == [index |-> 0]

VARIABLES
  outcome,   \* per target of conn.Targets: what its call gives
  manyRet,   \* the Rets InvokeOneMany delivers, in delivery order
  taken,     \* how many of them the goroutine has read
  gPc,       \* "start" (OneMany itself), then the goroutine's
             \* "invoke" | "recv" | "send" | "close" | "exited"; "none": no goroutine
  held,      \* the ManyResponse the goroutine is sending on ret
  retClosed, \* close(ret) has run
  got,       \* the ManyResponses the caller read from ret
  callerPc   \* "reading" | "done" (saw ret closed) | "abandoned" |
             \* "failed" (OneMany returned nil, err)

vars == <<outcome, manyRet, taken, gPc, held, retClosed, got, callerPc>>

\* conn.Targets, by index.
Idx == DOMAIN outcome

-----------------------------------------------------------------------------

\* A proxy.Ret for target i: its payload, or its error.
RetOf(i) ==
  IF outcome[i] = "Err" THEN [index |-> i, resp |-> "None", error |-> "Err"]
  ELSE [index |-> i, resp |-> outcome[i], error |-> "nil"]

\* Mutant: the payload is unmarshalled whatever the Ret's error.
UnaryConvertDecodeAlways(r) ==
  IF r.resp = "Good"
  THEN [index |-> r.index, resp |-> "Good", error |-> "nil"]
  ELSE [index |-> r.index, resp |-> "Empty", error |-> "Decode"]

\* The goroutine's conversion (main.go:300-317): Error is the Ret's error;
\* without one, UnmarshalTo may fail and its error replaces it.
UnaryConvert(r) ==
  IF r.error = "nil"
  THEN IF r.resp = "Good"
       THEN [index |-> r.index, resp |-> "Good", error |-> "nil"]
       ELSE [index |-> r.index, resp |-> "Empty", error |-> "Decode"]
  ELSE [index |-> r.index, resp |-> "Empty", error |-> r.error]

\* OneMany: one target takes the conn.Invoke goroutine; otherwise
\* conn.InvokeOneMany either fails, and OneMany returns (nil, err) with no
\* goroutine, or returns manyRet and the fan-in goroutine starts.
UnaryStart ==
  /\ gPc = "start"
  /\ \/ Idx = {1} /\ gPc' = "invoke" /\ UNCHANGED callerPc
     \/ Idx # {1} /\ gPc' = "recv" /\ UNCHANGED callerPc
     \/ Idx # {1} /\ gPc' = "none" /\ callerPc' = "failed"
  /\ UNCHANGED <<outcome, manyRet, taken, held, retClosed, got>>

\* Mutant: the single-target response says Index: 1, as if Targets were
\* numbered from one.
UnaryInvokeIndexOne ==
  /\ gPc = "invoke"
  /\ held' = [index |-> 2,
              resp |-> IF outcome[1] = "Good" THEN "Good" ELSE "Empty",
              error |-> CASE outcome[1] = "Good" -> "nil"
                          [] outcome[1] = "Bad"  -> "Decode"
                          [] OTHER               -> "Err"]
  /\ gPc' = "send"
  /\ UNCHANGED <<outcome, manyRet, taken, retClosed, got, callerPc>>

\* One target: conn.Invoke fills out.Resp or returns an error; a reply that
\* does not decode is an error of Invoke.
UnaryInvoke ==
  /\ gPc = "invoke"
  /\ held' = [index |-> 1,
              resp |-> IF outcome[1] = "Good" THEN "Good" ELSE "Empty",
              error |-> CASE outcome[1] = "Good" -> "nil"
                          [] outcome[1] = "Bad"  -> "Decode"
                          [] OTHER               -> "Err"]
  /\ gPc' = "send"
  /\ UNCHANGED <<outcome, manyRet, taken, retClosed, got, callerPc>>

\* resp, ok := <-manyRet with ok: convert it and go to send it.
UnaryRecvRet ==
  /\ gPc = "recv" /\ taken < Len(manyRet)
  /\ held' = UnaryConvert(manyRet[taken + 1])
  /\ taken' = taken + 1
  /\ gPc' = "send"
  /\ UNCHANGED <<outcome, manyRet, retClosed, got, callerPc>>

\* Mutant: the goroutine returns on !ok without close(ret).
UnaryManyRetClosedNoClose ==
  /\ gPc = "recv" /\ taken = Len(manyRet)
  /\ gPc' = "exited"
  /\ UNCHANGED <<outcome, manyRet, taken, held, retClosed, got, callerPc>>

\* manyRet is closed (!ok): close(ret) and return.
UnaryManyRetClosed ==
  /\ gPc = "recv" /\ taken = Len(manyRet)
  /\ retClosed' = TRUE
  /\ gPc' = "exited"
  /\ UNCHANGED <<outcome, manyRet, taken, held, got, callerPc>>

\* ret <- out (main.go:288): a joint step with the caller's read of ret;
\* the one target path then closes ret.
UnarySendOne ==
  /\ gPc = "send" /\ Idx = {1} /\ callerPc = "reading"
  /\ got' = Append(got, held)
  /\ held' = NoResp
  /\ gPc' = "close"
  /\ UNCHANGED <<outcome, manyRet, taken, retClosed, callerPc>>

\* ret <- typedResp (main.go:318): the fan-in loop then reads manyRet again.
UnarySendFanIn ==
  /\ gPc = "send" /\ Idx # {1} /\ callerPc = "reading"
  /\ got' = Append(got, held)
  /\ held' = NoResp
  /\ gPc' = "recv"
  /\ UNCHANGED <<outcome, manyRet, taken, retClosed, callerPc>>

\* The one target path: close(ret) after its single send.
UnaryClose ==
  /\ gPc = "close"
  /\ retClosed' = TRUE
  /\ gPc' = "exited"
  /\ UNCHANGED <<outcome, manyRet, taken, held, got, callerPc>>

\* The caller's range over ret ends when it is closed.
CallerSeesClose ==
  /\ callerPc = "reading" /\ retClosed
  /\ callerPc' = "done"
  /\ UNCHANGED <<outcome, manyRet, taken, gPc, held, retClosed, got>>

\* The caller, once OneMany has returned ret, stops reading before it is closed.
CallerAbandon ==
  /\ callerPc = "reading" /\ gPc # "start" /\ ~retClosed
  /\ callerPc' = "abandoned"
  /\ UNCHANGED <<outcome, manyRet, taken, gPc, held, retClosed, got>>

-----------------------------------------------------------------------------

Init ==
  /\ \E n \in AllIdx : outcome \in [1 .. n -> Outcomes]
  /\ manyRet \in {[n \in Idx |-> RetOf(order[n])] : order \in SetToSeqs(Idx)}
  /\ taken = 0
  /\ gPc = "start"
  /\ held = NoResp /\ retClosed = FALSE /\ got = <<>> /\ callerPc = "reading"

Next ==
  \/ UnaryStart \/ UnaryInvoke \/ UnaryRecvRet \/ UnaryManyRetClosed
  \/ UnarySendOne \/ UnarySendFanIn
  \/ UnaryClose \/ CallerSeesClose \/ CallerAbandon

\* The goroutine and a caller that keeps reading are scheduled; abandoning
\* the channel is the caller's choice and never forced.
Fairness ==
  /\ WF_vars(UnaryStart \/ UnaryInvoke \/ UnaryRecvRet \/ UnaryManyRetClosed \/ UnaryClose)
  /\ WF_vars(UnarySendOne \/ UnarySendFanIn)
  /\ WF_vars(CallerSeesClose)

Spec == Init /\ [][Next]_vars /\ Fairness

-----------------------------------------------------------------------------
(* Properties                                                              *)

\* A ManyResponse's Index is an index into conn.Targets: the held and the
\* delivered responses name a target of this call.
TypeOK ==
  /\ \E n \in AllIdx : outcome \in [1 .. n -> Outcomes]
  /\ manyRet \in Seq([index : AllIdx, resp : {"Good", "Bad", "None"}, error : Errors])
  /\ taken \in 0 .. Len(manyRet)
  /\ gPc \in {"start", "invoke", "recv", "send", "close", "exited", "none"}
  /\ held \in [index : Idx, resp : {"Good", "Empty"}, error : Errors] \cup {NoResp}
  /\ retClosed \in BOOLEAN
  /\ got \in Seq([index : Idx, resp : {"Good", "Empty"}, error : Errors])
  /\ callerPc \in {"reading", "done", "abandoned", "failed"}

\* The reference (spec.md 4.6): target i's ManyResponse carries its reply,
\* a decode error for a reply that does not decode, or its error status.
Expected(i) ==
  [index |-> i,
   resp |-> IF outcome[i] = "Good" THEN "Good" ELSE "Empty",
   error |-> CASE outcome[i] = "Good" -> "nil"
               [] outcome[i] = "Bad"  -> "Decode"
               [] OTHER               -> "Err"]

\* A caller that reads the channel until it closes has received exactly
\* one ManyResponse per target, the expected one, whichever path (one
\* target or fan-in) and whatever order the targets answered in.
UnaryDeliversEveryTarget ==
  callerPc = "done" =>
    /\ Len(got) = Cardinality(Idx)
    /\ \A i \in Idx : \E n \in DOMAIN got : got[n] = Expected(i)

\* The goroutine leaks only when its caller abandons ret (the documented
\* contract of spec.md 4.6): with a caller that never abandons it, the
\* goroutine exits and the caller's range over ret ends -- or OneMany
\* failed up front and started no goroutine.
UnaryNoLeakWhenDrained ==
  [](callerPc # "abandoned") =>
    <>((gPc = "exited" /\ callerPc = "done") \/ (gPc = "none" /\ callerPc = "failed"))

=============================================================================
