---------------------------- MODULE GenerateFile ------------------------------
(***************************************************************************)
(* What protoc-gen-go-grpcproxy's generate (src/proxy/protoc-gen-go-       *)
(* grpcproxy/main.go:46-349) emits for one .proto file.  The file is a     *)
(* sequence of services, a service a sequence of methods, and a method is  *)
(* known by its streaming kind alone: [client, server] are                 *)
(* Desc.IsStreamingClient() and Desc.IsStreamingServer().                  *)
(*                                                                         *)
(* The generator's loops are the actions: the import header, one step per  *)
(* service, one per method.  Text is abstracted to what the Go compiler    *)
(* and a caller can tell apart: the packages imported and referenced, and  *)
(* per method the OneMany signature, the methods of its ClientProxy        *)
(* interface and struct, what OneMany does with the request before it      *)
(* returns, and the _ServiceDesc.Streams index it opens its stream with.   *)
(***************************************************************************)
EXTENDS Integers, Sequences, SequencesExt

CONSTANTS
  MaxServices,   \* the most services a file is given
  MaxMethods     \* the most methods a service is given

Kinds == [client : BOOLEAN, server : BOOLEAN]

\* The files generate is called with (main.go:30-35 calls it for every file
\* with Generate set): any services of any methods.
Files == BoundedSeq(BoundedSeq(Kinds, MaxMethods), MaxServices)

\* The stream index of a unary method, which opens no stream.
NoStream == -1

VARIABLES
  file,        \* the *protogen.File
  pc,          \* "header" | "services" | "methods" | "done"
  si,          \* the service the outer loop is at
  mi,          \* the method the inner loop is at
  numStreams,  \* main.go:128, the next index into _ServiceDesc.Streams
  imports,     \* the packages of the import block; {} while no file is made
  used,        \* the packages the emitted code refers to
  out          \* per generated method, what was emitted for it

vars == <<file, pc, si, mi, numStreams, imports, used, out>>

-----------------------------------------------------------------------------
(* The per-method decisions of the generator.                              *)

\* main.go:130.
Unary(k) == ~k.client /\ ~k.server

\* Mutant: bidi counted as client-only streaming.
ClientOnlyAnyClient(k) ==
  k.client

\* main.go:131.
ClientOnly(k) ==
  k.client /\ ~k.server

\* Mutant: io imported only for server streaming.
NeedIOServerOnly(f) ==
  \E s \in 1 .. Len(f) : \E m \in 1 .. Len(f[s]) : f[s][m].server

\* main.go:52-59: io is needed if any method streams in either direction.
NeedIO(f) ==
  \E s \in 1 .. Len(f) : \E m \in 1 .. Len(f[s]) : f[s][m].client \/ f[s][m].server

\* {name} when b holds, for the emission guarded by "if b".
Opt(b, name) == IF b THEN {name} ELSE {}

\* The methods of the <Service>_<Method>ClientProxy interface (main.go:147-157).
StreamIface(k) ==
  Opt(k.client, "Send") \cup Opt(ClientOnly(k), "CloseAndRecv") \cup Opt(k.server, "Recv")

\* The methods emitted on the client struct (main.go:167-195); for
\* client-only streams the Recv body becomes the body of CloseAndRecv.
StreamFuncs(k) ==
  Opt(k.client, "Send") \cup Opt(ClientOnly(k), "CloseAndRecv") \cup Opt(k.server, "Recv")

\* The receive body is emitted for server streams and client-only ones
\* (main.go:184); it names io.EOF (205) and fmt.Errorf (255).  Only
\* client-only streams wrap it in the loop over every target (224-241).
RecvBody(k) == k.server \/ ClientOnly(k)

\* methodSignature (main.go:362-376): unary and server-only methods take the
\* request; unary returns a channel, the others a ClientProxy handle.
TakesIn(k) ==
  Unary(k) \/ (~k.client /\ k.server)

Returns(k) == IF Unary(k) THEN "chan" ELSE "handle"

\* Mutant: only the unary path is taken to need the request sent.
SendsInUnaryOnly(k) ==
  ~k.client /\ ~k.server

\* What OneMany does with the request before returning: a unary call passes
\* it to Invoke or InvokeOneMany (283, 293); a stream that is not client
\* streaming does SendMsg(in) then CloseSend (335-342).
SendsIn(k) ==
  ~k.client

-----------------------------------------------------------------------------
(* The generator's steps.                                                  *)

\* A file with no services: generate returns and makes no file (main.go:47-49).
GenerateNoServices ==
  /\ pc = "header" /\ Len(file) = 0
  /\ pc' = "done"
  /\ UNCHANGED <<file, si, mi, numStreams, imports, used, out>>

\* The file header: fmt always, io when needed (main.go:61-78).
GenerateHeader ==
  /\ pc = "header" /\ Len(file) > 0
  /\ imports' = {"fmt"} \cup (IF NeedIO(file) THEN {"io"} ELSE {})
  /\ pc' = "services" /\ si' = 1
  /\ UNCHANGED <<file, mi, numStreams, used, out>>

\* A service with no methods is skipped (main.go:83-85).
SkipEmptyService ==
  /\ pc = "services" /\ si <= Len(file) /\ Len(file[si]) = 0
  /\ si' = si + 1
  /\ UNCHANGED <<file, pc, mi, numStreams, imports, used, out>>

\* Mutant: numStreams declared once for the whole file.
GenerateServiceNoReset ==
  /\ pc = "services" /\ si <= Len(file) /\ Len(file[si]) > 0
  /\ pc' = "methods" /\ mi' = 1
  /\ UNCHANGED <<file, si, numStreams, imports, used, out>>

\* A service with methods: its Proxy interface, struct and constructor, then
\* the method loop with numStreams starting at 0 (main.go:86-129).
GenerateService ==
  /\ pc = "services" /\ si <= Len(file) /\ Len(file[si]) > 0
  /\ pc' = "methods" /\ mi' = 1 /\ numStreams' = 0
  /\ UNCHANGED <<file, si, imports, used, out>>

\* The outer loop ends (main.go:348-349).
ServicesDone ==
  /\ pc = "services" /\ si > Len(file)
  /\ pc' = "done"
  /\ UNCHANGED <<file, si, mi, numStreams, imports, used, out>>

\* The record of what is emitted for method k of service si.
Emitted(k, stream) ==
  [svc |-> si, idx |-> mi, kind |-> k,
   iface |-> IF Unary(k) THEN {} ELSE StreamIface(k),
   funcs |-> IF Unary(k) THEN {} ELSE StreamFuncs(k),
   drains |-> ClientOnly(k),
   takesIn |-> TakesIn(k), returns |-> Returns(k),
   sendsIn |-> SendsIn(k), streamIdx |-> stream]

\* A unary method: ManyResponse, then a OneMany that fills a channel and
\* converts errors with fmt.Errorf (main.go:130-142, 268-325); the loop
\* continues without touching numStreams.
GenerateUnary ==
  /\ pc = "methods" /\ mi <= Len(file[si]) /\ Unary(file[si][mi])
  /\ out' = Append(out, Emitted(file[si][mi], NoStream))
  /\ used' = used \cup {"fmt"}
  /\ mi' = mi + 1
  /\ UNCHANGED <<file, pc, si, numStreams, imports>>

\* Mutant: numStreams++ placed before NewStream.
GenerateStreamingIncrementFirst ==
  /\ pc = "methods" /\ mi <= Len(file[si]) /\ ~Unary(file[si][mi])
  /\ out' = Append(out, Emitted(file[si][mi], numStreams + 1))
  /\ used' = used \cup (IF RecvBody(file[si][mi]) THEN {"fmt", "io"} ELSE {})
  /\ numStreams' = numStreams + 1
  /\ mi' = mi + 1
  /\ UNCHANGED <<file, pc, si, imports>>

\* A streaming method: ManyResponse, the ClientProxy interface, struct and
\* methods, then a OneMany that opens Streams[numStreams] and, when it is
\* not client streaming, sends the request and closes the send side
\* (main.go:130-264, 328-346).
GenerateStreaming ==
  /\ pc = "methods" /\ mi <= Len(file[si]) /\ ~Unary(file[si][mi])
  /\ out' = Append(out, Emitted(file[si][mi], numStreams))
  /\ used' = used \cup (IF RecvBody(file[si][mi]) THEN {"fmt", "io"} ELSE {})
  /\ numStreams' = numStreams + 1
  /\ mi' = mi + 1
  /\ UNCHANGED <<file, pc, si, imports>>

\* The method loop ends; the outer loop goes on (main.go:347).
MethodsDone ==
  /\ pc = "methods" /\ mi > Len(file[si])
  /\ pc' = "services" /\ si' = si + 1
  /\ UNCHANGED <<file, mi, numStreams, imports, used, out>>

-----------------------------------------------------------------------------

Init ==
  /\ file \in Files
  /\ pc = "header" /\ si = 0 /\ mi = 0 /\ numStreams = 0
  /\ imports = {} /\ used = {} /\ out = <<>>

Next ==
  \/ GenerateNoServices \/ GenerateHeader
  \/ SkipEmptyService \/ GenerateService \/ ServicesDone
  \/ GenerateUnary \/ GenerateStreaming \/ MethodsDone

\* generate is a plain sequential function; nothing else runs beside it.
Spec == Init /\ [][Next]_vars /\ WF_vars(Next)

-----------------------------------------------------------------------------
(* Properties                                                              *)

Records ==
  [svc : 1 .. MaxServices, idx : 1 .. MaxMethods, kind : Kinds,
   iface : SUBSET {"Send", "CloseAndRecv", "Recv"},
   funcs : SUBSET {"Send", "CloseAndRecv", "Recv"},
   drains : BOOLEAN, takesIn : BOOLEAN, returns : {"chan", "handle"},
   sendsIn : BOOLEAN, streamIdx : (0 .. MaxMethods - 1) \cup {NoStream}]

\* The stream index must name an entry of _ServiceDesc.Streams, which has
\* one entry per streaming method of the service.
TypeOK ==
  /\ file \in Files
  /\ pc \in {"header", "services", "methods", "done"}
  /\ si \in 0 .. MaxServices + 1 /\ mi \in 0 .. MaxMethods + 1
  /\ numStreams \in 0 .. MaxMethods
  /\ imports \subseteq {"fmt", "io"} /\ used \subseteq {"fmt", "io"}
  /\ out \in Seq(Records)

\* The reference surface of spec.md 6 ("Client library surface"): unary
\* and server-streaming methods take the input; unary returns a sequence
\* (a channel), the others a handle with Recv (server streaming), Send and
\* CloseAndRecv (client streaming), or Send and Recv (bidi).
SpecSurface(k) ==
  [methods |-> CASE Unary(k)   -> {}
                 [] ~k.client -> {"Recv"}
                 [] ~k.server -> {"Send", "CloseAndRecv"}
                 [] OTHER     -> {"Send", "Recv"},
   takesIn |-> ~k.client,
   returns |-> IF Unary(k) THEN "chan" ELSE "handle"]

\* Every method the generator emits has the surface spec.md gives its kind:
\* its ClientProxy interface lists exactly the spec's methods, OneMany
\* returns the spec's type, and only CloseAndRecv runs the drain-every-target
\* loop.
SurfaceMatchesSpec ==
  \A n \in DOMAIN out :
    LET m == out[n] IN
    /\ m.iface = SpecSurface(m.kind).methods
    /\ m.returns = SpecSurface(m.kind).returns
    /\ m.drains = ("CloseAndRecv" \in SpecSurface(m.kind).methods)

\* The request a OneMany signature accepts (methodSignature) is exactly the
\* one its body sends before returning (the Invoke calls or SendMsg(in) and
\* CloseSend), as spec.md gives it; and a handle has Send exactly when its
\* send side was left open for the caller.
RequestSentIffTaken ==
  \A n \in DOMAIN out :
    LET m == out[n] IN
    /\ m.takesIn = SpecSurface(m.kind).takesIn
    /\ m.sendsIn = m.takesIn
    /\ m.returns = "handle" => (("Send" \in m.funcs) = ~m.sendsIn)

\* How many methods of ms stream in either direction.
RECURSIVE StreamingCount(_)
StreamingCount(ms) ==
  IF ms = <<>> THEN 0
  ELSE (IF Unary(Head(ms)) THEN 0 ELSE 1) + StreamingCount(Tail(ms))

\* grpc-go's generated _ServiceDesc.Streams lists the streaming methods of
\* the service in declaration order: the OneMany of a streaming method opens
\* the entry whose index is the number of streaming methods declared before
\* it in the same service (numStreams, main.go:128 and 345).
StreamIndexMatchesServiceDesc ==
  \A n \in DOMAIN out :
    LET m == out[n] IN
    ~Unary(m.kind) =>
      m.streamIdx = StreamingCount(SubSeq(file[m.svc], 1, m.idx - 1))

\* A finished file imports io exactly when its code refers to io (io.EOF in
\* the receive bodies): Go rejects both a missing and an unused import.
IOImportMatchesUse ==
  pc = "done" => (("io" \in imports) = ("io" \in used))

\* A finished file imports exactly the packages its code uses (main.go:72
\* prints "fmt" whenever the file has a service), so the file compiles.
GeneratedImportsAllUsed ==
  pc = "done" => imports = used

=============================================================================
