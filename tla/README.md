# TLA+ models of the sansshell proxy

These modules model the concurrency of the sansshell proxy and of the
generated "OneMany" client code that talks to it. TLC checks them. Every
action is written from a line range of the Go source. `PROJECT.json` maps
each definition to the lines it models.

## The system

sansshell's proxy sits between a client and many target servers. A client
opens one bidirectional `Proxy` RPC to it and multiplexes many target
streams over it.

| Part | Code | Role |
|---|---|---|
| Proxy handler | `src/proxy/server/server.go` | `Proxy` runs three goroutines in an `errgroup`. `receive` reads client frames onto the unbuffered `requestChan`. `dispatch` routes them to a `TargetStreamSet`. `send` relays everything on the unbuffered `replyChan` back to the client. |
| Target streams | `TargetStreamSet` / `TargetStream` (described in `spec.md` §4.2-4.3, not under `src/`) | There is one goroutine per target stream. It dials the backend, relays backend replies onto `replyChan`, sends a final ServerClose, and publishes its id on `dispatch`'s unbuffered `doneChan`. |
| Generated client | `src/proxy/protoc-gen-go-grpcproxy/main.go` | This emits, for every service, the `OneMany` methods: `Recv` / `CloseAndRecv` on streams, and the unary fan-in goroutine. These methods convert untyped `proxy.Ret` values into typed `ManyResponse`s, both directly and through `proxy.Conn`. |
| mTLS / authz | `src/auth/mtls/roundtrip_test.go` | A round-trip test of certificate loading and OPA policy. |

How the parts interact:

1. The client's frames reach `dispatch` through `receive`.
2. `dispatch` acts on them:
   - StartStream calls `Add`, which replies on `replyChan` and launches a target.
   - StreamData, ClientCancel and ClientClose call the set's `Send`, `Cancel` and `ClientClose`.
   - A closed `requestChan` triggers `ClientCloseAll` and then `Wait`.
3. Targets reply on `replyChan`, which `send` reads.
4. A finished target's id reaches `dispatch` on `doneChan` and is removed from the set.

The `errgroup` context is cancelled by the first error any goroutine returns, and again when `group.Wait` returns.

## Modules

### `ProxySession` (+ `MCProxySession`): `server.go`, composed with the target streams

**State**

| Group | Variables | What they hold |
|---|---|---|
| Client | `wire`, `inbox`, `cli`, `closeSent`, `rpcCancelled` | The client side of the RPC. `wire` is the sequence of reply frames the client got. |
| `receive` goroutine | `recvPc`, `recvReq`, `reqClosed` | Its program counter, the request it holds, and `close(requestChan)`. |
| `dispatch` goroutine | `dispPc`, `dispReply`, `replyClosed` | Its program counter, the reply it holds, and the deferred `close(replyChan)`. |
| `send` goroutine | `sendPc`, `sendMsg` | Its program counter and the message it holds. |
| `errgroup` | `groupErr` | Some goroutine has returned an error. |
| Stream set | `set`, `nextId` | The set's members and the next id. |
| Per-target | `tState`, `tHalf`, `tCancel`, `tPc`, `tOut`, `tData` | Each target's state, half-close flag, cancel flag, program counter, output and data. |
| Outcomes | `panicked`, `protoErr` | The process panicked; the session ended on a protocol error. |

- An unbuffered channel send is one action shared by both goroutines, so the rendezvous happens in a single step.
- A `select` becomes one action per case. Go chooses randomly among ready cases, and the model lets any ready case fire.

**Actions**

| Code | Actions |
|---|---|
| `receive` (105-129) | `ReceiveFrame`, `ReceiveEOF`, `ReceiveError`, `ReceiveCtxDone`; the deferred `close(requestChan)` (67) is `ReceiveReturn` |
| `send` (93-100) | `SendRelay`, `SendError`, `SendExit` |
| `dispatch`, the `ctx.Done` and `doneChan` cases (140-147) | `DispatchCtxDone`, `DispatchRemove` |
| `dispatch`, the `!ok` path (149-161) | `DispatchRequestClosed` (runs `ClientCloseAll`), `DispatchWaitDone` |
| `dispatch`, the four request kinds and the default case (164-180) | `DispatchStartStream` (then `DispatchAddReply` / `DispatchAddCtxDone`), `DispatchStreamData`, `DispatchClientCancel`, `DispatchClientClose`, `DispatchUnknown` |
| The deferred `close(replyChan)` (78) | Part of `DispatchReturn` |

Target streams are written from `spec.md`, because their code is not under `src/`. Their actions are:
- `TargetDial`, `TargetData`, `TargetEnd`, `TargetCancel`;
- `TargetEmit`, a rendezvous with `send`;
- `TargetEmitCtxDone`;
- `TargetEmitPanic`, a send on the closed `replyChan`, which stops the model;
- `TargetPublishCtxDone`, the `doneChan` publish with its `ctx.Done` alternative.

`DispatchUnknown` returns the Internal error of the default case (180). It does not count as the protocol error of `protoErr`, which records only the errors of the stream set's calls. So `ProtocolViolationEndsSession` is about those calls only.

The set's `Send`, `Cancel` and `ClientClose` fail on a missing id, a Closed stream or a half-closed one (`SetSendFails`). Where `spec.md` is silent, the sends of targets and of `Add` are read charitably as `select`s on `ctx.Done`.

The client follows the protocol:
- it names only streams whose StartStream reply it has seen and whose ServerClose it has not;
- it may CloseSend or cancel the RPC at any time.

### `ReplyProtocol`: the reply stream the proxy promises, and the refinement

`ReplyProtocol` is the abstract specification of what the client reads, taken
from `spec.md` sections 3 and 5. Per stream id, the frames form
StartStreamReply, then StreamData*, then at most one ServerClose. A failed
StartStream is answered by a StartStreamReply that names no stream.

| Variable | What it holds |
|---|---|
| `phase` | Each id's state, as the client sees it: idle, open or closed |
| `delivered` | The reply frames, in the order the client reads them |

Its actions are `Start`, `Unimplemented`, `Data` and `Close`.

`ProxySession` instantiates it as `Reply == INSTANCE ReplyProtocol WITH phase
<- WirePhase, delivered <- wire`. `WirePhase` rebuilds each id's phase from
the frames on the wire. Checking `ImplementsReplyProtocol == Reply!Spec` as a
PROPERTY shows that every relay by the `send` goroutine is a step of the
abstract protocol, or leaves the abstract state unchanged.

This is not obvious. An id's frames come from two goroutines: `dispatch`, for
`Add`'s reply, and the target stream. `replyChan` orders them, and the
refinement holds over every interleaving of the two. The abstract spec asks
only for fresh ids. In the model `Add` gives up its reply only once the
context is done. That happens only after the RPC is cancelled, and then
nothing more reaches the wire. So the ids the client sees also increase.

### `OneManyStream` (+ `MCOneManyStream`): generated `Recv` and `CloseAndRecv`

Three callers share one backend behaviour. In `Init`, each target has:
- a script of messages, each either decodable or not;
- a final status;
- the reply it gives to a client-streaming call.

The callers run one after another:

| Caller | Code | What it does |
|---|---|---|
| `d` | `DirectRecv`, main.go 196-220 | Calls `Recv` on a direct connection. `RecvMsg` on the plain `grpc.ClientStream`, with the `directDone` flag. |
| `p` | `ProxyRecv`, main.go 242-264 | Calls `Recv` through the proxy. `proxy.Conn.RecvMsg` returns a batch: the next item of every target in a non-empty subset, in any order. This is written from `spec.md` §4.6. |
| `c` | `CloseAndRecvCloseSend`, `CloseAndRecvLoop`, main.go 175-183 and 224-263 | Calls `CloseAndRecv` through the proxy. `CloseSend` always succeeds: its error return (180) would end the call before the loop that the `onemany_closeandrecv` finding is about. |

`Convert` is the generated conversion of a `proxy.Ret` (246-258).

### `OneManyUnary` (+ `MCOneManyUnary`): generated unary `OneMany`

`Init` picks the number of targets. `UnaryStart` is `OneMany` itself (275-296). One target takes the `conn.Invoke` path (276-290). With more targets, `InvokeOneMany` can fail; then `OneMany` returns `(nil, err)` and starts no goroutine (`callerPc = "failed"`). Otherwise it takes the fan-in goroutine (297-321). `InvokeOneMany`'s channel delivers one `Ret` per target, in any order, and then closes.

| Actions | Code |
|---|---|
| `UnaryStart` | The path choice and the early error return |
| `UnaryInvoke`, `UnaryClose` | The single-target path |
| `UnaryRecvRet`, `UnaryManyRetClosed`, `UnaryConvert` | The fan-in loop |
| `UnarySendOne`, `UnarySendFanIn` | The rendezvous on the unbuffered `ret` with the caller: `ret <- out` (288) and `ret <- typedResp` (318) |

The caller's steps are `CallerSeesClose` (the caller ranges until `ret` is closed) and `CallerAbandon` (the caller stops reading).

### `GenerateFile` (+ `MCGenerateFile`): what `generate` emits for one file

`generate` (main.go:46-349) is a sequential walk over a file's services and methods. The model keeps its control and abstracts the text. A file is a sequence of services, a service is a sequence of methods, and a method is known only by its `[client, server]` streaming kind. `Init` takes every file of up to two services of up to two methods (`main` calls `generate` once per file).

| Actions | Code |
|---|---|
| `GenerateNoServices`, `GenerateHeader` | The early return for no services (47-49). Otherwise the import block: `fmt` always, and `io` when `NeedIO` holds (52-78). |
| `SkipEmptyService`, `GenerateService`, `ServicesDone` | The service loop. A service with no methods is skipped (83-85). Otherwise `numStreams` starts at 0 (128). |
| `GenerateUnary`, `GenerateStreaming`, `MethodsDone` | One step per method (129-347). |

Each method step appends a record `Emitted`:
- the methods of its `ClientProxy` interface (`StreamIface`, 147-157) and of its struct (`StreamFuncs`, 167-195);
- whether only `CloseAndRecv` drains every target (224);
- the `OneMany` signature (`TakesIn` and `Returns`, from `methodSignature`);
- whether the body sends the request and closes the send side (`SendsIn`, 335-342);
- the `_ServiceDesc.Streams` index it opens.

It also adds the packages that the body refers to (`io.EOF` in the receive body, `fmt.Errorf` in every conversion) to `used`.

## Runs

| Run | Cfg | Expect | What it shows |
|---|---|---|---|
| proxy_safety | `MCProxySession.cfg` | pass | `ImplementsReplyProtocol`: the session refines `ReplyProtocol` over every interleaving of the client, the three goroutines and two targets (about 1.08M states, about 1 min). |
| proxy_live | `MCProxySession_live.cfg` | pass | This run uses two target streams. `RpcCancelTearsDown`: a cancelled RPC ends with the handler returned and every target exited, or with the panic below. `EveryStreamGetsServerClose`: a launched stream gets its ServerClose unless the session ends. `EveryStartStreamAnswered`: each StartStream the client sends gets its StartStreamReply unless the session is torn down. This is the "exactly one" of spec.md §8; the "at most one" half is `ImplementsReplyProtocol`. |
| proxy_panic | `MCProxySession_panic.cfg` | violation | `ReplyChanNeverSentAfterClose` is violated. The client cancels the RPC while a target is about to send its ServerClose. `dispatch` takes `ctx.Done`, returns without `Wait`, and its deferred `close(replyChan)` runs. The target's send then panics the process. |
| proxy_closesend | `MCProxySession_closesend.cfg` | violation | `CloseSendEndsSession` is violated. After CloseSend, `dispatch` blocks in `streamSet.Wait`. A finished target blocks publishing its id on the unbuffered `doneChan`, which only `dispatch` reads. The RPC never returns. |
| proxy_benign | `MCProxySession_benign.cfg` | violation | `WellBehavedClientKeepsSession` is violated. A StreamData sent to a stream whose dial then fails reaches a Closed stream, and `dispatch` returns the error, ending the whole RPC. |
| proxy_protoerr | `MCProxySession_protoerr.cfg` | violation | `ProtocolViolationEndsSession` is violated. `dispatch` returns a protocol error; `send` sees `replyChan` closed and exits. But `receive` is blocked in `stream.Recv`, which watches the RPC context and not the errgroup's. So `group.Wait` never returns while the client waits for replies. `spec.md` §4.4 and §7 say the session is torn down and returns INTERNAL. |
| onemany_stream | `MCOneManyStream.cfg` | pass | `ProxyPreservesPerTargetOrder`: proxied `Recv` yields each target's converted messages in order; compared with an independent reference, it holds as a prefix until EOF and as equality at EOF. `DirectTerminalIsLast`: after the direct stream's error, only io.EOF follows. |
| onemany_roundtrip | `MCOneManyStream_roundtrip.cfg` | violation | `DirectAgreesWithProxy` is violated. With one target, the direct path yields an extra `{Error: io.EOF}` response, and it stops at a decode error where the proxy path continues. |
| onemany_closeandrecv | `MCOneManyStream_closeandrecv.cfg` | violation | `CloseAndRecvReturnsReplies` is violated. `eof[i]` is never set, so `CloseAndRecv` leaves through `RecvMsg`'s io.EOF and returns `(nil, io.EOF)`. |
| onemany_unary | `MCOneManyUnary.cfg` | pass | `UnaryDeliversEveryTarget`: a caller that drains the channel gets exactly one correct response per target, for one, two and three targets and every delivery order. `UnaryNoLeakWhenDrained`: the goroutine exits, and the caller's range ends, unless the caller abandons `ret`. Abandoning is the documented leak. |

| gen_surface | `MCGenerateFile.cfg` | pass | `SurfaceMatchesSpec`: every generated method has the surface that spec.md §6 gives its kind, and its struct implements its own interface. `RequestSentIffTaken`: `OneMany` sends exactly the request its signature takes, and a handle has `Send` exactly when its send side is open. `StreamIndexMatchesServiceDesc`: `numStreams` names the stream entry that grpc-go's `_ServiceDesc` gives the method, which is checked against a recursive count of the streaming methods before it. `IOImportMatchesUse`: `io` is imported exactly when it is used. The run covers 463 files and 4,699 states. |
| gen_imports | `MCGenerateFile_imports.cfg` | violation | `GeneratedImportsAllUsed` is violated. A file with one service that has no methods gets `import "fmt"` and no code that uses it, so the generated file does not compile. |

Every property of a passing run has a mutant in `PROJECT.json`. Each mutant is an operator in the module that changes one action the way a plausible bug would, and TLC finds the property violated when the mutant is substituted.

Each type invariant states something the Go compiler does not check:
- **`ProxySession`:** no frame `stream.Send` writes is the nil zero value. The mutant `SendExitReadsNil` makes `send` read `<-replyChan` without `range`'s `ok` check, which sends that nil value.
- **`OneManyStream` and `OneManyUnary`:** a ManyResponse's Index names a target of the call. The mutants write `Index: 1` in the direct path (`DirectRecvIndexOffByOne`) and in the single-target path (`UnaryInvokeIndexOne`).
- **`GenerateFile`:** the stream index names an entry of `_ServiceDesc.Streams`.

## Bounds

| Model | Bounds | Why they are enough |
|---|---|---|
| `ProxySession` | Safety: `MaxStreams = 2`, `MaxClientFrames = 3`. Liveness: two streams and two frames. Violation runs: one stream and three frames. `MaxData = 1`. | Two streams give the cross-stream interleavings on the shared `replyChan` and `doneChan`. Three client frames allow StartStream, then data/close/cancel, then one more. One data frame per target lets a reply race a close. The liveness bound keeps TLC's behaviour graph near 80k states. Two streams with three frames also pass, but take 7.5 minutes. Every hazard in `PROJECT.json` is reached within these bounds. |
| `OneManyStream` | 2 targets, at most 2 messages each, and `MaxCalls = MaxMsgs + 2` Recv calls | These bounds reach each target's end and one call after it. |
| `OneManyUnary` | Up to 3 targets | This covers both paths and all delivery orders. |
| `GenerateFile` | Up to 2 services of up to 2 methods, of all 4 kinds | Two services show whether `numStreams` is reset. Two streaming methods give a second index. An empty service and a lone client-only method reach the import cases. |

## Fairness

- **ProxySession:** `receive`, `dispatch`, `send`, and each target's cancel, emit and publish have weak fairness, because the Go scheduler runs any goroutine that can proceed.
  - A target's `TargetDial` and `TargetEnd` are under the same weak fairness, but for another reason. This is an assumption about the backends, not about scheduling: a dial finishes and a backend call eventually ends.
  - Backend data (`TargetData`) and every client action are not fair, because neither the backend nor the client is obliged to act. `Terminated` is the stuttering step taken once the process has panicked, or once the handler has returned and every target has exited.
- **OneManyStream:** this model checks only safety, so it has no fairness.
- **OneManyUnary:** the goroutine and a caller that keeps reading are fair. Abandoning the channel is never forced.
- **GenerateFile:** `generate` is a sequential function, and its only fairness is that it keeps stepping.
- **Deadlock checking:** it is off in `MCProxySession_live.cfg`, `MCOneManyUnary.cfg` and the `MCGenerateFile` cfgs. In `MCProxySession_live.cfg`, the handler really can hang (`proxy_closesend`). In `MCOneManyUnary.cfg`, a caller that abandons `ret` really does leave the goroutine blocked. In the `MCGenerateFile` cfgs, `generate` returns once it has walked the file.

## Not modelled

- **Stream set and target stream code.** It is not in `src/`, so it is written from `spec.md` and marked `spec_modelled` in the map. The backend dial and protocol are abstracted to success or failure and a script of replies.
- **Frames and status conversion.** Frames carry only their kind and stream id. Payloads, `convertStatus` and proto encoding are data conversions that no property depends on.
- **The generator's text output.** `GenerateFile` keeps the generator's decisions but not its text. Names, comments, formatting and `protogen`'s own import handling are left out. `Send` on streams is a plain `SendMsg`.
- **mTLS / OPA round-trip test.** It is certificate and policy I/O with no protocol state.

## Open questions beyond these models

These are left open for lack of code under `src/` to translate, or because a check would show nothing:

1. **Per-stream payload order** (spec.md §8, "StreamData order matches backend order"). In `server.go`, one target goroutine is the only sender of a stream's StreamData on `replyChan`, and the single `send` goroutine relays frames in the order it takes them. So the order can only be lost inside the target stream, and that code is not under `src/`. Frames therefore carry no payload, and runs use `MaxData = 1`.
2. **ServerClose statuses** (CANCELLED wins over in-flight work, spec.md §4.2). They are decided in the target stream code, which is not under `src/`.
3. **A OneMany caller that cancels its context and keeps reading `ret`.** What `InvokeOneMany` does on cancellation is `proxy.Conn` code, which is not under `src/`.
