# A TLA+ verification of Typeway

Typeway is a Rust web framework: an API is a type, and a server, a client and
the gRPC mapping of that API are derived from it.  What the type checker
guarantees (every endpoint has a handler, the client calls what the server
serves) needs no model.  This project is about the rest: the run-time machinery
below the types, where tasks interleave, channels fill up, timers race
responses, clients vanish, and several indexes describe one routing table; about
the formats, where two codecs, a parser and its generator, or a document and the
server it describes have to agree; and about what the types really enforce when
endpoint wrappers are nested and bound.

Contents

1. [The system](#1-the-system)
2. [The modules and the code they model](#2-the-modules-and-the-code-they-model)
3. [The runs](#3-the-runs)
4. [Fairness](#4-fairness)
5. [The proofs](#5-the-proofs)
6. [Where code and documentation disagree](#6-where-code-and-documentation-disagree)
7. [What is not modelled, and the plan](#7-what-is-not-modelled-and-the-plan)

To check a run: `tlc -config MCRouter.cfg MCRouter`; to check the proofs:
`tlapm RouterProofs.tla`.  `PROJECT.json` maps every definition to the lines it
models and lists runs, mutants, findings, hazards and theorems.

## 1. The system

| Component | State | Operations | Interacts with |
| --- | --- | --- | --- |
| Router (`typeway-server/src/router.rs`) | route list, a trie and a linear list per method, one trie for all methods, a bitmap of methods, prefix, state injector, fallback, body limit; all behind one `RwLock` | `add_route`, `set_*`, `route`, `route_with_bytes` | builder, connection tasks, gRPC dispatch (takes handlers out of the table) |
| Server builder (`server.rs`) | the router | `nest`, `with_state`, `with_static_files`, `with_fallback`, `max_body_size`, `serve*` | router |
| Lifecycle (`server.rs`, `tls.rs`, `grpc.rs`) | listener, shutdown future, detached connection tasks | accept, shutdown, TLS handshake | tokio, hyper |
| gRPC dispatch (`grpc_dispatch.rs`, `grpc_direct.rs`) | method table with per-method middleware; health flag | `from_router`, `add_direct_handler`, `add_middleware`, `call` | router, codecs, streaming |
| gRPC streaming response (`grpc_stream.rs`) | bounded channel, `done` flag | `send`, `send_error`, poll of the body | handler tasks, hyper |
| gRPC client (`typeway-grpc/src/client.rs`) | circuit breaker shared by all callers; per call a loop counter | `call`, `call_server_stream`, `recv`, `collect` | servers |
| HTTP client (`typeway-client`) | retry policy; per call the attempt | `call*`, builder, streaming calls | servers |
| Native streaming, trailers (`native_streaming.rs`, `trailer_body.rs`) | channels; position in the body | `send`, `recv`, `collect`, `collect_limit`, poll | handlers, hyper |
| WebSockets, session types (`ws.rs`, `typed_ws.rs`, `session.rs`) | protocol position of each end | upgrade, `send`, `recv`, `offer`, `select`, `close` | clients |
| Server-sent events (`sse.rs`) | the event stream, the keep-alive timer | poll of the body | handlers, hyper |
| Endpoint wrappers, mounting, effects (`typed*.rs`, `auth.rs`, `mount.rs`, `effects.rs`) | what the builder's type parameters record | `bind*`, `mount`, `provide`, `layer`, `build`, `ready` | router |
| Layers (`request_id.rs`, `secure_headers.rs`) | none | wrap a service | router |
| Codecs (`framing.rs`, `compression.rs`, `web.rs`, `status.rs`, `proto_codec.rs`, `typeway-protobuf`, `derive(TypewayCodec)`) | none | encode, decode | client, dispatch |
| API tools (`proto_gen.rs`, `proto_parse.rs`, `diff.rs`, `validate.rs`, `codegen.rs`, `versioning.rs`, `negotiate.rs`, `typeway-openapi`) | none | generate, parse, compare | router, codecs |
| Example applications (`examples/realworld`, `chat`, `orderbook`) | tables and a connection pool; a roster and a broadcast channel; an order vector and a price channel | their handlers | the framework, clients |
| Migration tool, interop server | none at run time | | |

What is hard here, and which property looks at it:

* **Several structures, one truth.**  A route lives in a trie or in a linear
  list, depending on what was registered before; two more indexes decide
  between 404 and 405.  `IndexComplete`, `ResolveMatchesScan`.
* **State used across an await.**  The router finds a route under one lock,
  awaits the body, and uses the index under a second lock
  (`HandlerMatchesRequest`).  The gRPC client asks its breaker, sleeps, and then
  sends.
* **Shared state of many tasks.**  The breaker sees successes and failures of
  requests that were sent in other states than the one they come back to
  (`BreakerCoherent`, `LeaveOpen`, `Recovers`); several tasks share a stream's
  sender (`NothingLost`).
* **Limits and backpressure.**  A full channel whose reader goes away
  (`SendsReturn`); retries at their bound (`RetryDiscipline`).
* **Ends.**  A stream ends by an error, by its tasks going away, or by the client
  going away (`OkMeansComplete`, `TrailersLast`, `StreamEnds`); a server ends with
  connections open (`ShutdownReturns`, `InFlightComplete`).
* **Isolation.**  A panic or a stalled handshake must stay with its connection
  (`Isolated`, `BacklogServed`).
* **Translation.**  A REST status, a rejected body, an expired deadline or a
  refusal of the middleware must not come out as a gRPC OK (`NoFalseOk`,
  `MiddlewareRuns`, `DeadlineEnforced`); nor may gRPC-Web or an escaped header
  change it (`WebStatusFaithful`, `ErrorTextSurvives`).
* **Retries and late answers.**  A request may be carried out, its answer lost, and
  the request sent again (`RepeatsExplained`, `ErrorsHonest`).
* **Everyone waits for everyone.**  Both directions of a stream are full, both ends
  of a session listen, all requests hold one connection of the pool and want a
  second (`StuckOnlyWhenOverfull`, `NeverBothWait`, `RequestsAnswered`).
* **Half of it done.**  Statements without a transaction, a request dropped after its
  price is out and before its order is stored, a connection that breaks before it has
  left the roster (`WholeArticles`, `PricesAccounted`, `DroppedForGood`, `RosterDrains`).
* **Other versions, other halves.**  Bytes written by another version of a schema,
  by the other codec, or cut off (`ReaderKeepsFields`, `CodecsAgree`,
  `CutNeverInvents`); one version of an API compared with the next, by its types and by
  its .proto file (`VersionsAgree`, `DiffIsSound`, `CompatibleStillServed`).
* **Guarantees that are a missing impl.**  That a protected endpoint cannot be bound
  without credentials, and that effects are found under every wrapper
  (`AuthGuards`, `EffectsDischarged`, `DeclaredIsServed`).

## 2. The modules and the code they model

```
 CircuitBreaker <- GrpcClient <- GrpcWireProofs          MCGrpcClient
 Paths          <- Router     <- RouterProofs            MCRouter
 ResponseStream <= GrpcStream <- GrpcStreamProofs        MCGrpcStream
              ServerLifecycle <- ServerProofs            MCServerLifecycle
                 GrpcDispatch <- GrpcDispatchProofs      MCGrpcDispatch

 HttpClient  WsSession  NativeStream  Sse
 Chat        RealWorld  Exchange                         MCServices
 ResponseStream <= NativeStream
               Folding <- Sse
     Chat, RealWorld, Exchange <- AppsProofs
        MCServices, AppsProofs <- ServicesProofs

 Bytes, Folding <- Varints      <- TypewayCodec <- ProtoCodec <- Transcoder
 Bytes, Folding <- GrpcWire     <- Transport
            Varints, Transport <- GrpcWireProofs
 Transcoder, Transport <- WireExchange                   MCWireExchange \
   ProtoCodec <- ProtoSchema <- OpenApi <- ApiTools      MCApiTools      > MCFormats
        Paths <- ApiTools
                EndpointStack <- ServerProofs            MCEndpointStack/

 Folding <- FoldingProofs <- GrpcWireProofs, ServicesProofs
```

`<-` is EXTENDS (or INSTANCE), `<=` a refinement (`KeepsPromise`, `CallKeepsPromise`).

**CircuitBreaker, GrpcClient.**  `CircuitBreaker` has one operator per method of
the type: each holds the mutex for its whole body, so each is one step.  Time is
what the code compares: ticks since the last failure, up to the reset timeout.
`GrpcClient` cuts `send_request` at its awaits: loop head with the breaker check
(`Admit`, `Reject`, `Exhausted`), backoff (`Wake`), `send_request_once` up to the
exchange (`Send`, `EncodeError`) and its end (`AnswerOk`, `AnswerError`).
`Cancel` drops a caller's future at an await, which records nothing.
`max_retries + 1` is computed in the width of its type (`U32`), so that the
wrap-around of a release build is in the model.  `Weather` switches between a
server that fails and one that answers, for the liveness properties.

**Paths, Router.**  A path is the sequence of its parts between slashes, a
pattern a sequence of literals, typed captures and a rest capture.  `Extract` is
what the path types accept, over non-empty segments; `ShapeMatches`, `Conflict`
and `Precedes` describe the external `matchit` trie, which works on the parts and
does not know the types of captures.  The difference between the two is the
source of most of what can go wrong.  `add_route` fills all the indexes in one
step, as the code does under its write lock.  A request takes its lookup under the
first read lock (`route`), then its body (`collect_body_limited`, `body_error`),
then its handler (`handle`, `handler_panics`), and may be dropped at any await
(`leave`).  Endpoint handlers are modelled by their `Path` and `State`
extractors.  The static file handler is modelled by the file path it computes;
whether that file exists, and the refusal of `..`, are left out.

**ResponseStream, GrpcStream.**  `ResponseStream` is the promise of a
server-streaming response: messages go out in the order they were accepted, then
one status, OK only if all are out and no producer is left; a stream may be cut.
`GrpcStream` has the sending tasks, the bounded tokio channel, the `unfold` that
is the body, hyper dropping it, and the native client reading it.  A message that
does not serialise is sent as a frame without bytes, as the code does.

**ServerLifecycle.**  The accept loop of `serve_with_shutdown` (four copies: plain
and layered, REST and gRPC) and that of `serve_tls_loop`, the listen queue, the
detached connection tasks and the end of the process.  A panic under
`RouterService` is answered with a 500; one in a layer or under the native
gRPC dispatch ends a task.

**GrpcDispatch.**  The method table with `add_direct_handler` and
`add_middleware` in any order, and `GrpcMultiplexer::call` cut at its awaits:
body, each middleware, handler against deadline, response.  A body is modelled by
what decodes it.  What an extractor sees depends on the client's encoding, the
presence of a transcoder and captures in the REST path.  The table does not
change once the server runs and requests share nothing else, so one request at a
time is all there is to see.  A middleware that replaces the body is not
modelled.

**HttpClient.**  Every way to make a call (`call`, `call_with`, `call_full`, the
request builder, streaming), the retry loop with its backoff in milliseconds, and
a network that loses requests and answers and delivers late.  The server carries a
request out or refuses it; what it did is compared with what the caller is told.

**WsSession.**  The upgrade and the typed channel.  A protocol is a graph of session
types; server and client walk it in dual directions, over a window of frames, with
pings and closes in between.  `Rec` and `Var` are names for the type that follows them:
two nodes are the same type (`SameType`) if only names lie between them.  `offer` is as
it is in the code: what is not the left branch is the right one.

**NativeStream.**  The two bounded channels of a call, the connection between them
with its own window, handlers of each kind (echo, collect, collect with a limit,
server stream), clients that read while they write or write first, and
`GrpcStreamBody::poll_frame` with its trailers.  The guard of every step is named
(`Can...`), so that a call which can do no more is a state predicate (`Stuck`).  Every
call also implements `ResponseStream`: what its handler takes on is accepted.

**Sse.**  Events with their line ends, the body and `keep_alive`'s `select` of events
and ticks.  The browser's line reader is external: a text is the sequence of its
characters, and splitting it into lines and reading the lines are loops over them.

**Folding.**  A loop over a sequence as a function (`Fold`): the models of loops that
proofs are about, in `Sse` and `GrpcWire`, are written with it.

**Chat, RealWorld, Exchange.**  The example applications, since they are where the
framework's concurrency meets application state.  `Chat` cuts the handler at its
awaits with the users' mutex held as in the code.  `RealWorld` has the pool with its
timeouts, the tables with their constraints and cascades, and every handler as the
sequence of its statements, each of which may fail or be the last one of a dropped
request.  `Exchange` cuts `submit_order` between number, price and vector.  Its only
await is at the lock of the vector (`main.rs:284`), after the price is sent; if the
request is dropped there (`DropRequest`), the price is out and the order never stored.

**Bytes, Varints, TypewayCodec, ProtoCodec, Transcoder.**  Bytes are sequences of small
numbers, integers are of `IntBits` and `WordBits` bits, so that lengths and tags of two
bytes, sign extension and overlong varints all occur.  `Varints` has the helpers of
`codec.rs`, as recursive functions, so that they can be proved about; `TypewayCodec` is the code
`derive(TypewayCodec)` generates, kind by kind, with `encoded_len` by its own formulas.
Decoding goes by offsets into the whole message, as in the code: a packed field's length
only decides when its loop ends, and the last item may take bytes from behind the field;
`ProtoCodec` the codec driven by descriptors between JSON and bytes; `Transcoder` finds
the descriptors of a service's methods.

**GrpcWire, Transport, WireExchange.**  `GrpcWire` is what a message travels in: frames,
trailers, compression flags, escaping, status details and gRPC-Web.  `Transport` is one
exchange of such things: a side writes, the network may cut, the other side reads;
`WireExchange` adds the exchanges in which the message itself is translated, by a side of
another version or with the other codec.

**ProtoSchema, OpenApi, ApiTools.**  A .proto file is the sequence of its lines, each
a record; the generator writes them, the parser reads them block by block as the
code does, closing braces included.  `OpenApi` has the schemas `derive(TypewaySchema)`
makes, the document, the handler docs, Swagger 2.0 and the generators back to Rust.
`ApiTools` is one task of a tool: generate, parse, judge; it reads `Paths` for what
the router makes of an API.  The client generator is modelled with and without
codec attributes: only the first writes tags, and both keep `stream ` in the type names
of a streaming method.  Two versions are compared by `HasEndpoint`, the trait;
`assert_api_compatible!` has no part in the model, since it refuses nothing (section 6).

**EndpointStack.**  An endpoint type is a path under a stack of wrappers.  A step of
the author exists if the program compiles: which binders an endpoint type has
(`Bindable`, `bind_*`), what `mount`, `provide`, `layer`, `ready` and `build` ask for.
A `Server` and an `EffectfulServer` have one tuple of endpoints as their API, a
`ServerBuilder` a tuple of sub-APIs.
An index witness is inferred only if there is exactly one, so a sub-API mounted twice
or an effect provided twice does not compile where it is needed.  The server so made
then answers requests: layers in, route, the binder's check, the extractors in their
order, layers out.

## 3. The runs

Passing runs:

| Run | Instance | Shows |
| --- | --- | --- |
| `grpc_client` | 2 callers, threshold 2, timeout 2 ticks, configurations with and without breaker and policy, and with a wrapping `max_retries` | safety: `BreakerCoherent`, `RetryDiscipline`, `LeaveOpen`; liveness: `Recovers`, `CallsReturn` |
| `router` | up to 3 of 4 overlapping routes of two methods, repeated ones included and one of them a static directory, in any order and with every order of builder calls; a third method without routes; paths inside and outside the nest prefix | `IndexComplete`, `HandlerMatchesRequest`, `ResolveMatchesScan`, `MatchedPathExtracts`, `StaticServesPath` |
| `grpc_stream` | 2 tasks, buffer of 2, 4 sends of 2 items (one not serialisable) or an error | safety: `NothingLost`, `OkMeansComplete`, `TrailersLast`, `KeepsPromise`; liveness: `SendsReturn`, `StreamEnds` |
| `server_lifecycle` | 3 connections, 2 requests each, plain and TLS | `Isolated`; liveness: `ShutdownReturns`, `BacklogServed` |
| `grpc_dispatch` | 2 methods (one with captures), 2 middlewares, direct handlers that replace a standard entry or have none to replace, all encodings, bodies and deadlines | `NoFalseOk`, `MiddlewareRuns`; liveness: `DeadlineEnforced` |
| `services` | one part at a time: 2 calls of an HTTP client for each configuration; a protocol with choices and a loop, a window of 2; 3 chat sockets, 2 names; channels of 1, up to 5 items; 2 requests of the RealWorld API over a pool of 2; 3 events with a keep-alive of 2 ticks; 3 orders of 2 clients over a channel of 1 | safety: `AnswersHonest`, `SessionInStep`, `StreamsInOrder`, `SharedStateWhole`, `NothingTakenBack`; liveness: `EverythingEnds` |
| `formats` | one exchange, one task or one server at a time: messages of every kind of field with tags around 16 and values around their limits, read whole, cut and by other versions; arbitrary short byte strings; APIs of up to two endpoints of every shape; hand-written messages of up to three items; all graphs of four files with few imports; two-endpoint APIs with a change; every stack of up to two wrappers and some of three | `CodecsFaithful`, `TransportFaithful`, `ToolsAgree`, `DocumentTruthful`, `StackSound` |

The properties of `services` and `formats` are conjunctions: what several parts
promise of one kind, each part's promise a named conjunct with its own comment in the
module of that part.

| Property | Its conjuncts |
| --- | --- |
| `AnswersHonest` | `OkMeansExecuted`, `RepeatsExplained`, `ErrorsHonest`, `BackoffGrows` (HttpClient), `WholeArticles` (RealWorld), `ToldIsTrue` (Exchange), `EchoesAreMessages` (Chat) |
| `SessionInStep` | `InStep`, `NeverBothWait` (WsSession) |
| `StreamsInOrder` | `OrderedThenTrailers`, `CollectedPrefix`, `StuckOnlyWhenOverfull` (NativeStream), `ClientSeesEvents`, `NeverSilent` (Sse), `StreamHasNoGap` (Exchange) |
| `SharedStateWhole` | `RosterExact` (Chat), `ConstraintsHold`, `PoolWhole` (RealWorld), `NumberedOnce`, `PricesAccounted`, `DroppedForGood` (Exchange) |
| `NothingTakenBack` | the action properties `OwnerOnly` (RealWorld), `NoLateMiss` (Exchange), and the refinement `CallKeepsPromise` (NativeStream) |
| `EverythingEnds` | `CallsReturn` (HttpClient), `SessionMoves` (WsSession), `RosterDrains` (Chat), `CallEnds` (NativeStream), `RequestsAnswered` (RealWorld), `EventsGetOut` (Sse), `CallsAnswered` (Exchange) |
| `CodecsFaithful` | `ReaderKeepsFields`, `CarriedLenExact`, `CodecsAgree`, `VariantArrives`, `ServiceRoundTrip`, `CutNeverInvents`, `DecodedIsStable` (WireExchange) |
| `TransportFaithful` | `FramesAreAPrefix`, `PackedReadOrRefused`, `ErrorTextSurvives`, `WebStatusFaithful` (Transport) |
| `ToolsAgree` | `GeneratedReadsBack`, `ClientAndServerAgree`, `GeneratedIsValid`, `WrittenIsParsed`, `CodegenKeepsWire`, `ImportsOnce`, `DiffIsSound`, `VersionsAgree`, `CompatibleStillServed`, `AcceptHonoured` (ApiTools) |
| `DocumentTruthful` | `DocumentedAsServed`, `DocsLandOnce`, `CodegensAgree`, `GeneratedReads`, `SchemaAdmits` (ApiTools) |
| `StackSound` | `AuthGuards`, `EffectsDischarged`, `DeclaredIsServed`, `OneRequestId` (EndpointStack) |

The runs with a liveness property check the specification with its fairness
(`FairSpec`, `ServicesSpec`), and use no symmetry, which would not be sound for liveness.

The bounds are small but reach the cases that matter.  Two callers are enough for
one to open the breaker behind the other's back; the failure counter goes
past its threshold, and the attempt counter to its bound.  Three routes are the
least for one to be in the trie, one in the linear list and one in the unified
trie only; four add only more of the same, and the proofs cover every table.  A
buffer of two is full after two messages, and the two tasks then compete for the
next slot; the four sends let one more message follow an error.
Two connections show interference; the third lets two of them interfere with one
that is in the queue.  Counters that the code does not bound (`MaxFailures`,
`MaxSends`, `MaxRoutes`, `MaxStreams`, `MaxMiddleware`, `MaxCalls`, `MaxMessages`,
`MaxEvents`, `MaxOrders`, `Rounds`, `MaxMounts`, `MaxProvides`, `MaxLayers`) are
bounded by a guard.

In `services` and `formats` a behaviour is about one part, chosen in the first
state, so that the states are the sum of the parts'.  The parts are separate programs
that share no state.  Two requests over a pool of two are the least for both to
hold one connection and want another; a channel of one and up to five items pass what
the two channels, the connection and the handler can hold; a broadcast channel of one
makes every second price a lag.  Widths of 8 and 16 bits give varints of one, two and
three bytes.

`CHECK_DEADLOCK FALSE` appears where the system may really stop: a stream that
has ended, a process that has exited, requests that were all answered.

Every property of a passing run has a mutant, and a conjunction one for every
conjunct: an operator next to the one it replaces, which changes it the way a
plausible bug would, and under which TLC finds the property violated.

The other runs expect a violation; see section 6.

## 4. Fairness

* `GrpcClient`: tasks are polled and timers fire.  An exchange without an answer
  is ended by the per-request timeout, which the default configuration sets (30
  s); without a timeout a call may wait for ever.  `Call` is fair because a breaker
  only closes by being used.  `Recovers` further assumes, in its premise, that the
  server answers from some time on.
* `GrpcStream`: hyper polls the body (the native client reads without pause) and
  drops it when it ends or is reset.  `Accepted` is strongly fair because tokio's
  semaphore is first come, first served; the other steps are weakly fair.  Nothing
  is assumed of the producers.
* `ServerLifecycle`: the loop is polled, and `select!` without `biased` does not
  favour a branch, so the shutdown branch and the accept branch are each weakly
  fair.  Nothing is assumed of handshakes, handlers or clients.
* `GrpcDispatch`: only timers are fair.
* `HttpClient`: tasks are polled and timers fire.  A request without an answer ends
  by the timeout `ClientConfig` sets (30 s by default).  Nothing is assumed of the
  server or the network: `Arrive` is the client's reading of a head that is there.
* `WsSession`: the handler's task is polled.  The step of an honest client is strongly
  fair, since pings may take its turn in the window again and again; the client may
  still leave at any time.
* `Chat`: tasks that wait for nothing but the roster's mutex are polled.  That a socket
  sends, receives or ends is not assumed: `RosterDrains` is about those that have left.
* `NativeStream`: handler, body and connection are polled, and the client does what
  its program says.  `CallEnds` is about clients that read.
* `RealWorld`: requests are polled, statements end or fail, and the pool's wait
  timeout fires (`db.rs` sets 5 s): without it the hold-and-wait of two connections
  would be a deadlock.
* `Sse`: the body is polled and time passes.  That events and pings take turns is the
  model of `select` and not an assumption.
* `Exchange`: handlers are polled and the deadline of the stream fires.

In `MCServices` each fairness condition holds for the part a behaviour is about.
The modules of `MCFormats` have no liveness properties.

## 5. The proofs

All theorems hold for every value of the constants that satisfies the named
assumption of the module: `BreakerAssumption`, `ClientAssumption`, `RouterAssumption`,
`StreamAssumption`, `LifecycleAssumption`, `DispatchAssumption` and `MarksAssumption`,
`HttpAssumption`, `SessionAssumption`, `NativeAssumption`, `SseAssumption`,
`ChatAssumption`, `PoolAssumption`, `ExchangeAssumption`, `StackAssumption`,
`TransportAssumption` and `WordAssumption`.  The assumptions are typing facts (a protocol
is a table of types, a policy a record of numbers; messages are bytes, shorter than the
2^32 a frame's length can say; a word has 8 to 64 bits), disjointness of names, and positive sizes where tokio panics or rounds up otherwise (a
channel's capacity, the interval of a sleep).  The checked instances satisfy them: TLC
evaluates them on every run.

**FoldingProofs.**  The provers have no induction scheme for an operator, so an induction
here is the question which number is the least counterexample (`LeastNumber`,
`EverySequence`).  `FoldIs` says what a loop computes from the values it is claimed to
have after each element; the other lemmas are about loops that write a text piece by
piece (`WritesFold`, `TextGrows`) and about where a piece then is (`WrittenAt`).
`RecursionExists` says that a function may be defined by its values at smaller numbers.

**GrpcWireProofs.**  `TransportIsFaithful`: `TransportFaithful` for any number of messages
of any length, any cut, any status, any accept header.  The invariant says that what is
on the wire is what was written or an initial part of it (`OnTheWire`), and that what was
read is what the reader makes of that (`AsRead`); so everything comes down to what the
loops of the readers compute.

* `decode_grpc_frames` (`FramesAreSeen`, `TrailersAreSeen`, `Scanned`).  The loop's values
  are given outright: after k rounds it stands behind the first k frames and has read
  them.  A body that was cut has a first frame that is not complete, the one of least
  number, and there the loop stops; so it reads the frames before it and nothing else.
* `decode_grpc_message` after `encode_grpc_message` (`EscapedIsRead`).  The escaped text is
  the pieces of its bytes one after the other, and the reader stands at the begin of a
  piece whenever it looks for one; so a byte that looks like an escape is never read as
  one.  A text that has nothing to escape is read as it is (`PlainIsRead`), and an escaped
  one is visible ASCII, as a header requires (`EscapedIsVisible`).
* `decode_frame_with_decompression` (`PackedIsRead`) with whatever `negotiate_compression`
  answers (`Negotiated`), the status parts (`StatusIsRead`) and the gRPC-Web answer.

The theorem is about `TransportSpec`: the steps of the four parts of `Transport` are those
`FormatsSpec` takes, and `OtherPart` lets everything else happen in the exchanges of other
parts.  `FormatsSpec` itself cannot be named in a module with a theorem, since the
modules of those other parts declare recursive operators.

Varints are proved about for words of any size up to the 64 bits of the code, where TLC
has words of 16 bits:

* `VarintsReadBack`: every word is read back as it was written, whatever follows; what is
  written has the length `tw_varint_len` computes by its formula; and a varint that was
  cut anywhere is refused.  `VarintsAre` and `Ilog2Is` are the recursions as equations,
  `VarintsEnd` says where the continuation bits are, `GroupsAdd` what the reader's loop has
  added up after them; `Ilog2OfGroups` ties the position of the highest bit to the groups
  of seven.
* `ZigzagReadsBack`: zigzag is a bijection between signed numbers and words.
* `SkippingIsExact`: what is skipped of an unknown field lies within the bytes, whatever
  they are (`DecodedIsAWord`), and what was written is skipped to its end, as long as the
  header and the value together fit into a word; otherwise the sum wraps.

The same module holds the theorems about the native client: `TypeCorrect`,
`BreakerIsCoherent`, `RetriesAreDisciplined`, `OpenIsLeftInTwoWays`.  `BreakerCoherent` is
inductive together with the types: a failure either stays below the threshold in Closed
or opens; HalfOpen is only reached from Open, where the counter is at the threshold
already, so the next failure reopens.  `RetryDiscipline` is inductive because it ties the
length of the log to the loop counter while a call runs.  The action property `LeaveOpen`
follows step by step from the coherence.

**RouterProofs.**  `RouterTypeCorrect`, `RegistrationIsComplete`,
`RequestsKeepTheirHandler`, `ResolveIsAScan`, `ExtractorsAgreeWithMatch`,
`StaticFilesAreTheRest`.  The invariant is
`TypeOK /\ IndexComplete /\ HandlerMatchesRequest /\ Quiet`, where `Quiet` says
that no request is in the server before it serves: the table then never changes
under a request, which is what makes the index found under the first lock valid
under the second.  `ResolveMatchesScan` follows from `IndexComplete` without
further induction: on a plain path at most one pattern of a trie matches, since two
that do would conflict, and every accepting route of a bucket is either that one
or in the linear list.  The last two theorems need what an answer says of the table it
came from (`HonestAnswers`): a rejected path is one whose extractor is of another type
than the route's pattern, and a static answer holds the file of its own request.

**GrpcStreamProofs.**  `StreamTypeCorrect`, `StreamLosesNothing`, `OkIsComplete`,
`NothingAfterTrailers`, `StreamKeepsPromise`.  The invariant adds to `TypeOK` and
`NothingLost` that a task which is gone has no send pending (`GoneIsSilent`), that
`done` and the trailers agree and an OK status came with the channel empty and the
tasks gone (`EndIsFinal`), and that what the client holds is what was on the wire
(`ClientHasWire`).  The refinement maps each step to one of `ResponseStream` or to
a stutter: an accepted send to `Accept`, the last task leaving to `Close`, the
polls to `Deliver`, `Fail` and `Finish`, and a reset to `Cut`.

**GrpcDispatchProofs.**  `DispatchTypeCorrect`, `MiddlewareComesFirst`,
`OkIsNeverFalse`.  The invariant is `TypeOK`, `TableInv` (a standard entry carries the
middleware registered for its path; no request before the server serves) and for every
request `ReqInv`: its entry is there and of the kind its state says (`Routed`), the
middleware that passed it is an initial part of the entry's and all of it once the
handler runs (`InLine`), its body is one that codec and extractor took (`BodyTaken`),
and an Ok it got is true (`OkIsTrue`).

**ServerProofs.**  `StackTypeCorrect`, `WhateverCompilesIsSound`: `StackSound` for wrappers
nested to any depth, APIs of any size and builder calls in any order.  `Kept` is what the
builder's type parameters promise of the router (everything mounted is served, effects
are discharged once it serves); `Underway` what a request may have met so far.  That the
extractors run in order, so that missing credentials are a 401 whatever else is wrong,
comes from lemmas on the first failing extractor.

`LifecycleTypeCorrect`, `ConnectionsAreIsolated`: the type invariant of the lifecycle says
that requests run on open connections only, and is inductive; `Isolated` is then a
property of each step.

**AppsProofs.**

* `ChatIsExact`: a registered socket has a name and its handler still runs; a name on the
  roster is that of a registered socket, and the other way round while names are unique.
* `OrderBookIsWhole`, `NoMissAfterAck`: numbers in use are below the counter, a call at
  its price has none out and one at the vector has, and is not stored yet; the number of
  a dropped request is in the channel once, in no call and not in the vector, so that
  every price is that of a stored order, of a call at the lock or of a dropped one, and
  `not_found` is all that is ever said of the last (`DroppedFacts`).
* `TablesAndPoolAreWhole`, `OnlyOwnersChangeRows`.  Every statement is shown to keep the
  tables and their constraints once and for all (`ExecuteIsSound`), whatever row it is
  given; the invariant adds that a request is at a statement of its script and that
  connections are counted by the requests that hold them (`RwInv`).
* `CreatedArticlesAreWhole`: an article that lacks a tag was made by a request that still
  has a statement for each missing tag, failed, or was followed by another one of the
  same worker (`TagInv`).

**ServicesProofs.**

* `HttpAnswersAreHonest`.  The invariant ties the requests sent to the errors seen and to
  the sleeps (`Trying`, `Returned`), and what the server did plus the copies still under
  way to the requests sent (`Accounted`).  That the backoff grows rests on the powers of
  the multiplier: a recursive function over the naturals, which exists and grows because
  no number is the least counterexample.
* `SessionsStayInStep`, for every protocol: the types at the two ends are joined by a way
  through the protocol along the frames between them, from the reader's type to the
  writer's (`Leads`).  A frame under way in one direction means that nothing but pings is
  under way in the other, since a type that sends is not one that receives; that is what
  keeps both from waiting.  When one end is gone the way remains for the other to read.
  Names of types are no steps: a set that keeps names with what they name tells two
  types that are no names apart (`NoNameIsItself`), loops of names included.
* `StreamsKeepOrder`: requests taken, in the channel and written are one sequence with an
  error at its end at most (`Pending`); what an echo took is on the wire, in the response
  channel or in its hand, in this order (`Echoed`).  That a call gets stuck only where its
  client writes first and more than every buffer holds: if nothing can move, both
  channels and the window are full, and what the client wrote is their sum.  `Stuck` says
  that no guard of a step holds, without ENABLED; that the guards are those of the steps
  (`CanMove <=> ENABLED NsProgress`) is a part of `CallEnds`, which TLC checks.
* `CallIsAResponseStream`: a call implements `ResponseStream`.  What the handler takes on
  (each request an echo takes, the count of one that collects) is accepted, a poll that
  finds an answer delivers it, the trailers finish, the handler's return closes, and a
  body that is dropped is cut.
* `PingsComeInTime`: while the body is pending the sleep runs, and no frame is older
  than it (`Sleeping`).
* `EventsAreSeen`: `to_wire` cuts a text at its line ends and writes a line for each part,
  and what an `EventSource` reads from these lines is the event again, for texts of any
  length with line ends anywhere; by induction over the characters, as above.
* `ServicesTypeCorrect`, `SessionsAreInStep`, `AnswersAreHonest`, `StreamsStayInOrder`,
  `SharedStateStaysWhole`, `NothingIsTakenBack`: the properties of the `services` run.  A
  behaviour of `ServicesSpec` is one of every part (`WholeIsItsParts`), so what was shown
  of the parts holds together.

Only model-checked:

* all liveness properties: liveness under fairness is out of the prover's reach;
* `FormatsTypeOK`, `CodecsFaithful`, `ToolsAgree` and `DocumentTruthful`: the codecs, the
  parser and the generators are recursive operators over trees of data (values, blocks,
  schemas), and the prover has no SMT backend in a module that reaches one.  A loop over a
  sequence can be written with `Folding`, as framing and escaping are; a value nested to
  any depth cannot.

## 6. Where code and documentation disagree

Five statements of the repository are runs that are expected to fail, each with
one property taken from the sentence that `PROJECT.json` quotes.

| Run | What the code does |
| --- | --- |
| `router_overlap` | A route behind a more literal pattern is a 404 for a path only it accepts. |
| `grpc_stream_error_status` | The native client takes a failed stream for a complete one. |
| `server_in_flight` | Requests in flight are cut off when the program ends after the shutdown. |
| `grpc_dispatch_middleware` | Middleware of a method with a direct handler never runs. |
| `encoded_len` | `encoded_len` is not the number of bytes written for a bool with a tag from 16 on, nor for optional bytes. |

The models behave like the code in the following cases too, which are not
carried as runs of their own.  Where a property leaves such a case out, its comment
says so.

* `router.rs:312`: for a path with a trailing slash that a linear list of another
  method serves, the answer is 404 and not 405; the comment says "it's definitely
  a 404".  `ResolveMatchesScan` is about plain paths.
* `extract.rs:93`: `Path<P>` of a `Versioned` endpoint reads the path with its
  version segment and rejects every path the route matches.
  `MatchedPathExtracts` leaves those endpoints out.
* `server.rs:237`: the static prefix itself (`/static`, `/static/`) is a 404,
  since `{*path}` does not match an empty rest.
* `server.rs:254`: below a nest prefix the static handler drops as many parts as
  its own prefix has, which leaves its prefix in the file path.
  `StaticServesPath` leaves nested servers out.
* `router.rs:419`: a second `with_state` replaces the first.
* `client.rs:494` (typeway-grpc): the breaker is asked before the backoff and not
  after it, so a retry may be sent while the breaker is open.
* `client.rs:346`: `ClientStream::collect`, "all remaining messages", returns those
  again that `recv` has returned.
* `server.rs:574`: keep-alive connections take new requests after the shutdown.
* `grpc_dispatch.rs:683`: direct handlers run without the client's deadline.
  `DeadlineEnforced` is about handlers behind REST routes.
* `grpc_dispatch.rs:735`: for a REST path without captures a `Json` handler is
  given the bytes of a binary client, and rejects them.
* `grpc_dispatch.rs:472`: a `GrpcStream` sent to a binary client is in JSON.
* `grpc_dispatch.rs:722`: `max_body_size` does not apply to gRPC requests.
* `grpc_dispatch.rs:833`: a panic under the native dispatch is not caught, so the
  request is not answered.

Clients, streams and applications:

* `typeway-client`: a `reqwest` client passed in brings its own timeout, and
  `ClientConfig`'s is not applied; without one a call may wait for ever.
* `sse.rs:197`: a stream under `keep_alive` never ends, not after its events have
  either.  `EventsGetOut` says so.
* `examples/realworld`: `create_article` is bound with `bind_auth!`, so the validator
  of its type never runs; its statements are not in a transaction.
* `examples/chat/src/main.rs:236`, "Broadcast to all connected clients": nobody
  subscribes to the channel; two sockets of one name share a roster entry.
* `examples/orderbook/src/main.rs:275`: a price is out before its order is stored, so
  an early cancel is told `not_found`; if the request is dropped at the lock (`:284`),
  the price stays out and the order is never stored.  `PricesAccounted` counts these.

Formats:

* `grpc_dispatch.rs` writes `grpc-message` without escaping while the client unescapes
  it, and the message of a `RichGrpcStatus` is not escaped either.
* `web.rs:253`: a status that is only in the HTTP trailers is lost for gRPC-Web.
* `framing.rs`: `decode_grpc_frames` does not look at the compressed flag, and the
  direct dispatch drops five bytes whatever length they state.
* `derive(TypewayCodec)`: optional and repeated bytes are not read back, minus zero is
  taken for the default; `Carried` leaves these and truncated bool tags out.
* `typeway-macros/src/lib.rs:3673`, `:3704`: an item of a packed field is read from the
  whole message, so the last item of a field whose length cuts it takes what follows:
  of `0a 01 80 18` the field is [3072].  A length that does not fit wraps around.
  `CutNeverInvents` is about messages that are cut, which this does not affect.

Tools:

* `proto_parse.rs:457`: the brace of a nested enum or oneof closes the message around
  it, and its later fields are lost.
* `proto_parse.rs:271`: a root file that is imported is read twice, though circular
  imports are said to be skipped.
* `proto_gen.rs:472`: PUT and PATCH of a path get one rpc name, `/posts` and
  `/users/{}/posts` too; an enum as the message of an rpc is "not defined", a map as a
  response is invalid; a message that refers to itself is expanded without end.
* `diff.rs`: whether a field is repeated or optional is not compared.
* `codegen.rs`: without codec attributes the tags are lost; zigzag and fixed integers become plain ones, HEAD and OPTIONS become
  GET, equal paths are declared twice.
* `negotiate.rs`: `q=0` is a low preference and not a refusal.
* `versioning.rs:1530`: `assert_api_compatible!`, "Verify at compile time that every
  endpoint in the old API exists in the new" one, accepts every API: it expands to
  functions generic over the witness of `HasEndpoint`, whose `where` clause is then an
  assumption, and nobody calls them.  The test that it refuses is a comment
  (`tests/versioning_test.rs:248`).  The properties take "compatible" to be that
  `HasEndpoint` holds of every old endpoint, as a call that infers it proves.
* `versioning.rs`: where `HasEndpoint` does hold of every old endpoint, a new endpoint
  may still take over an old one's requests (`CompatibleStillServed` leaves these out);
  `VersionedApi` does not relate base, changes and result.
* `derive.rs:729`: of two endpoints with one method and pattern the document shows the
  last, the router serves the first.  `derive.rs:788`: handler docs go to the first
  free operation.
* OpenAPI: `u32` is `int32` and comes back as `i32`; `None`, `()` and untagged unit
  variants are null, which the schemas do not admit; tuple variants are typed by their
  first element; Swagger 2.0 loses the security of an operation; the two generators
  treat enums with data differently.

Wrappers and builders:

* `typed_bind.rs:21`, `typed.rs:53`: a `Validated` or `ContentType` endpoint bound with
  `bind!`, or inside a `Protected` one with `bind_auth!`, runs without its check;
  `bind_validated!` and `bind_content_type!` cannot be combined.  `typed.rs:195`:
  `RateLimited` is enforced nowhere.
* `core/effects.rs:56`, "or compilation fails": a plain `Server` never asks for
  effects, `mount` accepts sub-APIs outside of the API type, whose effects nobody asks
  for, and `provide` does not require the layer it speaks of.
* `effects.rs`: an API with a `Versioned`, `ContentType`, `RateLimited` or `Strict`
  endpoint has no `AllProvided` and cannot be served behind these builders.
* `request_id.rs:98`: with two layers and no id from the client, handler and client
  know a request by different ids.  `OneRequestId` leaves that case out.

## 7. What is not modelled, and the plan

Left out for good: the migration tool, which rewrites Rust source and keeps no state;
the interop server and the remaining examples, which only use what is modelled; the
documentation pages, which are constant text; the path and handler macros, which name
types.  Of the extractors, headers, cookies, queries and multipart bodies are pure
lookups.  matchit, tokio, hyper, reqwest, serde and PostgreSQL are external and
modelled by how the code uses them.

Next, in this order:

1. **The generated codecs** as loops over their fields, without recursive operators, so
   that `CodecsFaithful` can be proved from `VarintsReadBack` and `SkippingIsExact`.
2. **Synthetic requests**: `extract_capture_values` and the substitution of values into
   the REST path, in `GrpcDispatch`.
