---------------------------- MODULE GrpcDispatch ----------------------------
(***************************************************************************)
(* The native gRPC dispatch (typeway-server/src/grpc_dispatch.rs and       *)
(* grpc_direct.rs): the method table of GrpcRouter, and what               *)
(* GrpcMultiplexer::call does with a request, up to its response.          *)
(*                                                                         *)
(* A request is one task.  Its steps are the stretches of code between the *)
(* awaits of `call`: the body, each per-RPC middleware, the handler (raced *)
(* against the grpc-timeout) and the body of the handler's response.       *)
(***************************************************************************)
EXTENDS Integers, Sequences, SequencesExt

CONSTANTS
  Requests,      (* requests in the system                                 *)
  Methods,       (* gRPC method paths of the service descriptor            *)
  Unknown,       (* a gRPC path that is not in it                          *)
  RestHandlers,  (* methods whose REST route the router has a handler for  *)
  WithCaptures,  (* methods whose REST path has captures                   *)
  Extractor,     (* body extractor of each method's handler: "json" for    *)
                 (* Json<T>, "proto" for Proto<T>, "none" without a body   *)
  DirectPaths,   (* paths a direct handler may be registered for           *)
  Middlewares,   (* per-RPC middleware functions                           *)
  Transcoders,   (* BOOLEAN values: whether binary protobuf is enabled     *)
  HttpStatuses,  (* statuses a handler may answer with                     *)
  MaxMiddleware, (* bound on the middleware calls of the set-up            *)
  Nothing,
  Stream,        (* a handler's answer that is a GrpcStream                *)
  Rejected       (* an answer of the body extractor, not of the handler    *)

Paths == Methods \cup {Unknown}

ASSUME DispatchAssumption ==
  /\ Unknown \notin Methods
  /\ RestHandlers \subseteq Methods
  /\ WithCaptures \subseteq Methods
  /\ Extractor \in [Methods -> {"json", "proto", "none"}]
  /\ DirectPaths \subseteq Paths
  /\ Transcoders \subseteq BOOLEAN
  /\ HttpStatuses \subseteq 100..599
  /\ MaxMiddleware \in Nat

VARIABLES
  serving,     (* the server runs: the table no longer changes             *)
  transcoder,  (* GrpcMultiplexer::transcoder is set                       *)
  handlers,    (* GrpcRouter::handlers                                     *)
  registered,  (* history: middleware add_middleware was called with       *)
  req          (* the requests                                             *)

setupVars == <<transcoder, handlers, registered>>
vars == <<serving, setupVars, req>>

Entries == [kind : {"standard", "direct"}, middleware : Seq(Middlewares)]

(* What a request asks for, and in which encoding.  "json" and "proto" are *)
(* bodies that decode in that encoding only, "junk" in neither, "large"    *)
(* in that of the request but is longer than max_body_size; "lost" is one  *)
(* whose transfer fails.                                                   *)
Targets == Paths \cup {"rest", "health", "reflection"}
Bodies == {"json", "proto", "junk", "large", "lost"}

(* Where a request is.  The last two are final.                            *)
States == {"none", "arrived", "collect", "middleware", "handler", "wrap", "replied", "panicked"}

(* grpc-status of a response; "raw" is a response the middleware made, and *)
(* "rest" one of the REST service.                                         *)
Codes == {"Ok", "InvalidArgument", "Unauthenticated", "PermissionDenied", "NotFound",
          "AlreadyExists", "ResourceExhausted", "Cancelled", "Internal", "Unimplemented",
          "Unavailable", "DeadlineExceeded", "Unknown", "raw", "rest"}

(* The marks are no values of the code: a method path is none of the fixed *)
(* paths that `call` compares first, Nothing is no response, and a         *)
(* response of the extractor is not a GrpcStream.                          *)
ASSUME MarksAssumption ==
  /\ Paths \cap {"rest", "health", "reflection"} = {}
  /\ Nothing \notin Codes
  /\ Stream # Rejected

Idle == [state |-> "none", target |-> Nothing, binary |-> FALSE, body |-> Nothing,
         timeout |-> FALSE, passed |-> <<>>, outcome |-> Nothing, reply |-> Nothing,
         format |-> Nothing]

RequestStates ==
  [state : States, target : Targets \cup {Nothing}, binary : BOOLEAN,
   body : Bodies \cup {Nothing}, timeout : BOOLEAN, passed : Seq(Middlewares),
   outcome : HttpStatuses \cup {Nothing, Stream, Rejected}, reply : Codes \cup {Nothing},
   format : {"json", "binary", Nothing}]

TypeOK ==
  /\ serving \in BOOLEAN
  /\ transcoder \in Transcoders
  /\ handlers \in [Paths -> Entries \cup {Nothing}]
  /\ registered \in [Paths -> Seq(Middlewares)]
  /\ req \in [Requests -> RequestStates]
  /\ \A r \in Requests : (req[r].state = "replied") = (req[r].reply # Nothing)

(* GrpcRouter::from_router: the descriptor's methods that have a REST      *)
(* handler; the others are skipped with a warning.                         *)
from_router ==
  [p \in Paths |-> IF p \in RestHandlers
                   THEN [kind |-> "standard", middleware |-> <<>>] ELSE Nothing]

Init ==
  /\ serving = FALSE
  /\ transcoder \in Transcoders
  /\ handlers = from_router
  /\ registered = [p \in Paths |-> <<>>]
  /\ req = [r \in Requests |-> Idle]

-----------------------------------------------------------------------------
(* The set-up.                                                             *)

(* add_direct_handler: replaces the entry, its middleware included.        *)
add_direct_handler(p) ==
  /\ ~serving
  /\ handlers' = [handlers EXCEPT ![p] = [kind |-> "direct", middleware |-> <<>>]]
  /\ UNCHANGED <<serving, transcoder, registered, req>>

(* add_middleware: nothing happens unless the path has a standard entry.   *)
add_middleware(p, m) ==
  /\ ~serving
  /\ Len(registered[p]) < MaxMiddleware
  /\ registered' = [registered EXCEPT ![p] = Append(@, m)]
  /\ \/ /\ handlers[p] # Nothing
        /\ handlers[p].kind = "standard"
        /\ handlers' = [handlers EXCEPT ![p].middleware = Append(@, m)]
     \/ /\ handlers[p] # Nothing => handlers[p].kind = "direct"
        /\ UNCHANGED handlers
  /\ UNCHANGED <<serving, transcoder, req>>

Serve ==
  /\ ~serving
  /\ serving' = TRUE
  /\ UNCHANGED <<setupVars, req>>

-----------------------------------------------------------------------------
(* A request.                                                              *)

Update(r, f) ==
  /\ req' = [req EXCEPT ![r] = f]
  /\ UNCHANGED <<serving, setupVars>>

ReplyAs(r, code, format) ==
  Update(r, [req[r] EXCEPT !.state = "replied", !.reply = code, !.format = format])

(* grpc_error_response, and the responses that are not made here.          *)
Reply(r, code) == ReplyAs(r, code, Nothing)

Arrive(r, t, binary, body, timeout) ==
  /\ serving
  /\ req[r].state = "none"
  /\ Update(r, [Idle EXCEPT !.state = "arrived", !.target = t, !.binary = binary,
                            !.body = body, !.timeout = timeout])

Entry(r) == handlers[req[r].target]

(* The requests that no handler of the table answers: REST (GET /grpc-spec *)
(* and /grpc-docs too), the health service, and a path that is not in it.  *)
ReplyRest(r) ==
  /\ req[r].state = "arrived"
  /\ req[r].target = "rest"
  /\ Reply(r, "rest")

ReplyHealth(r) ==
  /\ req[r].state = "arrived"
  /\ req[r].target = "health"
  /\ ReplyAs(r, "Ok", "json")

ReplyUnimplemented(r) ==
  /\ req[r].state = "arrived"
  /\ req[r].target \in Paths
  /\ Entry(r) = Nothing
  /\ Reply(r, "Unimplemented")

(* Reflection and the methods of the table first read the body.            *)
StartCollect(r) ==
  /\ req[r].state = "arrived"
  /\ req[r].target \in Paths => Entry(r) # Nothing
  /\ req[r].target \notin {"rest", "health"}
  /\ Update(r, [req[r] EXCEPT !.state = "collect"])

(* use_proto_binary: the client's content type, and a transcoder to use.   *)
UseBinary(r) == transcoder /\ req[r].binary

(* The binary fast path hands the bytes to the extractor undecoded.        *)
FastPath(r) == UseBinary(r) /\ req[r].target \notin WithCaptures

(* The encoding a body is in.                                              *)
Encoding(r) ==
  IF req[r].body = "large" THEN (IF req[r].binary THEN "proto" ELSE "json") ELSE req[r].body

(* Whether decode_grpc_frame and the codec get a message out of the body.  *)
(* A lost body is collected as no bytes, which both codecs decode to an    *)
(* empty message.                                                          *)
Decodes(r) ==
  \/ FastPath(r)
  \/ Encoding(r) \in {"lost", IF UseBinary(r) THEN "proto" ELSE "json"}

(* Whether the extractor accepts what it is given: the bytes of the client *)
(* on the fast path, otherwise the message written as JSON.  Json<T> does  *)
(* not look at the content type, and takes no empty body.                  *)
Extracts(r) ==
  LET x == Extractor[req[r].target] IN
  \/ ~FastPath(r)
  \/ x = "none"
  \/ x = "proto" /\ Encoding(r) \in {"proto", "lost"}
  \/ x = "json" /\ Encoding(r) = "json"

(* Whether it may answer 400: always where it does not accept, and for the *)
(* empty JSON object of a lost body if T has fields that are required.     *)
Rejects(r) == ~Extracts(r) \/ (~FastPath(r) /\ Encoding(r) = "lost"
                                /\ Extractor[req[r].target] # "none")

CollectReflection(r) ==
  /\ req[r].state = "collect"
  /\ req[r].target = "reflection"
  /\ ReplyAs(r, "Ok", "json")

(* Direct: the first five bytes are dropped and the rest is decoded.       *)
CollectDirect(r) ==
  /\ req[r].state = "collect"
  /\ req[r].target \in Paths
  /\ Entry(r).kind = "direct"
  /\ \/ /\ Encoding(r) \in {"proto", "lost"}
        /\ Update(r, [req[r] EXCEPT !.state = "handler"])
     \/ /\ Encoding(r) \notin {"proto", "lost"}
        /\ Reply(r, "InvalidArgument")

(* Standard: decode, build the synthetic request.                          *)
CollectStandard(r) ==
  /\ req[r].state = "collect"
  /\ req[r].target \in Paths
  /\ Entry(r).kind = "standard"
  /\ \/ /\ Decodes(r)
        /\ Update(r, [req[r] EXCEPT !.state = "middleware"])
     \/ /\ ~Decodes(r)
        /\ Reply(r, "InvalidArgument")

(* The middleware that is next in line accepts the request, or answers it. *)
(* A middleware that replaces the body is not modelled.                    *)
RunMiddleware(r) ==
  /\ req[r].state = "middleware"
  /\ Len(req[r].passed) < Len(Entry(r).middleware)
  /\ \/ Update(r, [req[r] EXCEPT !.passed = Append(@, Entry(r).middleware[Len(@) + 1])])
     \/ Reply(r, "raw")

Handle(r) ==
  \/ Extracts(r) /\ Update(r, [req[r] EXCEPT !.state = "handler"])
  \/ Rejects(r) /\ Update(r, [req[r] EXCEPT !.state = "wrap", !.outcome = Rejected])

(* Mutant: the last middleware is left out.                                *)
CallHandler_Early(r) ==
  /\ req[r].state = "middleware"
  /\ Len(req[r].passed) + 1 >= Len(Entry(r).middleware)
  /\ Handle(r)

(* All middleware has run: the handler is called, its extractors first.    *)
CallHandler(r) ==
  /\ req[r].state = "middleware"
  /\ Len(req[r].passed) = Len(Entry(r).middleware)
  /\ Handle(r)

(* A standard handler answers, with a status or a GrpcStream.              *)
HandlerReturns(r) ==
  /\ req[r].state = "handler"
  /\ Entry(r).kind = "standard"
  /\ \E o \in HttpStatuses \cup {Stream} :
       Update(r, [req[r] EXCEPT !.state = "wrap", !.outcome = o])

(* A direct handler answers: its type has no error case.                   *)
DirectReturns(r) ==
  /\ req[r].state = "handler"
  /\ Entry(r).kind = "direct"
  /\ ReplyAs(r, "Ok", "binary")

(* Mutant: the deadline is only looked at when the handler is done.        *)
Expire_Late(r) == FALSE

(* Mutant: the handler is detached and goes on after the answer.           *)
Expire_Detached(r) ==
  /\ req[r].state = "handler"
  /\ Entry(r).kind = "standard"
  /\ req[r].timeout
  /\ Update(r, [req[r] EXCEPT !.reply = "DeadlineExceeded"])

(* tokio::time::timeout: the handler is dropped where it is.               *)
Expire(r) ==
  /\ req[r].state = "handler"
  /\ Entry(r).kind = "standard"
  /\ req[r].timeout
  /\ Reply(r, "DeadlineExceeded")

(* The handler or a middleware panics; the dispatch does not catch it.     *)
Panic(r) ==
  /\ \/ req[r].state = "handler"
     \/ req[r].state = "middleware" /\ Len(req[r].passed) < Len(Entry(r).middleware)
  /\ Update(r, [req[r] EXCEPT !.state = "panicked"])

(* Mutant: whatever is not an error of the client or the server is OK.     *)
http_to_grpc_code_Lenient(s) ==
  IF s < 400 THEN "Ok" ELSE IF s = 404 THEN "NotFound" ELSE "Unknown"

http_to_grpc_code(s) ==
  CASE s \in 200..299 -> "Ok"
    [] s = 400 -> "InvalidArgument"
    [] s = 401 -> "Unauthenticated"
    [] s = 403 -> "PermissionDenied"
    [] s = 404 -> "NotFound"
    [] s = 409 -> "AlreadyExists"
    [] s = 429 -> "ResourceExhausted"
    [] s = 499 -> "Cancelled"
    [] s = 500 -> "Internal"
    [] s = 501 -> "Unimplemented"
    [] s = 503 -> "Unavailable"
    [] s = 504 -> "DeadlineExceeded"
    [] OTHER -> "Unknown"

(* wrap_response_as_grpc.  A GrpcStream passes through, in JSON; its       *)
(* status is in the trailers, so what a client sees here counts as Ok.     *)
WrapStream(r) ==
  /\ req[r].state = "wrap"
  /\ req[r].outcome = Stream
  /\ ReplyAs(r, "Ok", "json")

(* Anything else is collected and encoded in the encoding of the request,  *)
(* or in JSON when the transcoder cannot encode it.                        *)
WrapUnary(r) ==
  /\ req[r].state = "wrap"
  /\ req[r].outcome # Stream
  /\ \E format \in {"json"} \cup (IF UseBinary(r) THEN {"binary"} ELSE {}) :
       ReplyAs(r, http_to_grpc_code(IF req[r].outcome = Rejected THEN 400 ELSE req[r].outcome),
               format)

-----------------------------------------------------------------------------
Step(r) ==
  \/ ReplyRest(r) \/ ReplyHealth(r) \/ ReplyUnimplemented(r) \/ StartCollect(r)
  \/ CollectReflection(r) \/ CollectDirect(r) \/ CollectStandard(r)
  \/ RunMiddleware(r) \/ CallHandler(r) \/ HandlerReturns(r) \/ DirectReturns(r)
  \/ Expire(r) \/ Panic(r) \/ WrapStream(r) \/ WrapUnary(r)

Next ==
  \/ \E p \in DirectPaths : add_direct_handler(p)
  \/ \E p \in Paths, m \in Middlewares : add_middleware(p, m)
  \/ Serve
  \/ \E r \in Requests :
       \/ \E t \in Targets, binary, timeout \in BOOLEAN, body \in Bodies :
            Arrive(r, t, binary, body, timeout)
       \/ Step(r)

Spec == Init /\ [][Next]_vars

(* tokio's timers fire.  Nothing else is fair: a client may stop sending,  *)
(* and a middleware or a handler may take for ever.                        *)
Fairness == \A r \in Requests : WF_vars(Expire(r))

FairSpec == Spec /\ Fairness

-----------------------------------------------------------------------------
(* A handler behind a REST route only runs once every middleware that was  *)
(* registered for its method has accepted the request, in the order they   *)
(* were added.                                                             *)
MiddlewareRuns ==
  \A r \in Requests :
    req[r].state \in {"handler", "wrap"} /\ Entry(r).kind = "standard" =>
      req[r].passed = registered[req[r].target]

(* A response says Ok only for a method of the table whose handler took    *)
(* its body and answered with success: a body that does not decode, a      *)
(* rejection, an expired deadline or a redirect is never reported as Ok.   *)
NoFalseOk ==
  \A r \in Requests :
    req[r].reply = "Ok" /\ req[r].target \in Paths =>
      /\ Entry(r) # Nothing
      /\ Entry(r).kind = "direct" => req[r].body \notin {"json", "junk"}
      /\ Entry(r).kind = "standard" =>
           /\ req[r].outcome = Stream \/ req[r].outcome \in 200..299
           /\ Extractor[req[r].target] # "none" => req[r].body # "junk"

(* "When a gRPC client sets a 5-second deadline, the handler is cancelled  *)
(* after 5 seconds." (README.md:543): a handler behind a REST route does   *)
(* not run for ever if the client set a deadline.                          *)
DeadlineEnforced ==
  \A r \in Requests :
    (req[r].state = "handler" /\ req[r].timeout /\ Entry(r).kind = "standard")
      ~> req[r].state # "handler"

-----------------------------------------------------------------------------
(* "The middleware runs before the handler and can modify the request or   *)
(* short-circuit with an error response." (grpc_dispatch.rs:142): the      *)
(* middleware of a method with a direct handler runs as well.              *)
MiddlewareAlwaysRuns ==
  \A r \in Requests :
    req[r].state \in {"handler", "wrap"} => req[r].passed = registered[req[r].target]
=============================================================================
