------------------------- MODULE GrpcDispatchProofs -------------------------
(***************************************************************************)
(* Proofs about GrpcDispatch, for every service descriptor, every set of   *)
(* requests and handlers, and every set-up of the method table.            *)
(***************************************************************************)
EXTENDS GrpcDispatch, TLAPS

(* What the set-up keeps: a standard entry has the middleware that was     *)
(* registered for its path, and nothing arrives before the server runs.    *)
TableInv ==
  /\ \A p \in Paths : handlers[p] # Nothing /\ handlers[p].kind = "standard" =>
       handlers[p].middleware = registered[p]
  /\ ~serving => \A r \in Requests : req[r].state = "none"

(* The entry a request was dispatched to is there for as long as it runs,  *)
(* and is of the kind its state says.                                      *)
Routed(r) ==
  /\ req[r].state = "collect" /\ req[r].target \in Paths => Entry(r) # Nothing
  /\ req[r].state \in {"middleware", "handler", "wrap"} =>
       req[r].target \in Paths /\ Entry(r) # Nothing
  /\ req[r].state \in {"middleware", "wrap"} => Entry(r).kind = "standard"

(* The middleware that has run is an initial part of the entry's, and all  *)
(* of it once the handler was called.                                      *)
InLine(r) ==
  /\ req[r].state \in {"none", "arrived", "collect"} => req[r].passed = <<>>
  /\ req[r].state = "middleware" =>
       /\ Len(req[r].passed) <= Len(Entry(r).middleware)
       /\ \A i \in 1..Len(req[r].passed) : req[r].passed[i] = Entry(r).middleware[i]
  /\ req[r].state \in {"handler", "wrap"} /\ Entry(r).kind = "standard" =>
       req[r].passed = Entry(r).middleware

(* The body is one the handler can have taken: what the codec refuses does *)
(* not reach the middleware, and what the extractor refuses does not reach *)
(* the handler.                                                            *)
Taken(r) == Extractor[req[r].target] # "none" => req[r].body # "junk"
BodyTaken(r) ==
  /\ req[r].state = "middleware" => FastPath(r) \/ req[r].body # "junk"
  /\ req[r].state = "handler" =>
       IF Entry(r).kind = "direct" THEN req[r].body \notin {"json", "junk"} ELSE Taken(r)
  /\ req[r].state = "wrap" /\ req[r].outcome # Rejected => Taken(r)

OkIsTrue(r) ==
  req[r].reply = "Ok" /\ req[r].target \in Paths =>
    /\ Entry(r) # Nothing
    /\ Entry(r).kind = "direct" => req[r].body \notin {"json", "junk"}
    /\ Entry(r).kind = "standard" =>
         /\ req[r].outcome = Stream \/ req[r].outcome \in 200..299
         /\ Taken(r)

ReqInv(r) == Routed(r) /\ InLine(r) /\ BodyTaken(r) /\ OkIsTrue(r)

(* The inductive invariant.                                                *)
DispatchInv == TypeOK /\ TableInv /\ \A r \in Requests : ReqInv(r)

(* Changing some fields of one request's record leaves a record of         *)
(* requests; every step of a request is of this form.                      *)
LEMMA ReplyType ==
  ASSUME TypeOK, NEW r \in Requests, NEW code \in Codes, NEW f \in {"json", "binary", Nothing},
         ReplyAs(r, code, f)
  PROVE  TypeOK'
<1>1. [req[r] EXCEPT !.state = "replied", !.reply = code, !.format = f] \in RequestStates
  BY ZenonT(40) DEF TypeOK, RequestStates, States
<1>2. code # Nothing
  BY MarksAssumption
<1> QED
  BY <1>1, <1>2 DEF TypeOK, ReplyAs, Update, setupVars, RequestStates

(* The code of every status is a grpc-status, and only 2xx becomes Ok.     *)
LEMMA CodeOfStatus ==
  ASSUME NEW s
  PROVE  /\ http_to_grpc_code(s) \in Codes
         /\ http_to_grpc_code(s) = "Ok" => s \in 200..299
BY DEF http_to_grpc_code, Codes

(* A step that moves a request to another state that is not final.         *)
LEMMA MoveType ==
  ASSUME TypeOK, NEW r \in Requests, NEW q \in RequestStates,
         q.state # "replied", q.reply = Nothing, Update(r, q)
  PROVE  TypeOK'
BY DEF TypeOK, Update, setupVars

-----------------------------------------------------------------------------
(* A step of a request keeps the types.                                    *)
LEMMA StepType ==
  ASSUME TypeOK, NEW r \in Requests, ReqInv(r), Step(r)
  PROVE  TypeOK'
<1>q. req[r] \in RequestStates /\ (req[r].state # "replied" => req[r].reply = Nothing)
  BY DEF TypeOK
<1>1. CASE ReplyRest(r) \/ ReplyHealth(r) \/ ReplyUnimplemented(r) \/ CollectReflection(r)
           \/ DirectReturns(r) \/ Expire(r) \/ WrapStream(r)
  BY <1>1, ReplyType DEF ReplyRest, ReplyHealth, ReplyUnimplemented, CollectReflection,
     DirectReturns, Expire, WrapStream, Reply, Codes
<1>2. ASSUME NEW t \in {"collect", "handler", "middleware", "panicked"},
             req[r].state # "replied", Update(r, [req[r] EXCEPT !.state = t])
      PROVE  TypeOK'
  <2>1. [req[r] EXCEPT !.state = t] \in RequestStates
    BY <1>q DEF RequestStates, States
  <2> QED
    BY <1>2, <1>q, <2>1, MoveType DEF RequestStates
<1>3. ASSUME NEW o \in HttpStatuses \cup {Stream, Rejected}, req[r].state # "replied",
             Update(r, [req[r] EXCEPT !.state = "wrap", !.outcome = o])
      PROVE  TypeOK'
  <2>1. [req[r] EXCEPT !.state = "wrap", !.outcome = o] \in RequestStates
    BY <1>q DEF RequestStates, States
  <2> QED
    BY <1>3, <1>q, <2>1, MoveType DEF RequestStates
<1>4. CASE StartCollect(r) \/ Panic(r)
  BY <1>2, <1>4 DEF StartCollect, Panic
<1>5. CASE CollectDirect(r) \/ CollectStandard(r)
  BY <1>2, <1>5, ReplyType DEF CollectDirect, CollectStandard, Reply, Codes
<1>6. CASE RunMiddleware(r)
  <2>1. CASE Reply(r, "raw")
    BY <2>1, ReplyType DEF Reply, Codes
  <2>2. CASE Update(r, [req[r] EXCEPT !.passed = Append(@, Entry(r).middleware[Len(@) + 1])])
    <3>1. Entry(r) \in Entries
      BY <1>6, <1>q DEF RunMiddleware, ReqInv, Routed, Entry, TypeOK
    <3>2. Entry(r).middleware[Len(req[r].passed) + 1] \in Middlewares
      BY <1>6, <1>q, <3>1 DEF RunMiddleware, Entries, RequestStates
    <3> DEFINE q == [req[r] EXCEPT !.passed = Append(@, Entry(r).middleware[Len(@) + 1])]
    <3>3. q \in RequestStates /\ q.state = req[r].state /\ q.reply = req[r].reply
      BY <1>q, <3>2, SMTT(30) DEF RequestStates
    <3>4. req[r].state = "middleware"
      BY <1>6 DEF RunMiddleware
    <3> QED
      BY <1>q, <2>2, <3>3, <3>4, MoveType
  <2> QED
    BY <1>6, <2>1, <2>2 DEF RunMiddleware
<1>7. CASE CallHandler(r)
  BY <1>2, <1>3, <1>7 DEF CallHandler, Handle
<1>8. CASE HandlerReturns(r)
  BY <1>3, <1>8 DEF HandlerReturns
<1>9. CASE WrapUnary(r)
  BY <1>9, ReplyType, CodeOfStatus DEF WrapUnary
<1> QED
  BY <1>1, <1>4, <1>5, <1>6, <1>7, <1>8, <1>9 DEF Step

(* A step of a request leaves the table and the other requests alone.      *)
LEMMA OthersKept ==
  ASSUME DispatchInv, NEW r \in Requests, NEW q, Update(r, q), serving
  PROVE  TableInv' /\ \A s \in Requests \ {r} : ReqInv(s)'
<1>1. UNCHANGED <<serving, transcoder, handlers, registered>>
  BY DEF Update, setupVars
<1>2. TableInv'
  BY <1>1 DEF DispatchInv, TableInv
<1>3. ASSUME NEW s \in Requests \ {r} PROVE ReqInv(s)'
  <2>1. req'[s] = req[s]
    BY DEF DispatchInv, TypeOK, Update
  <2>2. ReqInv(s)
    BY DEF DispatchInv
  <2> QED
    BY <1>1, <2>1, <2>2 DEF ReqInv, Routed, InLine, BodyTaken, OkIsTrue, Taken, Entry,
       FastPath, UseBinary
<1> QED
  BY <1>2, <1>3

(* A step of a request keeps what is known of it.                          *)
LEMMA StepInv ==
  ASSUME DispatchInv, NEW r \in Requests, Step(r)
  PROVE  ReqInv(r)'
<1>q. /\ req[r] \in RequestStates /\ (req[r].state # "replied" => req[r].reply = Nothing)
      /\ Nothing \notin Codes
  BY MarksAssumption DEF DispatchInv, TypeOK
<1>i. Routed(r) /\ InLine(r) /\ BodyTaken(r) /\ OkIsTrue(r)
  BY DEF DispatchInv, ReqInv
<1>e. req[r].target \in Paths => Entry(r) \in Entries \cup {Nothing}
  BY DEF DispatchInv, TypeOK, Entry
<1>u. ASSUME NEW q, Update(r, q)
      PROVE  /\ req'[r] = q /\ UNCHANGED <<handlers, transcoder, registered>>
             /\ q.target = req[r].target => Entry(r)' = Entry(r)
  BY <1>u DEF Update, setupVars, DispatchInv, TypeOK, Entry
<1> DEFINE R(code, f) == [req[r] EXCEPT !.state = "replied", !.reply = code, !.format = f]
<1>r. ASSUME NEW code \in Codes, NEW f, ReplyAs(r, code, f),
             code = "Ok" /\ req[r].target \in Paths =>
               /\ Entry(r) # Nothing
               /\ Entry(r).kind = "direct" => req[r].body \notin {"json", "junk"}
               /\ Entry(r).kind = "standard" =>
                    /\ req[r].outcome = Stream \/ req[r].outcome \in 200..299
                    /\ Taken(r)
      PROVE  ReqInv(r)'
  <2>1. req'[r] = R(code, f) /\ UNCHANGED <<handlers, transcoder, registered>>
    BY <1>r, <1>u DEF ReplyAs
  <2>2. /\ req'[r].state = "replied" /\ req'[r].reply = code
        /\ req'[r].target = req[r].target /\ req'[r].body = req[r].body
        /\ req'[r].outcome = req[r].outcome /\ req'[r].passed = req[r].passed
    BY <1>q, <2>1 DEF RequestStates
  <2>3. Routed(r)' /\ InLine(r)' /\ BodyTaken(r)'
    BY <2>2 DEF Routed, InLine, BodyTaken
  <2>4. OkIsTrue(r)'
    BY <1>r, <2>1, <2>2 DEF OkIsTrue, Taken, Entry
  <2> QED
    BY <2>3, <2>4 DEF ReqInv
<1>s. ASSUME NEW t \in States \ {"replied"}, req[r].state # "replied",
             Update(r, [req[r] EXCEPT !.state = t])
      PROVE  /\ req'[r].state = t /\ req'[r].reply = Nothing /\ req'[r].target = req[r].target
             /\ req'[r].body = req[r].body /\ req'[r].passed = req[r].passed
             /\ Entry(r)' = Entry(r) /\ OkIsTrue(r)'
             /\ Taken(r)' = Taken(r) /\ FastPath(r)' = FastPath(r)
  <2>1. req'[r] = [req[r] EXCEPT !.state = t] /\ UNCHANGED <<handlers, transcoder, registered>>
    BY <1>s, <1>u
  <2>2. /\ req'[r].state = t /\ req'[r].reply = Nothing /\ req'[r].target = req[r].target
        /\ req'[r].body = req[r].body /\ req'[r].passed = req[r].passed
        /\ req'[r].binary = req[r].binary
    BY <1>q, <1>s, <2>1 DEF RequestStates
  <2> QED
    BY <1>q, <2>1, <2>2 DEF Entry, OkIsTrue, Taken, FastPath, UseBinary, Codes
<1>1. CASE ReplyRest(r)
  BY <1>1, <1>r DEF ReplyRest, Reply, Codes
<1>2. CASE ReplyHealth(r) \/ CollectReflection(r)
  BY <1>2, <1>r, MarksAssumption DEF ReplyHealth, CollectReflection, Codes
<1>3. CASE ReplyUnimplemented(r) \/ Expire(r)
  BY <1>3, <1>r DEF ReplyUnimplemented, Expire, Reply, Codes
<1>4. CASE DirectReturns(r)
  BY <1>4, <1>r, <1>i DEF DirectReturns, Codes, Routed, BodyTaken
<1>5. CASE WrapStream(r)
  <2>1. Taken(r) /\ Entry(r) # Nothing /\ Entry(r).kind = "standard"
    BY <1>5, <1>i, MarksAssumption DEF WrapStream, BodyTaken, Routed
  <2> QED
    BY <1>5, <1>r, <2>1 DEF WrapStream, Codes
<1>6. CASE WrapUnary(r)
  <2>1. PICK f : ReplyAs(r, http_to_grpc_code(IF req[r].outcome = Rejected THEN 400 ELSE req[r].outcome), f)
    BY <1>6 DEF WrapUnary
  <2>2. Entry(r) # Nothing /\ Entry(r).kind = "standard" /\ (req[r].outcome # Rejected => Taken(r))
    BY <1>6, <1>i DEF WrapUnary, BodyTaken, Routed
  <2>3. CASE req[r].outcome = Rejected
    BY <1>r, <2>1, <2>3, CodeOfStatus
  <2>4. CASE req[r].outcome # Rejected
    BY <1>r, <2>1, <2>2, <2>4, CodeOfStatus
  <2> QED
    BY <2>3, <2>4
<1>7. CASE StartCollect(r)
  BY <1>7, <1>s, <1>i DEF StartCollect, States, ReqInv, Routed, InLine, BodyTaken
<1>8. CASE Panic(r)
  BY <1>8, <1>s, <1>i, ZenonT(40) DEF Panic, States, ReqInv, Routed, InLine, BodyTaken
<1>9. CASE CollectDirect(r)
  <2>1. CASE Update(r, [req[r] EXCEPT !.state = "handler"]) /\ Encoding(r) \in {"proto", "lost"}
    <3>1. req[r].body \notin {"json", "junk"}
      BY <2>1 DEF Encoding
    <3> QED
      BY <1>9, <2>1, <3>1, <1>s, <1>i DEF CollectDirect, States, ReqInv, Routed, InLine, BodyTaken
  <2>2. CASE Reply(r, "InvalidArgument")
    BY <2>2, <1>r DEF Reply, Codes
  <2> QED
    BY <1>9, <2>1, <2>2 DEF CollectDirect
<1>10. CASE CollectStandard(r)
  <2>1. CASE Update(r, [req[r] EXCEPT !.state = "middleware"]) /\ Decodes(r)
    <3>1. FastPath(r) \/ req[r].body # "junk"
      BY <2>1 DEF Decodes, Encoding
    <3> QED
      BY <1>10, <2>1, <3>1, <1>s, <1>i, <1>e
         DEF CollectStandard, States, ReqInv, Routed, InLine, BodyTaken, Entries
  <2>2. CASE Reply(r, "InvalidArgument")
    BY <2>2, <1>r DEF Reply, Codes
  <2> QED
    BY <1>10, <2>1, <2>2 DEF CollectStandard
<1>11. CASE RunMiddleware(r)
  <2>1. CASE Reply(r, "raw")
    BY <2>1, <1>r DEF Reply, Codes
  <2>2. CASE Update(r, [req[r] EXCEPT !.passed = Append(@, Entry(r).middleware[Len(@) + 1])])
    <3>1. /\ req[r].state = "middleware" /\ Len(req[r].passed) < Len(Entry(r).middleware)
          /\ req[r].reply = Nothing /\ req[r].passed \in Seq(Middlewares)
          /\ Entry(r).middleware \in Seq(Middlewares)
      BY <1>11, <1>q, <1>i, <1>e DEF RunMiddleware, RequestStates, Routed, Entries
    <3> DEFINE m == Entry(r).middleware[Len(req[r].passed) + 1]
    <3>2. /\ req'[r].state = "middleware" /\ req'[r].reply = Nothing
          /\ req'[r].target = req[r].target /\ req'[r].body = req[r].body
          /\ req'[r].binary = req[r].binary
          /\ req'[r].passed = Append(req[r].passed, m)
      BY <1>q, <1>u, <2>2, <3>1 DEF RequestStates
    <3>3. Entry(r)' = Entry(r) /\ FastPath(r)' = FastPath(r)
      BY <1>u, <2>2, <3>2 DEF Entry, FastPath, UseBinary
    <3>4. InLine(r)'
      BY <1>i, <3>1, <3>2, <3>3 DEF InLine
    <3> QED
      BY <1>i, <1>q, <3>1, <3>2, <3>3, <3>4 DEF ReqInv, Routed, BodyTaken, OkIsTrue, Codes
  <2> QED
    BY <1>11, <2>1, <2>2 DEF RunMiddleware
<1>12. CASE CallHandler(r)
  <2>1. /\ req[r].state = "middleware" /\ Len(req[r].passed) = Len(Entry(r).middleware)
        /\ req[r].passed \in Seq(Middlewares) /\ Entry(r).middleware \in Seq(Middlewares)
        /\ req[r].target \in Paths /\ Entry(r) # Nothing /\ Entry(r).kind = "standard"
    BY <1>12, <1>q, <1>i, <1>e DEF CallHandler, RequestStates, Routed, Entries
  <2>2. req[r].passed = Entry(r).middleware
    BY <1>i, <2>1 DEF InLine
  <2>3. CASE Extracts(r) /\ Update(r, [req[r] EXCEPT !.state = "handler"])
    <3>1. Taken(r)
      BY <1>i, <2>1, <2>3 DEF Extracts, Encoding, Taken, BodyTaken
    <3>2. /\ req'[r].state = "handler" /\ req'[r].target = req[r].target
          /\ req'[r].passed = req[r].passed /\ Entry(r)' = Entry(r)
          /\ OkIsTrue(r)' /\ Taken(r)'
      BY <1>s, <2>1, <2>3, <3>1 DEF States
    <3> QED
      BY <2>1, <2>2, <3>2 DEF ReqInv, Routed, InLine, BodyTaken
  <2>4. CASE Update(r, [req[r] EXCEPT !.state = "wrap", !.outcome = Rejected])
    <3>1. /\ req'[r].state = "wrap" /\ req'[r].outcome = Rejected /\ req'[r].reply = Nothing
          /\ req'[r].target = req[r].target /\ req'[r].passed = req[r].passed
      <4>1. req'[r] = [req[r] EXCEPT !.state = "wrap", !.outcome = Rejected]
        BY <1>u, <2>4
      <4> QED
        BY <1>q, <2>1, <4>1 DEF RequestStates
    <3>2. Entry(r)' = Entry(r)
      BY <1>u, <2>4, <3>1 DEF Entry
    <3> QED
      BY <1>q, <2>1, <2>2, <3>1, <3>2 DEF ReqInv, Routed, InLine, BodyTaken, OkIsTrue, Codes
  <2> QED
    BY <1>12, <2>3, <2>4 DEF CallHandler, Handle
<1>13. CASE HandlerReturns(r)
  <2>1. PICK o : Update(r, [req[r] EXCEPT !.state = "wrap", !.outcome = o])
    BY <1>13 DEF HandlerReturns
  <2>2. /\ req[r].state = "handler" /\ Entry(r).kind = "standard" /\ req[r].reply = Nothing
        /\ req[r].target \in Paths /\ Entry(r) # Nothing
    BY <1>13, <1>q, <1>i DEF HandlerReturns, Routed
  <2>3. /\ req'[r].state = "wrap" /\ req'[r].reply = Nothing /\ req'[r].body = req[r].body
        /\ req'[r].target = req[r].target /\ req'[r].passed = req[r].passed
    <3>1. req'[r] = [req[r] EXCEPT !.state = "wrap", !.outcome = o]
      BY <1>u, <2>1
    <3> QED
      BY <1>q, <2>2, <3>1 DEF RequestStates
  <2>4. Entry(r)' = Entry(r) /\ Taken(r)' = Taken(r)
    BY <1>u, <2>1, <2>3 DEF Entry, Taken
  <2> QED
    BY <1>q, <1>i, <2>2, <2>3, <2>4 DEF ReqInv, Routed, InLine, BodyTaken, OkIsTrue, Codes
<1> QED
  BY <1>1, <1>2, <1>3, <1>4, <1>5, <1>6, <1>7, <1>8, <1>9, <1>10, <1>11, <1>12, <1>13 DEF Step

(* A request arrives.  (Flags stands for BOOLEAN: the provers take it for  *)
(* any set.)                                                               *)
LEMMA ArriveInv ==
  ASSUME DispatchInv, NEW Flags, Flags = BOOLEAN, NEW r \in Requests, NEW t \in Targets,
         NEW binary \in Flags, NEW timeout \in Flags, NEW body \in Bodies,
         Arrive(r, t, binary, body, timeout)
  PROVE  DispatchInv'
<1> DEFINE q == [Idle EXCEPT !.state = "arrived", !.target = t, !.binary = binary,
                             !.body = body, !.timeout = timeout]
<1>t. TypeOK
  BY DEF DispatchInv
<1>1. /\ q \in RequestStates /\ q.state = "arrived" /\ q.reply = Nothing /\ q.passed = <<>>
  <2>1. Idle \in RequestStates /\ Idle.reply = Nothing /\ Idle.passed = <<>>
    BY DEF Idle, RequestStates, States
  <2>2. RequestStates =
          [state : States, target : Targets \cup {Nothing}, binary : Flags,
           body : Bodies \cup {Nothing}, timeout : Flags, passed : Seq(Middlewares),
           outcome : HttpStatuses \cup {Nothing, Stream, Rejected}, reply : Codes \cup {Nothing},
           format : {"json", "binary", Nothing}]
    BY Zenon DEF RequestStates
  <2>3. "arrived" \in States /\ t \in Targets /\ binary \in Flags /\ timeout \in Flags /\ body \in Bodies
    BY DEF States
  <2> QED
    BY ONLY <2>1, <2>2, <2>3
<1>2. Update(r, q) /\ serving
  BY DEF Arrive
<1> HIDE DEF q
<1>3. TypeOK'
  BY <1>t, <1>1, <1>2, MoveType
<1>4. TableInv' /\ \A s \in Requests \ {r} : ReqInv(s)'
  BY <1>2, OthersKept
<1>5. req'[r] = q
  BY <1>t, <1>2 DEF Update, TypeOK
<1>6. ReqInv(r)'
  BY <1>1, <1>5, MarksAssumption DEF ReqInv, Routed, InLine, BodyTaken, OkIsTrue, Codes
<1> QED
  BY <1>3, <1>4, <1>6 DEF DispatchInv

(* The invariant is inductive.                                             *)
LEMMA DispatchStep == DispatchInv /\ [Next]_vars => DispatchInv'
<1> SUFFICES ASSUME DispatchInv, [Next]_vars PROVE DispatchInv'
  OBVIOUS
<1> USE DispatchAssumption, MarksAssumption
<1>t. TypeOK /\ TableInv /\ \A r \in Requests : ReqInv(r)
  BY DEF DispatchInv
<1>n. ASSUME NEW r \in Requests, req'[r].state = "none", req'[r].passed = <<>>,
             req'[r].reply = Nothing
      PROVE  ReqInv(r)'
  BY <1>n DEF ReqInv, Routed, InLine, BodyTaken, OkIsTrue, Codes
<1>a. ASSUME ~serving, UNCHANGED req PROVE \A r \in Requests : ReqInv(r)'
  <2>1. ASSUME NEW r \in Requests
        PROVE req'[r].state = "none" /\ req'[r].passed = <<>> /\ req'[r].reply = Nothing
    BY <1>a, <1>t DEF TypeOK, TableInv, ReqInv, InLine
  <2> QED
    BY <2>1, <1>n
<1>1. ASSUME NEW p \in DirectPaths, add_direct_handler(p) PROVE DispatchInv'
  <2>1. p \in Paths
    BY DEF Paths
  <2>2. TypeOK'
    BY <1>1, <1>t, <2>1 DEF add_direct_handler, TypeOK, Entries
  <2>3. TableInv'
    BY <1>1, <1>t, <2>1 DEF add_direct_handler, TypeOK, TableInv, Entries
  <2> QED
    BY <1>1, <1>a, <2>2, <2>3 DEF DispatchInv, add_direct_handler
<1>2. ASSUME NEW p \in Paths, NEW m \in Middlewares, add_middleware(p, m) PROVE DispatchInv'
  <2>1. registered' \in [Paths -> Seq(Middlewares)] /\ registered' = [registered EXCEPT ![p] = Append(@, m)]
    BY <1>2, <1>t DEF add_middleware, TypeOK
  <2>2. CASE UNCHANGED handlers /\ (handlers[p] # Nothing => handlers[p].kind = "direct")
    <3>1. TypeOK'
      BY <1>2, <1>t, <2>1, <2>2 DEF add_middleware, TypeOK
    <3>2. TableInv'
      BY <1>2, <1>t, <2>1, <2>2 DEF add_middleware, TypeOK, TableInv
    <3> QED
      BY <1>2, <1>a, <3>1, <3>2 DEF DispatchInv, add_middleware
  <2>3. CASE /\ handlers[p] # Nothing /\ handlers[p].kind = "standard"
             /\ handlers' = [handlers EXCEPT ![p].middleware = Append(@, m)]
    <3>1. handlers[p] \in Entries
      BY <1>t, <2>3 DEF TypeOK
    <3>2. /\ [handlers[p] EXCEPT !.middleware = Append(@, m)] \in Entries
          /\ [handlers[p] EXCEPT !.middleware = Append(@, m)].middleware = Append(handlers[p].middleware, m)
      <4>1. Append(handlers[p].middleware, m) \in Seq(Middlewares)
        BY <3>1 DEF Entries
      <4> QED
        BY <3>1, <4>1 DEF Entries
    <3>3. handlers' = [handlers EXCEPT ![p] = [handlers[p] EXCEPT !.middleware = Append(@, m)]]
      BY <2>3
    <3>4. TypeOK'
      BY <1>2, <1>t, <2>1, <3>2, <3>3 DEF add_middleware, TypeOK
    <3>5. TableInv'
      BY <1>2, <1>t, <2>1, <2>3, <3>2, <3>3 DEF add_middleware, TypeOK, TableInv
    <3> QED
      BY <1>2, <1>a, <3>4, <3>5 DEF DispatchInv, add_middleware
  <2> QED
    BY <1>2, <2>2, <2>3 DEF add_middleware
<1>3. CASE Serve
  BY <1>3, <1>t, <1>a DEF Serve, setupVars, DispatchInv, TypeOK, TableInv
<1>4. ASSUME NEW r \in Requests, NEW t \in Targets, NEW binary \in BOOLEAN,
             NEW timeout \in BOOLEAN, NEW body \in Bodies, Arrive(r, t, binary, body, timeout)
      PROVE  DispatchInv'
  BY <1>4, ArriveInv
<1>5. ASSUME NEW r \in Requests, Step(r) PROVE DispatchInv'
  <2>1. req[r].state # "none"
    BY <1>5 DEF Step, ReplyRest, ReplyHealth, ReplyUnimplemented, StartCollect, CollectReflection,
       CollectDirect, CollectStandard, RunMiddleware, CallHandler, HandlerReturns, DirectReturns,
       Expire, Panic, WrapStream, WrapUnary
  <2>2. serving
    BY <1>t, <2>1 DEF TableInv, TypeOK
  <2>3. \E q : Update(r, q)
    <3>1. CASE ReplyRest(r) \/ ReplyHealth(r) \/ ReplyUnimplemented(r) \/ CollectReflection(r)
               \/ DirectReturns(r) \/ Expire(r) \/ WrapStream(r) \/ WrapUnary(r)
      <4>1. \E code, f : ReplyAs(r, code, f)
        BY <3>1, ZenonT(40) DEF ReplyRest, ReplyHealth, ReplyUnimplemented, CollectReflection,
           DirectReturns, Expire, WrapStream, WrapUnary, Reply
      <4> QED
        BY <4>1, Zenon DEF ReplyAs
    <3>2. CASE StartCollect(r) \/ CollectDirect(r) \/ CollectStandard(r)
      BY <3>2, ZenonT(40) DEF StartCollect, CollectDirect, CollectStandard, Reply, ReplyAs
    <3>3. CASE RunMiddleware(r) \/ CallHandler(r)
      BY <3>3, ZenonT(40) DEF RunMiddleware, CallHandler, Handle, Reply, ReplyAs
    <3>4. CASE HandlerReturns(r) \/ Panic(r)
      BY <3>4, Zenon DEF HandlerReturns, Panic
    <3> QED
      BY <1>5, <3>1, <3>2, <3>3, <3>4 DEF Step
  <2>4. TableInv' /\ \A s \in Requests \ {r} : ReqInv(s)'
    BY <2>2, <2>3, OthersKept
  <2> QED
    BY <1>5, <1>t, <2>4, StepType, StepInv DEF DispatchInv
<1>6. CASE UNCHANGED vars
  <2>1. UNCHANGED <<serving, transcoder, handlers, registered, req>>
    BY <1>6 DEF vars, setupVars
  <2>2. TypeOK' /\ TableInv'
    BY <1>t, <2>1 DEF TypeOK, TableInv
  <2>3. ASSUME NEW s \in Requests PROVE ReqInv(s)'
    BY <1>t, <2>1 DEF ReqInv, Routed, InLine, BodyTaken, OkIsTrue, Taken, Entry, FastPath, UseBinary
  <2> QED
    BY <2>2, <2>3 DEF DispatchInv
<1> QED
  BY <1>1, <1>2, <1>3, <1>4, <1>5, <1>6 DEF Next

LEMMA DispatchAlways == Spec => []DispatchInv
<1>1. Init => DispatchInv
  <2> SUFFICES ASSUME Init PROVE DispatchInv
    OBVIOUS
  <2> USE DispatchAssumption, MarksAssumption
  <2>1. \A r \in Requests : req[r].state = "none" /\ req[r].passed = <<>> /\ req[r].reply = Nothing
    BY DEF Init, Idle
  <2>2. Idle \in RequestStates
    BY DEF Idle, RequestStates, States
  <2>3. [kind |-> "standard", middleware |-> <<>>] \in Entries
    BY DEF Entries
  <2>4. handlers \in [Paths -> Entries \cup {Nothing}]
    BY <2>3 DEF Init, from_router
  <2>5. TypeOK
    <3>1. registered \in [Paths -> Seq(Middlewares)]
      BY DEF Init
    <3>2. req \in [Requests -> RequestStates]
      BY <2>2 DEF Init
    <3>3. serving \in BOOLEAN /\ transcoder \in Transcoders
      BY DEF Init
    <3>4. \A r \in Requests : (req[r].state = "replied") = (req[r].reply # Nothing)
      BY <2>1
    <3> QED
      BY <2>4, <3>1, <3>2, <3>3, <3>4 DEF TypeOK
  <2>6. TableInv
    BY <2>1 DEF Init, from_router, TableInv
  <2>7. ASSUME NEW r \in Requests PROVE ReqInv(r)
    BY <2>1 DEF ReqInv, Routed, InLine, BodyTaken, OkIsTrue, Codes
  <2> QED
    BY <2>5, <2>6, <2>7 DEF DispatchInv
<1> QED
  BY <1>1, DispatchStep, PTL DEF Spec

-----------------------------------------------------------------------------
(* The table and every request keep their types, and a request has an      *)
(* answer exactly when it was replied to: none is answered twice, and none *)
(* goes on after its answer (GrpcMultiplexer::call).                       *)
THEOREM DispatchTypeCorrect == Spec => []TypeOK
<1>1. DispatchInv => TypeOK
  BY DEF DispatchInv
<1> QED
  BY <1>1, DispatchAlways, PTL

(* No handler behind a REST route runs before all the middleware that was  *)
(* registered for its method accepted the request, in order, whatever      *)
(* direct handlers replaced entries of the table (add_middleware,          *)
(* add_direct_handler, GrpcMultiplexer::call).                             *)
THEOREM MiddlewareComesFirst == Spec => []MiddlewareRuns
<1>1. DispatchInv => MiddlewareRuns
  BY DEF DispatchInv, MiddlewareRuns, TableInv, ReqInv, Routed, InLine, Entry
<1> QED
  BY <1>1, DispatchAlways, PTL

(* A response says Ok only if the handler of a method of the table took    *)
(* the body and answered with success (wrap_response_as_grpc,              *)
(* http_to_grpc_code and the early returns of GrpcMultiplexer::call).      *)
THEOREM OkIsNeverFalse == Spec => []NoFalseOk
<1>1. DispatchInv => NoFalseOk
  BY DEF DispatchInv, NoFalseOk, ReqInv, OkIsTrue, Taken
<1> QED
  BY <1>1, DispatchAlways, PTL
=============================================================================
