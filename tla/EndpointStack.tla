--------------------------- MODULE EndpointStack ---------------------------
(***************************************************************************)
(* Endpoint types with their wrappers, the functions that bind a handler   *)
(* to one, and the builders that make a server of the bound handlers.      *)
(*                                                                         *)
(* An endpoint type is its path and its wrappers, the outermost first.     *)
(* What the compiler accepts is a guard: a step exists if the program that *)
(* takes it compiles.  An API is a tuple of sub-APIs, which ServerBuilder  *)
(* mounts one by one; the API of Server and EffectfulServer is one tuple   *)
(* of endpoints.  A handler is the sequence of its extractors.             *)
(***************************************************************************)
EXTENDS Naturals, Sequences, FiniteSets, SequencesExt

CONSTANTS
  Apis,        (* the API types an author may write                        *)
  Extras,      (* sub-APIs outside of the API type                         *)
  Handlers,    (* the handlers at hand                                     *)
  MaxMounts,   (* bound: calls of mount                                    *)
  MaxProvides, (* bound: calls of provide                                  *)
  MaxLayers    (* bound: calls of layer                                    *)

WrapperNames ==
  {"Protected", "Validated", "Versioned", "ContentType", "RateLimited", "Requires", "Strict"}
EndpointTypes == [wraps : Seq([w : WrapperNames, arg : STRING]), path : Seq(STRING)]
Extractors == {"Auth", "RequestId", "Json"}

ASSUME StackAssumption ==
  /\ {MaxMounts, MaxProvides, MaxLayers} \subseteq Nat
  /\ Apis \subseteq Seq(Seq(EndpointTypes)) /\ Extras \subseteq Seq(EndpointTypes)
  /\ Handlers \subseteq Seq(Extractors)

VARIABLES
  author,      (* the program so far: the builder with its type parameters *)
  routes,      (* the router                                               *)
  layers,      (* the layers around it, the innermost first                *)
  exchange     (* a request on its way through the server                  *)

stackVars == <<author, routes, layers, exchange>>

Kinds == {"Server", "EffectfulServer", "ServerBuilder"}
(* A RequestIdLayer, or one that passes requests and answers on.           *)
Layers == {"RequestId", "other"}
Effects == {"AuthRequired", "CorsRequired"}
Idle == [at |-> "idle"]

-----------------------------------------------------------------------------
(* What the types say                                                      *)

Wraps(e, w) == \E i \in DOMAIN e.wraps : e.wraps[i].w = w
Wrapped(e) == [e EXCEPT !.wraps = Tail(@)]
Outer(e, w) == e.wraps # <<>> /\ Head(e.wraps).w = w

(* Mutant: Protected is bindable like the others.                          *)
Bindable_Protected(e) == ~Wraps(e, "Strict")

(* Every wrapper but two passes BindableEndpoint on from what it wraps.    *)
Bindable(e) == ~Wraps(e, "Protected") /\ ~Wraps(e, "Strict")

(* The segments of the Versioned wrappers, the outermost first.            *)
Versioned(e) == {i \in DOMAIN e.wraps : e.wraps[i].w = "Versioned"}
Versions(e) ==
  [k \in 1..Cardinality(Versioned(e)) |->
     e.wraps[CHOOSE i \in Versioned(e) : Cardinality(Versioned(e) \intersect (1..i)) = k].arg]
pattern(e) == Versions(e) \o e.path

(* Versioned takes its segment off and asks what it wraps.                 *)
match_fn(e, segments) ==
  /\ IsPrefix(Versions(e), segments)
  /\ SubSeq(segments, Len(Versions(e)) + 1, Len(segments)) = e.path

(* An index witness is inferred if there is exactly one.                   *)
HasOnce(x, list) == Cardinality({i \in DOMAIN list : list[i] = x}) = 1

(* Mutant: an impl that stops at Validated.                                *)
AllProvided_Shallow(e, provided) ==
  LET reach == {i \in DOMAIN e.wraps : \A j \in 1..(i - 1) : e.wraps[j].w # "Validated"}
  IN  \A i \in reach :
        /\ e.wraps[i].w \in {"Requires", "Protected", "Validated"}
        /\ e.wraps[i].w = "Requires" => HasOnce(e.wraps[i].arg, provided)

(* AllProvided has no impl for the other wrappers, so an API with one of   *)
(* them does not compile behind a builder that asks for it.                *)
AllProvided(e, provided) ==
  \A i \in DOMAIN e.wraps :
    /\ e.wraps[i].w \in {"Requires", "Protected", "Validated"}
    /\ e.wraps[i].w = "Requires" => HasOnce(e.wraps[i].arg, provided)

(* Mutant: one sub-API that is mounted is enough.                          *)
AllMounted_Some(api, mounted) == \E i \in DOMAIN api : HasOnce(api[i], mounted)

AllMounted(api, mounted) == \A i \in DOMAIN api : HasOnce(api[i], mounted)

-----------------------------------------------------------------------------
(* Binding                                                                 *)

(* The bounds on the endpoint type; bind_validated and bind_strict need    *)
(* the request and the response type of a bare endpoint.                   *)
bind(e) == Bindable(e)
bind_protected(e, args) == Outer(e, "Protected") /\ Bindable(Wrapped(e)) /\ args # <<>> /\ args[1] = "Auth"
bind_validated(e) == Outer(e, "Validated") /\ Wrapped(e).wraps = <<>>
bind_content_type(e) == Outer(e, "ContentType") /\ Bindable(Wrapped(e))
bind_strict(e) == Outer(e, "Strict") /\ Wrapped(e).wraps = <<>>

Compiles(e, binder, args) ==
  CASE binder = "bind" -> bind(e)
    [] binder = "bind_auth" -> bind_protected(e, args)
    [] binder = "bind_validated" -> bind_validated(e)
    [] binder = "bind_content_type" -> bind_content_type(e)
    [] binder = "bind_strict" -> bind_strict(e)
Binders == {"bind", "bind_auth", "bind_validated", "bind_content_type", "bind_strict"}

(* BoundHandler: the tuples of handlers that fit a tuple of endpoints.     *)
Bound(e) == {[e |-> e, binder |-> b, args |-> a] : b \in Binders, a \in Handlers}
Serves(sub) ==
  {s \in [DOMAIN sub -> UNION {Bound(sub[i]) : i \in DOMAIN sub}] :
     \A i \in DOMAIN sub : s[i].e = sub[i] /\ Compiles(sub[i], s[i].binder, s[i].args)}

-----------------------------------------------------------------------------
(* Building                                                                *)

Fresh(api, kind) == [api |-> api, kind |-> kind, stage |-> "new", mounted |-> <<>>, provided |-> <<>>]

StackInit ==
  /\ author \in {Fresh(a, k) : a \in Apis, k \in Kinds}
  /\ author.kind = "ServerBuilder" \/ Len(author.api) = 1
  /\ routes = <<>> /\ layers = <<>> /\ exchange = Idle

(* Server::new and EffectfulServer::new: a handler for every endpoint.     *)
new ==
  /\ author.stage = "new" /\ author.kind # "ServerBuilder"
  /\ routes' \in Serves(author.api[1])
  /\ author' = [author EXCEPT !.stage = "building"]
  /\ UNCHANGED <<layers, exchange>>

new_builder ==
  /\ author.stage = "new" /\ author.kind = "ServerBuilder"
  /\ author' = [author EXCEPT !.stage = "building"]
  /\ UNCHANGED <<routes, layers, exchange>>

(* mount asks nothing of the sub-API; after layer there is no mount.       *)
mount ==
  /\ author.stage = "building" /\ author.kind = "ServerBuilder" /\ layers = <<>>
  /\ Len(author.mounted) < MaxMounts
  /\ \E sub \in Range(author.api) \union Extras :
       /\ \E s \in Serves(sub) : routes' = routes \o s
       /\ author' = [author EXCEPT !.mounted = <<sub>> \o @]
  /\ UNCHANGED <<layers, exchange>>

provide ==
  /\ author.stage = "building" /\ author.kind # "Server"
  /\ Len(author.provided) < MaxProvides
  /\ \E x \in Effects : author' = [author EXCEPT !.provided = <<x>> \o @]
  /\ UNCHANGED <<routes, layers, exchange>>

layer ==
  /\ author.stage = "building" /\ Len(layers) < MaxLayers
  /\ \E l \in Layers : layers' = Append(layers, l)
  /\ UNCHANGED <<author, routes, exchange>>

Serve ==
  /\ author.stage = "building"
  /\ author' = [author EXCEPT !.stage = "serving"]
  /\ UNCHANGED <<routes, layers, exchange>>
Discharged ==
  \A i \in DOMAIN author.api : \A j \in DOMAIN author.api[i] : AllProvided(author.api[i][j], author.provided)

(* Server asks nothing, EffectfulServer for the effects, ServerBuilder for *)
(* the mounts and the effects.                                             *)
serve == author.kind = "Server" /\ Serve
ready == author.kind = "EffectfulServer" /\ Discharged /\ Serve
build == author.kind = "ServerBuilder" /\ AllMounted(author.api, author.mounted) /\ Discharged /\ Serve

(* The program is changed and started again.                               *)
Rewrite ==
  /\ exchange = Idle
  /\ author' = Fresh(author.api, author.kind) /\ routes' = <<>> /\ layers' = <<>>
  /\ UNCHANGED exchange

-----------------------------------------------------------------------------
(* Serving                                                                 *)

Requests(paths) ==
  [path : paths, cred : BOOLEAN, ct : BOOLEAN, body : {"valid", "refused", "junk"}, id : {"client", "none"}]

(* Mutant: an id that the client sent is not looked for.                   *)
LayerId_Fresh(r, i) == <<"made", i>>

(* RequestIdService: the client's id, or one it makes up.                  *)
LayerId(r, i) == IF r.id = "client" THEN <<"client", 0>> ELSE <<"made", i>>

IdLayers == {i \in DOMAIN layers : layers[i] = "RequestId"}
Highest(I) == CHOOSE i \in I : \A j \in I : j <= i
Lowest(I) == CHOOSE i \in I : \A j \in I : i <= j

(* A request goes in through the layers; the last one to insert its id     *)
(* into the extensions is the innermost.                                   *)
call ==
  /\ author.stage = "serving" /\ exchange = Idle
  /\ \E r \in Requests({pattern(b.e) : b \in Range(routes)} \union {b.e.path : b \in Range(routes)}) :
       exchange' = [at |-> "in", r |-> r, status |-> "none", ran |-> <<>>,
                    ext |-> IF IdLayers = {} THEN <<>> ELSE <<LayerId(r, Lowest(IdLayers))>>, id |-> <<>>]
  /\ UNCHANGED <<author, routes, layers>>

(* What an extractor makes of the request, or the status it refuses with.  *)
from_request(x, ex) ==
  CASE x = "Auth" -> IF ex.r.cred THEN "ok" ELSE "401"
    [] x = "RequestId" -> IF ex.ext # <<>> THEN "ok" ELSE "500"
    [] x = "Json" -> IF ex.r.body # "junk" THEN "ok" ELSE "400"

(* Extractors run in the order of the arguments up to the first refusal.   *)
Extract(args, ex) ==
  LET bad == {i \in DOMAIN args : from_request(args[i], ex) # "ok"}
  IN  IF bad = {} THEN "ok" ELSE from_request(args[Lowest(bad)], ex)

(* Mutant: the wrong content type is found and no answer made of it.       *)
Check_Silent(binder, r) ==
  CASE binder = "bind_validated" /\ r.body # "valid" -> "422"
    [] binder = "bind_content_type" /\ ~r.ct -> "none"
    [] OTHER -> "ok"

(* The check a binder puts in front of the handler.                        *)
Check(binder, r) ==
  CASE binder = "bind_validated" /\ r.body # "valid" -> "422"
    [] binder = "bind_content_type" /\ ~r.ct -> "415"
    [] OTHER -> "ok"

(* The first route of the path, its check, its extractors, its handler.    *)
route ==
  /\ exchange.at = "in"
  /\ LET found == {i \in DOMAIN routes : pattern(routes[i].e) = exchange.r.path
                                         /\ match_fn(routes[i].e, exchange.r.path)}
         b == routes[Lowest(found)]
         refusal == IF Check(b.binder, exchange.r) # "ok" THEN Check(b.binder, exchange.r)
                    ELSE Extract(b.args, exchange)
     IN  exchange' = IF found = {} THEN [exchange EXCEPT !.at = "out", !.status = "404"]
                     ELSE [exchange EXCEPT !.at = "out", !.status = IF refusal = "ok" THEN "200" ELSE refusal,
                                           !.ran = IF refusal = "ok" THEN <<b.e>> ELSE <<>>]
  /\ UNCHANGED <<author, routes, layers>>

(* The answer goes out through the layers; insert replaces, so the         *)
(* outermost id stays.                                                     *)
answer ==
  /\ exchange.at = "out"
  /\ exchange' = [exchange EXCEPT !.at = "answered",
       !.id = IF IdLayers = {} THEN <<>> ELSE <<LayerId(exchange.r, Highest(IdLayers))>>]
  /\ UNCHANGED <<author, routes, layers>>

Forget == exchange.at = "answered" /\ exchange' = Idle /\ UNCHANGED <<author, routes, layers>>

StackNext ==
  \/ new \/ new_builder \/ mount \/ provide \/ layer \/ serve \/ ready \/ build \/ Rewrite
  \/ call \/ route \/ answer \/ Forget

StackSpec == StackInit /\ [][StackNext]_stackVars

-----------------------------------------------------------------------------
(* Properties                                                              *)

Serving == author.stage = "serving"
Declared == UNION {Range(author.api[i]) : i \in DOMAIN author.api}
Answered == exchange.at = "answered"
(* No two routes answer the same path.                                     *)
Unshadowed(p) == Cardinality({i \in DOMAIN routes : pattern(routes[i].e) = p}) = 1

(* The type invariant.                                                     *)
StackTypeOK ==
  /\ author.kind \in Kinds /\ author.stage \in {"new", "building", "serving"}
  /\ Len(author.mounted) <= MaxMounts /\ Len(author.provided) <= MaxProvides
  /\ layers \in Seq(Layers) /\ Len(layers) <= MaxLayers
  /\ exchange.at \in {"idle", "in", "out", "answered"}
  /\ exchange # Idle => Serving
  /\ Answered => exchange.status \in {"200", "400", "401", "404", "415", "422", "500"}

(* However an endpoint is wrapped and bound, the handler of one that is    *)
(* Protected at some depth runs only for a request with credentials, and a *)
(* request without them learns nothing about its body or its path: the     *)
(* answer is 401 (auth.rs: no BindableEndpoint for Protected, and          *)
(* AuthHandler extracts its first argument first).                         *)
AuthGuards ==
  /\ Answered => \A i \in DOMAIN exchange.ran : Wraps(exchange.ran[i], "Protected") => exchange.r.cred
  /\ Answered /\ ~exchange.r.cred =>
       \A i \in DOMAIN routes :
         Wraps(routes[i].e, "Protected") /\ pattern(routes[i].e) = exchange.r.path /\ Unshadowed(exchange.r.path)
           => exchange.status = "401"

(* A builder that tracks effects serves only an API whose required effects *)
(* were all provided, under every nesting of the wrappers (AllProvided).   *)
EffectsDischarged ==
  Serving /\ author.kind # "Server" =>
    \A e \in Declared : \A i \in DOMAIN e.wraps :
      e.wraps[i].w = "Requires" => e.wraps[i].arg \in Range(author.provided)

(* A server answers at the full path of every endpoint of its API, version *)
(* segments included, by whichever builder and in whichever order it was   *)
(* put together: such a request never gets a 404 (AllMounted, Serves, and  *)
(* pattern against match_fn of the wrappers).                              *)
DeclaredIsServed ==
  /\ Serving => \A e \in Declared : \E i \in DOMAIN routes : routes[i].e = e
  /\ Answered /\ exchange.r.path \in {pattern(e) : e \in Declared} => exchange.status # "404"

(* Where a RequestIdLayer is applied once, or the client sends an id, the  *)
(* handler and the client know the request by one id, the client's if it   *)
(* sent one; refusals and 404s carry it too (request_id.rs).               *)
OneRequestId ==
  Answered =>
    /\ IdLayers # {} => exchange.id # <<>>
    /\ exchange.r.id = "client" /\ IdLayers # {} => exchange.id = <<<<"client", 0>>>>
    /\ Cardinality(IdLayers) <= 1 \/ exchange.r.id = "client" => exchange.id = exchange.ext

(* Whatever compiles is sound: no wrapper hides a Protected endpoint from  *)
(* its credentials (auth.rs), no effect is left without a provider         *)
(* (effects.rs), every declared endpoint is served (mount.rs, serves.rs),  *)
(* and a request has one id (request_id.rs).                               *)
StackSound == AuthGuards /\ EffectsDischarged /\ DeclaredIsServed /\ OneRequestId
=============================================================================
