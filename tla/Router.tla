------------------------------- MODULE Router -------------------------------
(***************************************************************************)
(* The runtime router of typeway-server (router.rs), the builder methods   *)
(* of Server and LayeredServer that configure it (server.rs), and requests *)
(* dispatched through it.                                                  *)
(*                                                                         *)
(* The builder methods consume the server, so configuration ends before    *)
(* the first request.  A request reads the table under one read lock,      *)
(* awaits its body with no lock held, and takes the handler out of the     *)
(* table under a second one.                                               *)
(***************************************************************************)
EXTENDS Paths

CONSTANTS
  Endpoints,     (* routes the API may register: [kind |-> "endpoint",     *)
                 (* method, pattern, path, state] where `path` is the P of *)
                 (* the handler's Path<P> and `state` the T of its State<T>*)
  StaticPrefixes,(* prefixes given to with_static_files                    *)
  Prefixes,      (* prefixes given to nest, as sequences of segments       *)
  States,        (* types given to with_state                              *)
  NoState,       (* no State<T> argument, or no state set                  *)
  RequestMethods, RequestPaths,
  Sizes, Limits, (* body sizes and values given to max_body_size           *)
  Text,          (* the strings of patterns and paths                      *)
  Requests,      (* requests in flight at a time                           *)
  MaxRoutes      (* bound on the routing table                             *)

Elements == {"lit", "cap", "rest"} \X Text
Patterns == Seq(Elements)

(* A rest capture is the last element of its pattern.                      *)
RestLast(pat) == \A k \in 1..Len(pat) : pat[k][1] = "rest" => k = Len(pat)

ASSUME RouterAssumption ==
  /\ Endpoints \subseteq [kind : {"endpoint"}, method : STRING, pattern : Patterns,
                          path : Patterns, state : States \cup {NoState}]
  /\ \A e \in Endpoints : RestLast(e.pattern)
  /\ {"", "path"} \subseteq Text
  /\ StaticPrefixes \subseteq Seq(Text) /\ Prefixes \subseteq Seq(Text)
  /\ NoState \notin States
  /\ Sizes \subseteq Nat /\ Limits \subseteq Nat
  /\ MaxRoutes \in Nat
  /\ RequestPaths \subseteq Seq(Text)

VARIABLES
  routes, trie, linear, any_method_trie, any_method_seen,
  any_method_has_fallback, methods_present,
  prefix, state_injector, fallback, max_body_size,
  serving, req

tableVars == <<routes, trie, linear, any_method_trie, any_method_seen,
               any_method_has_fallback, methods_present>>
configVars == <<prefix, state_injector, fallback, max_body_size>>
vars == <<tableVars, configVars, serving, req>>

(* The method buckets; every method without one of its own shares "other". *)
Named == {"GET", "POST", "PUT", "DELETE", "PATCH", "HEAD", "OPTIONS"}
Buckets == Named \cup {"other"}
bucket(m) == IF m \in Named THEN m ELSE "other"

(* A request not in the server.                                            *)
Idle == [pc |-> "idle", method |-> "GET", path |-> <<"">>, size |-> 0, hit |-> 0,
         limit |-> 0, state |-> NoState, file |-> <<>>, result |-> "none"]

(* Router::new                                                             *)
Init ==
  /\ routes = <<>>
  /\ trie = [b \in Buckets |-> {}]
  /\ linear = [b \in Buckets |-> <<>>]
  /\ any_method_trie = {}
  /\ any_method_seen = {}
  /\ any_method_has_fallback = FALSE
  /\ methods_present = {}
  /\ prefix = <<>>
  /\ state_injector = NoState
  /\ fallback = FALSE
  /\ max_body_size \in Limits
  /\ serving = FALSE
  /\ req = [r \in Requests |-> Idle]

-----------------------------------------------------------------------------
(* Registration and configuration.                                         *)

Shape(i) == to_matchit_pattern(routes[i].pattern)

(* External: matchit's insert succeeds.                                    *)
Insertable(shapes, s) == \A a \in shapes : ~Conflict(a, s)

(* Mutant: a conflicting pattern is dropped.                               *)
add_route_Drop(rt) ==
  LET s == to_matchit_pattern(rt.pattern)
      b == bucket(rt.method)
      idx == Len(routes) + 1
      new == s \notin any_method_seen
  IN  /\ idx <= MaxRoutes
      /\ methods_present' = methods_present \cup {b}
      /\ trie' = IF Insertable({Shape(i) : i \in trie[b]}, s)
                   THEN [trie EXCEPT ![b] = @ \cup {idx}] ELSE trie
      /\ UNCHANGED linear
      /\ any_method_seen' = any_method_seen \cup {s}
      /\ IF new /\ Insertable(any_method_trie, s)
           THEN any_method_trie' = any_method_trie \cup {s}
           ELSE UNCHANGED any_method_trie
      /\ any_method_has_fallback' =
           (any_method_has_fallback \/ (new /\ ~Insertable(any_method_trie, s)))
      /\ routes' = Append(routes, rt)

(* Mutant: the index is taken after the route was pushed.                  *)
add_route_Late(rt) ==
  LET b == bucket(rt.method)
      idx == Len(routes) + 2
  IN  /\ Len(routes) < MaxRoutes
      /\ methods_present' = methods_present \cup {b}
      /\ trie' = [trie EXCEPT ![b] = @ \cup {idx}]
      /\ UNCHANGED <<linear, any_method_trie, any_method_seen, any_method_has_fallback>>
      /\ routes' = Append(routes, rt)

(* Router::add_route: into the bucket's trie, or its linear list when the  *)
(* trie refuses the pattern; and once per pattern into the unified trie,   *)
(* whose refusal is remembered.                                            *)
add_route(rt) ==
  LET s == to_matchit_pattern(rt.pattern)
      b == bucket(rt.method)
      idx == Len(routes) + 1
      new == s \notin any_method_seen
  IN  /\ idx <= MaxRoutes
      /\ methods_present' = methods_present \cup {b}
      /\ IF Insertable({Shape(i) : i \in trie[b]}, s)
           THEN /\ trie' = [trie EXCEPT ![b] = @ \cup {idx}]
                /\ UNCHANGED linear
           ELSE /\ linear' = [linear EXCEPT ![b] = Append(@, idx)]
                /\ UNCHANGED trie
      /\ any_method_seen' = any_method_seen \cup {s}
      /\ IF new /\ Insertable(any_method_trie, s)
           THEN any_method_trie' = any_method_trie \cup {s}
           ELSE UNCHANGED any_method_trie
      /\ any_method_has_fallback' =
           (any_method_has_fallback \/ (new /\ ~Insertable(any_method_trie, s)))
      /\ routes' = Append(routes, rt)

(* BoundHandler::register_into, for one endpoint of the API.               *)
Register ==
  /\ ~serving
  /\ \E e \in Endpoints : add_route(e)
  /\ UNCHANGED <<configVars, serving, req>>

(* with_static_files: a GET route whose match function accepts the prefix  *)
(* alone or followed by anything.                                          *)
StaticRoute(pre) ==
  LET pat == Append([i \in 1..Len(pre) |-> Lit(pre[i])], CaptureRest("path"))
  IN  [kind |-> "static", method |-> "GET", pattern |-> pat, path |-> pat, state |-> NoState]

with_static_files ==
  /\ ~serving
  /\ \E pre \in StaticPrefixes : add_route(StaticRoute(pre))
  /\ UNCHANGED <<configVars, serving, req>>

(* nest: a prefix without segments is ignored.                             *)
nest ==
  /\ ~serving
  /\ \E pre \in Prefixes : prefix' = IF pre = <<>> THEN prefix ELSE pre
  /\ UNCHANGED <<tableVars, state_injector, fallback, max_body_size, serving, req>>

(* with_state replaces the injector, and with it the state set before.     *)
with_state ==
  /\ ~serving
  /\ \E T \in States : state_injector' = T
  /\ UNCHANGED <<tableVars, prefix, fallback, max_body_size, serving, req>>

(* with_fallback, with_spa_fallback                                        *)
set_fallback ==
  /\ ~serving
  /\ fallback' = TRUE
  /\ UNCHANGED <<tableVars, prefix, state_injector, max_body_size, serving, req>>

set_max_body_size ==
  /\ ~serving
  /\ max_body_size' \in Limits
  /\ UNCHANGED <<tableVars, prefix, state_injector, fallback, serving, req>>

serve ==
  /\ ~serving
  /\ serving' = TRUE
  /\ UNCHANGED <<tableVars, configVars, req>>

-----------------------------------------------------------------------------
(* Lookup.                                                                 *)

match_fn(i, p) == Extract(routes[i].pattern, Segments(p))

(* External: the routes of a bucket whose pattern matchit's `at` returns,  *)
(* at most one.                                                            *)
TrieAt(b, p) ==
  LET M == {i \in trie[b] : ShapeMatches(Shape(i), p)}
  IN  {i \in M : \A j \in M \ {i} : Precedes(Shape(i), Shape(j))}

(* The routes of the linear list that accept, in registration order.       *)
LinearAt(b, p) == {k \in 1..Len(linear[b]) : match_fn(linear[b][k], p)}

(* lookup_in_bucket: the route found, or 0.                                *)
lookup_in_bucket(b, p) ==
  LET T == {i \in TrieAt(b, p) : match_fn(i, p)}
      L == LinearAt(b, p)
  IN  IF T # {} THEN CHOOSE i \in T : TRUE
      ELSE IF L # {} THEN linear[b][CHOOSE k \in L : \A l \in L : k <= l]
      ELSE 0

(* Mutant: the unified trie is trusted although it refused a pattern.      *)
any_path_shape_Trusted(p) == \E a \in any_method_trie : ShapeMatches(a, p)

(* The unified trie may hold the path's shape.                             *)
any_path_shape(p) ==
  any_method_has_fallback \/ \E a \in any_method_trie : ShapeMatches(a, p)

(* resolve: [hit, status], hit = 0 unless a route of the method matches.   *)
NotFound == [hit |-> 0, status |-> 404]
MethodNotAllowed == [hit |-> 0, status |-> 405]
Hit(i) == [hit |-> i, status |-> 200]

resolve(m, p) ==
  LET i == lookup_in_bucket(bucket(m), p)
  IN  IF i # 0 THEN Hit(i)
      ELSE IF methods_present = {bucket(m)} THEN NotFound
      ELSE IF any_path_shape(p) /\ \E b \in Buckets : lookup_in_bucket(b, p) # 0
        THEN MethodNotAllowed
        ELSE NotFound

(* strip_prefix: the path below the prefix, or <<>> if it is not below it. *)
strip_prefix(p) ==
  LET n == Len(prefix)
  IN  IF n = 0 THEN p
      ELSE IF Len(p) < n \/ SubSeq(p, 1, n) # prefix THEN <<>>
      ELSE IF Len(p) = n THEN <<"">>
      ELSE SubSeq(p, n + 1, Len(p))

-----------------------------------------------------------------------------
(* Requests.                                                               *)

(* Mutant: a path outside the prefix is looked up as it is.                *)
Lookup_Anywhere(m, p) ==
  LET lp == strip_prefix(p) IN resolve(m, IF lp = <<>> THEN p ELSE lp)

(* What the lookup answers for path p: outside the prefix nothing matches. *)
Lookup(m, p) ==
  LET lp == strip_prefix(p) IN IF lp = <<>> THEN NotFound ELSE resolve(m, lp)

(* The request a client sends.                                             *)
Sent(m, p, z) == [Idle EXCEPT !.method = m, !.path = p, !.size = z]

(* Router::route up to its first await: the lookup under the read lock.    *)
(* A hit remembers the index, the body limit and the injected state; a     *)
(* miss is answered at once, by the fallback if there is one.              *)
route(r) ==
  /\ serving /\ req[r].pc = "idle"
  /\ \E m \in RequestMethods, p \in RequestPaths, z \in Sizes :
       LET out == Lookup(m, p)
           answer == IF out.status = 405 THEN "not_allowed"
                     ELSE IF fallback THEN "fallback" ELSE "not_found"
       IN  req' = [req EXCEPT ![r] =
             IF out.hit # 0
               THEN [Sent(m, p, z) EXCEPT !.pc = "collect", !.hit = out.hit,
                                          !.limit = max_body_size,
                                          !.state = state_injector]
               ELSE [Sent(m, p, z) EXCEPT !.pc = "done", !.result = answer]]
  /\ UNCHANGED <<tableVars, configVars, serving>>

(* route_with_bytes: the body is already there, so the handler is called   *)
(* under the same lock; no body limit and no fallback.                     *)
route_with_bytes(r) ==
  /\ serving /\ req[r].pc = "idle"
  /\ \E m \in RequestMethods, p \in RequestPaths :
       LET out == Lookup(m, p)
           answer == IF out.status = 405 THEN "not_allowed" ELSE "not_found"
       IN  req' = [req EXCEPT ![r] =
             IF out.hit # 0
               THEN [Sent(m, p, 0) EXCEPT !.pc = "handle", !.hit = out.hit,
                                          !.limit = 0, !.state = state_injector]
               ELSE [Sent(m, p, 0) EXCEPT !.pc = "done", !.result = answer]]
  /\ UNCHANGED <<tableVars, configVars, serving>>

Respond(r, x) == req' = [req EXCEPT ![r] = [@ EXCEPT !.pc = "done", !.result = x]]

(* collect_body_limited, then the handler is taken out of the table under  *)
(* the second read lock.                                                   *)
collect_body_limited(r) ==
  /\ req[r].pc = "collect"
  /\ IF req[r].size > req[r].limit THEN Respond(r, "too_large")
     ELSE req' = [req EXCEPT ![r] = [@ EXCEPT !.pc = "handle"]]
  /\ UNCHANGED <<tableVars, configVars, serving>>

(* Reading the body fails for another reason: answered like an oversized   *)
(* one.                                                                    *)
body_error(r) ==
  /\ req[r].pc = "collect"
  /\ Respond(r, "too_large")
  /\ UNCHANGED <<tableVars, configVars, serving>>

(* Mutant: Path<P> reads the path of the request as it came.               *)
EndpointResult_Raw(q) ==
  IF ~Extract(routes[q.hit].path, Segments(q.path)) THEN "bad_path"
  ELSE IF routes[q.hit].state \notin {NoState, q.state} THEN "no_state"
  ELSE "ok"

(* The handler of an endpoint: Path<P> reads the path below the nest       *)
(* prefix, then State<T> the injected state.                               *)
EndpointResult(q) ==
  IF ~Extract(routes[q.hit].path, Segments(strip_prefix(q.path))) THEN "bad_path"
  ELSE IF routes[q.hit].state \notin {NoState, q.state} THEN "no_state"
  ELSE "ok"

(* Mutant: one part too many is dropped.                                   *)
StaticFile_Short(q) == SubSeq(q.path, Len(routes[q.hit].pattern) + 1, Len(q.path))

(* The file path the static handler joins to its directory: it drops as    *)
(* many parts of the request's own path as its prefix has.                 *)
StaticFile(q) == SubSeq(q.path, Len(routes[q.hit].pattern), Len(q.path))

handle(r) ==
  /\ req[r].pc = "handle"
  /\ IF routes[req[r].hit].kind = "static"
       THEN req' = [req EXCEPT ![r] = [@ EXCEPT !.pc = "done", !.result = "ok",
                                                !.file = StaticFile(req[r])]]
       ELSE Respond(r, EndpointResult(req[r]))
  /\ UNCHANGED <<tableVars, configVars, serving>>

(* RouterService::call turns a panic of the handler's future into a 500.   *)
handler_panics(r) ==
  /\ req[r].pc = "handle"
  /\ Respond(r, "panic")
  /\ UNCHANGED <<tableVars, configVars, serving>>

(* The response is sent, or the client goes away and the future is dropped.*)
leave(r) ==
  /\ req[r].pc # "idle"
  /\ req' = [req EXCEPT ![r] = Idle]
  /\ UNCHANGED <<tableVars, configVars, serving>>

Next ==
  \/ Register \/ with_static_files \/ nest \/ with_state \/ set_fallback
  \/ set_max_body_size \/ serve
  \/ \E r \in Requests :
       \/ route(r) \/ route_with_bytes(r) \/ collect_body_limited(r) \/ body_error(r)
       \/ handle(r) \/ handler_panics(r) \/ leave(r)

Spec == Init /\ [][Next]_vars

-----------------------------------------------------------------------------
Answers == {"none", "ok", "bad_path", "no_state", "panic", "too_large",
            "not_found", "not_allowed", "fallback"}

Indices == 1..Len(routes)

Routes == Endpoints \cup {StaticRoute(pre) : pre \in StaticPrefixes}

RequestStates ==
  [pc : {"idle", "collect", "handle", "done"},
   method : RequestMethods \cup {"GET"}, path : RequestPaths \cup {<<"">>},
   size : Sizes \cup {0}, hit : Indices \cup {0}, limit : Limits \cup {0},
   state : States \cup {NoState}, file : Seq(Text), result : Answers]

TableTypeOK ==
  /\ routes \in Seq(Routes)
  /\ trie \in [Buckets -> SUBSET Indices]
  /\ linear \in [Buckets -> Seq(Nat)]
  /\ \A b \in Buckets : \A k \in 1..Len(linear[b]) : linear[b][k] \in Indices
  /\ any_method_has_fallback \in BOOLEAN
  /\ methods_present \subseteq Buckets

ConfigTypeOK ==
  /\ prefix \in Prefixes \cup {<<>>}
  /\ state_injector \in States \cup {NoState}
  /\ fallback \in BOOLEAN /\ serving \in BOOLEAN
  /\ max_body_size \in Limits

TypeOK ==
  /\ TableTypeOK
  /\ ConfigTypeOK
  /\ req \in [Requests -> RequestStates]

(* "registration never silently drops a route" (router.rs:39): every route *)
(* is in the trie or in the linear list of its method's bucket, and not in *)
(* both; a trie never holds two patterns that conflict; and unless a       *)
(* conflict is on record the unified trie holds every pattern.             *)
InLinear(i, b) == \E k \in 1..Len(linear[b]) : linear[b][k] = i

IndexComplete ==
  /\ \A i \in Indices, b \in Buckets :
       (b = bucket(routes[i].method)) <=> (i \in trie[b] \/ InLinear(i, b))
  /\ \A i \in Indices, b \in Buckets : ~(i \in trie[b] /\ InLinear(i, b))
  /\ \A b \in Buckets : \A i, j \in trie[b] : i # j => ~Conflict(Shape(i), Shape(j))
  /\ any_method_seen = {Shape(i) : i \in Indices}
  /\ any_method_has_fallback \/ any_method_trie = any_method_seen
  /\ methods_present = {bucket(routes[i].method) : i \in Indices}

(* The handler a request is given after its body was awaited belongs to a  *)
(* route of its method whose match function accepts its path.              *)
HandlerMatchesRequest ==
  \A r \in Requests : req[r].pc \in {"collect", "handle"} =>
    /\ req[r].hit \in Indices
    /\ bucket(routes[req[r].hit].method) = bucket(req[r].method)
    /\ match_fn(req[r].hit, strip_prefix(req[r].path))

(* The path is one for which the trie decides nothing by precedence:       *)
(* whatever accepts it has a matching pattern, and of two patterns that    *)
(* match neither has a literal where the other has a wildcard.             *)
Plain(p) ==
  /\ \A i \in Indices : match_fn(i, p) => ShapeMatches(Shape(i), p)
  /\ \A i, j \in Indices :
       ShapeMatches(Shape(i), p) /\ ShapeMatches(Shape(j), p) =>
         ~Precedes(Shape(i), Shape(j))

(* On plain paths the tries, the linear lists, the bitmap of methods and   *)
(* the unified trie together answer what a scan of all routes would: a     *)
(* route of the method if one accepts, else 405 if a route of another      *)
(* method does, else 404.                                                  *)
ResolveMatchesScan ==
  \A m \in RequestMethods, p \in RequestPaths : Plain(p) =>
    LET own == {i \in Indices : bucket(routes[i].method) = bucket(m) /\ match_fn(i, p)}
    IN  IF own # {} THEN resolve(m, p).hit \in own
        ELSE resolve(m, p) = IF \E i \in Indices : match_fn(i, p)
                               THEN MethodNotAllowed ELSE NotFound

(* The Path<P> extractor of a handler reads the path its route matched,    *)
(* below the nest prefix: it never rejects what the match function took.   *)
(* Versioned endpoints, whose pattern is not their P, are left out.        *)
MatchedPathExtracts ==
  \A r \in Requests : req[r].result = "bad_path" =>
    routes[req[r].hit].path # routes[req[r].hit].pattern

(* "Requests to `{prefix}/{path}` will serve files from `{dir}/{path}`"    *)
(* (server.rs:209): a static handler looks up the part of the path that    *)
(* follows the prefix it was registered with.  Servers that are nested     *)
(* under a prefix, and paths with empty parts, are left out.               *)
StaticServesPath ==
  \A r \in Requests :
    LET q == req[r] IN
    /\ q.pc = "done" /\ q.result = "ok" /\ routes[q.hit].kind = "static"
    /\ prefix = <<>> /\ Segments(q.path) = q.path
    => \E pre \in StaticPrefixes : routes[q.hit] = StaticRoute(pre) /\ q.path = pre \o q.file

-----------------------------------------------------------------------------
(* "so registration never silently drops a route" (router.rs:39): a        *)
(* request is not answered 404 while a registered route of its method      *)
(* accepts it.                                                             *)
RegisteredRouteReachable ==
  \A r \in Requests : req[r].pc = "done" /\ req[r].result \in {"not_found", "fallback"} =>
    ~\E i \in Indices : /\ bucket(routes[i].method) = bucket(req[r].method)
                        /\ routes[i].kind = "endpoint"
                        /\ match_fn(i, strip_prefix(req[r].path))
=============================================================================
