---------------------------- MODULE ServerProofs ----------------------------
(***************************************************************************)
(* A server as it is put together and as it runs.  Whatever compiles is    *)
(* sound, for endpoints under any number of wrappers, APIs of any size,    *)
(* any handlers, and any number and order of mount, provide and layer      *)
(* (EndpointStack).  Once it serves, connections are isolated from each    *)
(* other, for every set of connections, every bound on their streams and   *)
(* both loops (ServerLifecycle).                                           *)
(***************************************************************************)
EXTENDS EndpointStack, ServerLifecycle, FiniteSetTheorems, SequenceTheorems, NaturalsInduction,
        WellFoundedInduction, TLAPS

-----------------------------------------------------------------------------
(* Positions.                                                              *)

(* The first route, the first extractor that refuses and the innermost     *)
(* layer exist where there is one at all.                                  *)
LEMMA LowestIsFirst ==
  ASSUME NEW S, S \subseteq Nat, S # {}
  PROVE  Lowest(S) \in S /\ \A j \in S : Lowest(S) <= j
<1>1. PICK k \in S : \A l \in S : ~(<<l, k>> \in OpToRel(<, Nat))
  BY NatLessThanWellFounded, WFMin, Zenon
<1>2. \A l \in S : ~(l < k)
  BY <1>1 DEF OpToRel
<1>3. \E i \in S : \A j \in S : i <= j
  BY <1>2
<1> QED
  BY <1>3, Zenon DEF Lowest

(* What a type list has exactly once it has.                               *)
LEMMA OnceIsThere ==
  ASSUME NEW x, NEW S, NEW list \in Seq(S), HasOnce(x, list)
  PROVE  \E i \in DOMAIN list : list[i] = x
<1> DEFINE S0 == {i \in DOMAIN list : list[i] = x}
<1>1. Cardinality(S0) = 1
  BY DEF HasOnce
<1> HIDE DEF S0
<1>2. Cardinality({}) = 0
  BY FS_EmptySet, Zenon
<1>3. S0 # {}
  BY <1>1, <1>2
<1> QED
  BY <1>3 DEF S0

(* A set of one element has no second one.                                 *)
LEMMA OneIsAlone ==
  ASSUME NEW n \in Nat, NEW S, S \subseteq 1..n, Cardinality(S) <= 1, NEW i \in S, NEW j \in S
  PROVE  i = j
<1>1. IsFiniteSet(S)
  <2>1. IsFiniteSet(1..n)
    BY FS_Interval
  <2> QED
    BY <2>1, FS_Subset
<1>2. SUFFICES ASSUME i # j PROVE FALSE
  OBVIOUS
<1>3. IsFiniteSet(S \ {i}) /\ Cardinality(S \ {i}) = Cardinality(S) - 1 /\ Cardinality(S) \in Nat
  BY <1>1, FS_RemoveElement, FS_CardinalityType
<1>4. IsFiniteSet((S \ {i}) \ {j}) /\ Cardinality((S \ {i}) \ {j}) = Cardinality(S \ {i}) - 1
  BY <1>2, <1>3, FS_RemoveElement
<1>5. Cardinality((S \ {i}) \ {j}) \in Nat
  BY <1>4, FS_CardinalityType
<1> QED
  BY <1>3, <1>4, <1>5

-----------------------------------------------------------------------------
(* Types.                                                                  *)

(* What Versioned takes off the front of a path is what it put there: an   *)
(* endpoint's own pattern passes its match function.                       *)
LEMMA PatternMatches ==
  ASSUME NEW e \in EndpointTypes
  PROVE  match_fn(e, pattern(e))
<1> DEFINE v == Versions(e)
           n == Cardinality(Versioned(e))
           T == {v[k] : k \in 1..n} \union STRING
<1>1. n \in Nat
  <2>1. Len(e.wraps) \in Nat /\ Versioned(e) \subseteq 1..Len(e.wraps)
    BY DEF EndpointTypes, Versioned
  <2>2. IsFiniteSet(1..Len(e.wraps))
    BY <2>1, FS_Interval
  <2> QED
    BY <2>1, <2>2, FS_Subset, FS_CardinalityType
<1>2. v = [k \in 1..n |-> v[k]]
  BY DEF Versions
<1> HIDE DEF v, n
<1>3. v \in Seq(T) /\ Len(v) = n
  BY <1>1, <1>2
<1>4. e.path \in Seq(T)
  BY DEF EndpointTypes
<1>5. pattern(e) = v \o e.path
  BY DEF pattern, v
<1>6. Len(v \o e.path) = Len(v) + Len(e.path) /\ Len(v) \in Nat /\ Len(e.path) \in Nat
  BY <1>3, <1>4
<1>7. SubSeq(v \o e.path, 1, Len(v)) = v
  BY <1>3, <1>4, SubSeqOfConcat1, ConcatSimplifications, SubSeqFull
<1>8. SubSeq(v \o e.path, Len(v) + 1, Len(v \o e.path)) = e.path
  BY <1>3, <1>4, <1>6
<1>9. SubSeq(v, 1, Len(v)) = v
  BY <1>3
<1> QED
  BY <1>5, <1>6, <1>7, <1>8, <1>9 DEF match_fn, IsPrefix, v

(* A Protected endpoint, at whatever depth, compiles with one binder only, *)
(* and that one takes the credentials first.                               *)
LEMMA ProtectedTakesAuth ==
  ASSUME NEW e \in EndpointTypes, NEW binder \in Binders, NEW args \in Seq(Extractors),
         Compiles(e, binder, args), Wraps(e, "Protected")
  PROVE  binder = "bind_auth" /\ args # <<>> /\ args[1] = "Auth"
<1> USE DEF Binders
<1>1. e.wraps \in Seq([w : WrapperNames, arg : STRING])
  BY DEF EndpointTypes
<1>2. PICK i \in DOMAIN e.wraps : e.wraps[i].w = "Protected"
  BY DEF Wraps
<1>3. binder # "bind"
  BY <1>2 DEF Compiles, bind, Bindable, Wraps
<1>4. Wrapped(e).wraps = Tail(e.wraps)
  BY DEF Wrapped, EndpointTypes
<1>5. ASSUME e.wraps # <<>>, Head(e.wraps).w # "Protected"
      PROVE  Wraps(Wrapped(e), "Protected") /\ Tail(e.wraps) # <<>>
  <2>1. i \in 1..Len(e.wraps) /\ i # 1
    BY <1>1, <1>2, <1>5
  <2>2. i - 1 \in DOMAIN Tail(e.wraps) /\ Tail(e.wraps)[i - 1] = e.wraps[i]
    BY <1>1, <1>5, <2>1
  <2> QED
    BY <1>2, <1>4, <2>2 DEF Wraps
<1>6. binder # "bind_validated"
  BY <1>4, <1>5 DEF Compiles, bind_validated, Outer
<1>7. binder # "bind_content_type"
  BY <1>4, <1>5 DEF Compiles, bind_content_type, Outer, Bindable
<1>8. binder # "bind_strict"
  BY <1>4, <1>5 DEF Compiles, bind_strict, Outer
<1> QED
  BY <1>3, <1>6, <1>7, <1>8 DEF Compiles, bind_protected

-----------------------------------------------------------------------------
(* Extractors and checks.                                                  *)

(* The extractors of a handler answer with one of four words.              *)
LEMMA ExtractAnswers ==
  ASSUME NEW args \in Seq(Extractors), NEW ex
  PROVE  Extract(args, ex) \in {"ok", "401", "500", "400"}
<1> DEFINE bad == {i \in DOMAIN args : from_request(args[i], ex) # "ok"}
<1>1. \A x \in Extractors : from_request(x, ex) \in {"ok", "401", "500", "400"}
  BY DEF Extractors, from_request
<1>2. CASE bad = {}
  BY <1>2 DEF Extract
<1>3. CASE bad # {}
  <2>1. Lowest(bad) \in bad
    BY <1>3, LowestIsFirst, SMTT(30)
  <2>2. args[Lowest(bad)] \in Extractors
    BY <2>1
  <2> QED
    BY <1>1, <1>3, <2>2 DEF Extract
<1> QED
  BY <1>2, <1>3

(* Where the credentials are the first argument, a request without them is *)
(* answered with 401 whatever else is wrong with it.                       *)
LEMMA AuthComesFirst ==
  ASSUME NEW args \in Seq(Extractors), NEW ex, args # <<>>, args[1] = "Auth", ~ex.r.cred
  PROVE  Extract(args, ex) = "401"
<1> DEFINE bad == {i \in DOMAIN args : from_request(args[i], ex) # "ok"}
<1>1. from_request(args[1], ex) = "401"
  BY DEF from_request
<1>2. 1 \in bad /\ bad \subseteq Nat \ {0}
  BY <1>1
<1>3. Lowest(bad) = 1
  BY <1>2, LowestIsFirst
<1> QED
  BY <1>1, <1>2, <1>3 DEF Extract

-----------------------------------------------------------------------------
(* The invariant.                                                          *)

Authors ==
  [api : Seq(Seq(EndpointTypes)), kind : Kinds, stage : {"new", "building", "serving"},
   mounted : Seq(Seq(EndpointTypes)), provided : Seq(Effects)]
BoundHandlers == [e : EndpointTypes, binder : Binders, args : Seq(Extractors)]

Types ==
  /\ author \in Authors
  /\ Len(author.mounted) <= MaxMounts /\ Len(author.provided) <= MaxProvides
  /\ routes \in Seq(BoundHandlers)
  /\ \A i \in DOMAIN routes : Compiles(routes[i].e, routes[i].binder, routes[i].args)
  /\ layers \in Seq(Layers) /\ Len(layers) <= MaxLayers

Served(e) == \E i \in DOMAIN routes : routes[i].e = e
AllServed(sub) == \A j \in DOMAIN sub : Served(sub[j])

(* What the type parameters of the builder promise of the router.          *)
Kept ==
  /\ author.kind # "ServerBuilder" => Len(author.api) = 1
  /\ author.kind # "ServerBuilder" /\ author.stage # "new" => AllServed(author.api[1])
  /\ author.kind = "ServerBuilder" => \A k \in DOMAIN author.mounted : AllServed(author.mounted[k])
  /\ author.kind = "ServerBuilder" /\ Serving => AllMounted(author.api, author.mounted)
  /\ author.kind # "Server" /\ Serving => Discharged

Statuses == {"200", "400", "401", "404", "415", "422", "500"}

(* What the router may have done with a request r: its status and the      *)
(* handlers it ran.                                                        *)
GoodOutcome(r, status, ran) ==
  /\ status \in Statuses
  /\ \A i \in DOMAIN ran : Wraps(ran[i], "Protected") => r.cred
  /\ ~r.cred =>
       \A i \in DOMAIN routes :
         Wraps(routes[i].e, "Protected") /\ pattern(routes[i].e) = r.path /\ Unshadowed(r.path) => status = "401"
  /\ r.path \in {pattern(e) : e \in Declared} => status # "404"

InnermostId(r) == IF IdLayers = {} THEN <<>> ELSE <<LayerId(r, Lowest(IdLayers))>>
OutermostId(r) == IF IdLayers = {} THEN <<>> ELSE <<LayerId(r, Highest(IdLayers))>>

IsExchange(x) ==
  x = [at |-> x.at, r |-> x.r, status |-> x.status, ran |-> x.ran, ext |-> x.ext, id |-> x.id]

(* A request is in a server that serves, with the id of the innermost      *)
(* layer.                                                                  *)
Underway ==
  exchange = Idle \/
    /\ Serving
    /\ IsExchange(exchange)
    /\ exchange.at \in {"in", "out", "answered"}
    /\ exchange.ext = InnermostId(exchange.r)
    /\ exchange.at = "in" => exchange.ran = <<>>
    /\ exchange.at # "in" => GoodOutcome(exchange.r, exchange.status, exchange.ran)
    /\ exchange.at = "answered" => exchange.id = OutermostId(exchange.r)

StackInv == Types /\ Kept /\ Underway

(* What the first states promise.                                          *)
LEMMA StackBegins == StackInit => StackInv
<1> SUFFICES ASSUME StackInit PROVE StackInv
  OBVIOUS
<1>1. PICK a \in Apis, k \in Kinds : author = Fresh(a, k)
  BY DEF StackInit
<1>2. author.mounted = <<>> /\ author.provided = <<>> /\ author.stage = "new" /\ author.kind = k
  BY <1>1 DEF Fresh
<1>3. author \in Authors
  BY <1>1, StackAssumption DEF Fresh, Authors
<1>4. Types
  BY <1>2, <1>3, StackAssumption DEF Types, StackInit
<1>5. Kept
  BY <1>2, StackAssumption DEF Kept, StackInit, Serving
<1>6. Underway
  BY DEF Underway, StackInit
<1> QED
  BY <1>4, <1>5, <1>6 DEF StackInv

(* Every tuple of handlers that fits a tuple of endpoints is a tuple of    *)
(* bound handlers that compile, one for each endpoint.                     *)
LEMMA ServesFits ==
  ASSUME NEW sub \in Seq(EndpointTypes), NEW s \in Serves(sub)
  PROVE  /\ s \in Seq(BoundHandlers) /\ Len(s) = Len(sub)
         /\ \A i \in DOMAIN s : s[i].e = sub[i] /\ Compiles(s[i].e, s[i].binder, s[i].args)
<1>1. s \in [1..Len(sub) -> UNION {Bound(sub[i]) : i \in DOMAIN sub}]
  BY SMTT(30) DEF Serves
<1>2. UNION {Bound(sub[i]) : i \in DOMAIN sub} \subseteq BoundHandlers
  <2> SUFFICES ASSUME NEW i \in DOMAIN sub, NEW b \in Bound(sub[i]) PROVE b \in BoundHandlers
    OBVIOUS
  <2>1. sub[i] \in EndpointTypes
    OBVIOUS
  <2> QED
    BY <2>1, StackAssumption DEF Bound, BoundHandlers
<1>3. s \in [1..Len(sub) -> BoundHandlers] /\ Len(sub) \in Nat
  BY <1>1, <1>2
<1>4. s \in Seq(BoundHandlers) /\ Len(s) = Len(sub) /\ DOMAIN s = DOMAIN sub
  BY <1>3
<1>5. \A i \in DOMAIN sub : s[i].e = sub[i] /\ Compiles(sub[i], s[i].binder, s[i].args)
  BY DEF Serves
<1> QED
  BY <1>4, <1>5

-----------------------------------------------------------------------------
(* Building.                                                               *)

LEMMA NewKeeps == ASSUME StackInv, new PROVE StackInv'
<1> USE DEF StackInv
<1>1. author \in Authors /\ author.api[1] \in Seq(EndpointTypes)
  <2>1. author \in Authors /\ author.api \in Seq(Seq(EndpointTypes)) /\ Len(author.api) = 1
    BY DEF Types, Kept, new, Authors
  <2> QED
    BY <2>1
<1>2. author' \in Authors /\ author'.api = author.api /\ author'.kind = author.kind /\ author'.stage = "building"
      /\ author'.mounted = author.mounted /\ author'.provided = author.provided
  BY <1>1 DEF new, Authors
<1>3. /\ routes' \in Seq(BoundHandlers) /\ Len(routes') = Len(author.api[1])
      /\ \A i \in DOMAIN routes' : routes'[i].e = author.api[1][i] /\ Compiles(routes'[i].e, routes'[i].binder, routes'[i].args)
  BY <1>1, ServesFits DEF new
<1>4. Types'
  BY <1>2, <1>3 DEF Types, new
<1>5. AllServed(author.api[1])'
  BY <1>1, <1>2, <1>3 DEF AllServed, Served
<1>6. Kept'
  BY <1>2, <1>5 DEF Kept, new, Serving
<1>7. Underway'
  BY DEF Underway, new, Serving
<1> QED
  BY <1>4, <1>6, <1>7

LEMMA NewBuilderKeeps == ASSUME StackInv, new_builder PROVE StackInv'
<1> USE DEF StackInv
<1>1. author' \in Authors /\ author'.api = author.api /\ author'.kind = author.kind /\ author'.stage = "building"
      /\ author'.mounted = author.mounted /\ author'.provided = author.provided
  BY DEF Types, new_builder, Authors
<1>2. Types'
  BY <1>1 DEF Types, new_builder
<1>3. Kept'
  BY <1>1 DEF Kept, new_builder, Serving, AllServed, Served
<1>4. Underway'
  BY DEF Underway, new_builder, Serving
<1> QED
  BY <1>2, <1>3, <1>4

(* Mounting adds routes behind the ones there are, so what was served is   *)
(* served still, and so is the sub-API.                                    *)
LEMMA MountKeeps == ASSUME StackInv, mount PROVE StackInv'
<1> USE DEF StackInv
<1>0. PICK sub \in Range(author.api) \union Extras :
         /\ \E s \in Serves(sub) : routes' = routes \o s
         /\ author' = [author EXCEPT !.mounted = <<sub>> \o @]
  BY DEF mount
<1>1. PICK s \in Serves(sub) : routes' = routes \o s
  BY <1>0
<1>2. author \in Authors /\ author.mounted \in Seq(Seq(EndpointTypes)) /\ routes \in Seq(BoundHandlers)
  BY DEF Types, Authors
<1>3. sub \in Seq(EndpointTypes)
  <2>1. author.api \in Seq(Seq(EndpointTypes))
    BY <1>2 DEF Authors
  <2> QED
    BY <2>1, StackAssumption DEF Range
<1>4. /\ s \in Seq(BoundHandlers) /\ Len(s) = Len(sub)
      /\ \A i \in DOMAIN s : s[i].e = sub[i] /\ Compiles(s[i].e, s[i].binder, s[i].args)
  BY <1>3, ServesFits
<1> DEFINE m == <<sub>> \o author.mounted
<1>5. m \in Seq(Seq(EndpointTypes)) /\ Len(m) = 1 + Len(author.mounted)
      /\ \A k \in DOMAIN m : m[k] = sub \/ \E j \in DOMAIN author.mounted : m[k] = author.mounted[j]
  <2>1. <<sub>> \in Seq(Seq(EndpointTypes)) /\ Len(<<sub>>) = 1 /\ <<sub>>[1] = sub
    BY <1>3
  <2>2. m \in Seq(Seq(EndpointTypes)) /\ Len(m) = 1 + Len(author.mounted)
    BY <1>2, <2>1
  <2>3. ASSUME NEW k \in DOMAIN m, k # 1 PROVE k - 1 \in DOMAIN author.mounted /\ m[k] = author.mounted[k - 1]
    BY <1>2, <2>1, <2>2, <2>3
  <2>4. m[1] = sub
    BY <1>2, <2>1
  <2> QED
    BY <2>2, <2>3, <2>4
<1>6. author' \in Authors /\ author'.api = author.api /\ author'.kind = author.kind /\ author'.stage = author.stage
      /\ author'.mounted = m /\ author'.provided = author.provided
  <2> HIDE DEF m
  <2>1. author' = [author EXCEPT !.mounted = m]
    BY <1>0 DEF m
  <2> QED
    BY <1>2, <1>5, <2>1 DEF Authors
<1> HIDE DEF m
<1>7. routes' \in Seq(BoundHandlers) /\ Len(routes') = Len(routes) + Len(s)
  BY <1>1, <1>2, <1>4, ConcatProperties
<1>8. \A i \in DOMAIN routes : i \in DOMAIN routes' /\ routes'[i] = routes[i]
  BY <1>1, <1>2, <1>4
<1>9. \A i \in DOMAIN s : Len(routes) + i \in DOMAIN routes' /\ routes'[Len(routes) + i] = s[i]
  BY <1>1, <1>2, <1>4
<1>10. \A i \in DOMAIN routes' : i \in DOMAIN routes \/ (i - Len(routes) \in DOMAIN s /\ routes'[i] = s[i - Len(routes)])
  BY <1>1, <1>2, <1>4
<1>11. Len(author.mounted) < MaxMounts /\ Len(author.mounted) \in Nat /\ MaxMounts \in Nat
  BY <1>2, StackAssumption DEF mount
<1>12. \A i \in DOMAIN routes' : Compiles(routes'[i].e, routes'[i].binder, routes'[i].args)
  <2> SUFFICES ASSUME NEW i \in DOMAIN routes' PROVE Compiles(routes'[i].e, routes'[i].binder, routes'[i].args)
    OBVIOUS
  <2>1. CASE i \in DOMAIN routes
    <3>1. Compiles(routes[i].e, routes[i].binder, routes[i].args)
      BY <2>1 DEF Types
    <3> QED
      BY <2>1, <3>1, <1>8
  <2>2. CASE i \notin DOMAIN routes
    <3>1. i - Len(routes) \in DOMAIN s /\ routes'[i] = s[i - Len(routes)]
      BY <2>2, <1>10
    <3> QED
      BY <3>1, <1>4
  <2> QED
    BY <2>1, <2>2
<1>13. Types'
  BY <1>5, <1>6, <1>7, <1>11, <1>12 DEF Types, mount
<1> DEFINE ServedNext(t) == \A j \in DOMAIN t : \E i \in DOMAIN routes' : routes'[i].e = t[j]
<1>14. \A t : AllServed(t) => ServedNext(t)
  BY <1>8 DEF AllServed, Served
<1>15. ServedNext(sub)
  <2> SUFFICES ASSUME NEW j \in DOMAIN sub PROVE \E i \in DOMAIN routes' : routes'[i].e = sub[j]
    OBVIOUS
  <2>1. j \in DOMAIN s
    BY <1>3, <1>4
  <2> QED
    BY <1>4, <1>9, <2>1
<1> HIDE DEF ServedNext
<1>16. \A k \in DOMAIN m : ServedNext(m[k])
  <2> SUFFICES ASSUME NEW k \in DOMAIN m PROVE ServedNext(m[k])
    OBVIOUS
  <2>1. CASE m[k] = sub
    BY <2>1, <1>15
  <2>2. ASSUME NEW j \in DOMAIN author.mounted, m[k] = author.mounted[j] PROVE ServedNext(m[k])
    <3>1. AllServed(author.mounted[j])
      BY DEF Kept, mount
    <3> QED
      BY <3>1, <2>2, <1>14
  <2> QED
    BY <1>5, <2>1, <2>2
<1>17. Kept'
  BY <1>6, <1>16, ZenonT(40) DEF Kept, mount, Serving, AllServed, Served, ServedNext
<1>18. Underway'
  BY DEF Underway, mount, Serving
<1> QED
  BY <1>13, <1>17, <1>18

LEMMA ProvideKeeps == ASSUME StackInv, provide PROVE StackInv'
<1> USE DEF StackInv
<1>1. PICK x \in Effects : author' = [author EXCEPT !.provided = <<x>> \o @]
  BY DEF provide
<1> DEFINE p == <<x>> \o author.provided
<1>2. author \in Authors /\ author.provided \in Seq(Effects)
  BY DEF Types, Authors
<1>3. p \in Seq(Effects) /\ Len(p) = 1 + Len(author.provided)
  BY <1>2
<1>4. author' = [author EXCEPT !.provided = p]
  BY <1>1
<1> HIDE DEF p
<1>5. author' \in Authors /\ author'.api = author.api /\ author'.kind = author.kind /\ author'.stage = author.stage
      /\ author'.mounted = author.mounted /\ author'.provided = p
  BY <1>2, <1>3, <1>4 DEF Authors
<1>6. Len(author.provided) < MaxProvides /\ Len(author.provided) \in Nat /\ MaxProvides \in Nat
  BY <1>2, StackAssumption DEF provide
<1>7. Types'
  BY <1>3, <1>5, <1>6 DEF Types, provide
<1>8. Kept'
  BY <1>5 DEF Kept, provide, Serving, AllServed, Served
<1>9. Underway'
  BY DEF Underway, provide, Serving
<1> QED
  BY <1>7, <1>8, <1>9

LEMMA LayerKeeps == ASSUME StackInv, layer PROVE StackInv'
<1> USE DEF StackInv
<1>1. PICK l \in Layers : layers' = Append(layers, l)
  BY DEF layer
<1>2. layers' \in Seq(Layers) /\ Len(layers') = Len(layers) + 1 /\ Len(layers) \in Nat
  BY <1>1 DEF Types
<1>3. Types'
  BY <1>2, StackAssumption DEF Types, layer
<1>4. Kept'
  BY DEF Kept, layer, Serving, AllServed, Served, Discharged
<1>5. Underway'
  BY DEF Underway, layer, Serving
<1> QED
  BY <1>3, <1>4, <1>5

(* Serving starts with the promises each builder asks for.                 *)
LEMMA ServeKeeps ==
  ASSUME StackInv, Serve,
         author.kind = "ServerBuilder" => AllMounted(author.api, author.mounted),
         author.kind # "Server" => Discharged
  PROVE  StackInv'
<1> USE DEF StackInv
<1>1. author' \in Authors /\ author'.api = author.api /\ author'.kind = author.kind /\ author'.stage = "serving"
      /\ author'.mounted = author.mounted /\ author'.provided = author.provided /\ author.stage = "building"
  BY DEF Types, Serve, Authors
<1>2. Types'
  BY <1>1 DEF Types, Serve
<1>3. Discharged' = Discharged
  BY <1>1 DEF Discharged
<1>4. Kept'
  BY <1>1, <1>3 DEF Kept, Serve, Serving, AllServed, Served
<1>5. Underway'
  BY DEF Underway, Serve, Serving
<1> QED
  BY <1>2, <1>4, <1>5

LEMMA RewriteKeeps == ASSUME StackInv, Rewrite PROVE StackInv'
<1> USE DEF StackInv
<1>1. author \in Authors /\ author' = Fresh(author.api, author.kind)
  BY DEF Types, Rewrite
<1>2. author' \in Authors /\ author'.api = author.api /\ author'.kind = author.kind /\ author'.stage = "new"
      /\ author'.mounted = <<>> /\ author'.provided = <<>>
  BY <1>1 DEF Fresh, Authors
<1>3. Types'
  BY <1>2, StackAssumption DEF Types, Rewrite
<1>4. Kept'
  BY <1>2 DEF Kept, Rewrite, Serving
<1>5. Underway'
  BY DEF Underway, Rewrite
<1> QED
  BY <1>3, <1>4, <1>5

-----------------------------------------------------------------------------
(* Serving.                                                                *)

LEMMA ProgramStays ==
  ASSUME Types, Kept, UNCHANGED <<author, routes, layers>>
  PROVE  Types' /\ Kept'
<1>1. Types'
  BY DEF Types
<1>2. Kept'
  BY DEF Kept, Serving, AllServed, Served, Discharged
<1> QED
  BY <1>1, <1>2

LEMMA CallKeeps == ASSUME StackInv, call PROVE StackInv'
<1> USE DEF StackInv
<1>1. PICK r : exchange' = [at |-> "in", r |-> r, status |-> "none", ran |-> <<>>, ext |-> InnermostId(r), id |-> <<>>]
  BY DEF call, InnermostId
<1>2. IsExchange(exchange') /\ exchange'.at = "in" /\ exchange'.r = r /\ exchange'.ran = <<>>
      /\ exchange'.ext = InnermostId(r)
  BY <1>1 DEF IsExchange
<1>3. InnermostId(r) = InnermostId(r)'
  BY DEF InnermostId, IdLayers, call
<1>4. Underway'
  BY <1>2, <1>3 DEF Underway, call, Serving
<1>5. Types' /\ Kept'
  BY ProgramStays DEF call
<1> QED
  BY <1>4, <1>5

(* Where every sub-API is mounted, or the API was given whole, every       *)
(* declared endpoint is served.                                            *)
LEMMA DeclaredHasRoute ==
  ASSUME Types, Kept, Serving, NEW e \in Declared
  PROVE  Served(e)
<1>0. PICK i \in DOMAIN author.api : e \in Range(author.api[i])
  BY DEF Declared
<1>1. PICK j \in DOMAIN author.api[i] : e = author.api[i][j]
  BY <1>0 DEF Range
<1>2. author.api \in Seq(Seq(EndpointTypes)) /\ author.mounted \in Seq(Seq(EndpointTypes))
  BY DEF Types, Authors
<1>3. CASE author.kind # "ServerBuilder"
  <2>1. i = 1
    BY <1>1, <1>2, <1>3 DEF Kept
  <2>2. AllServed(author.api[1])
    BY <1>3 DEF Kept, Serving
  <2> QED
    BY <1>1, <2>1, <2>2 DEF AllServed
<1>4. CASE author.kind = "ServerBuilder"
  <2>1. HasOnce(author.api[i], author.mounted)
    BY <1>1, <1>4 DEF Kept, AllMounted
  <2>2. PICK k \in DOMAIN author.mounted : author.mounted[k] = author.api[i]
    BY <1>2, <2>1, OnceIsThere
  <2>3. AllServed(author.mounted[k])
    BY <1>4, <2>2 DEF Kept
  <2> QED
    BY <1>1, <2>2, <2>3 DEF AllServed
<1> QED
  BY <1>3, <1>4

(* The routes a request may take, and what the first of them does with it. *)
Found(r) == {i \in DOMAIN routes : pattern(routes[i].e) = r.path /\ match_fn(routes[i].e, r.path)}
Refusal(b, ex) == IF Check(b.binder, ex.r) # "ok" THEN Check(b.binder, ex.r) ELSE Extract(b.args, ex)
StatusOf(b, ex) == IF Refusal(b, ex) = "ok" THEN "200" ELSE Refusal(b, ex)
RanOf(b, ex) == IF Refusal(b, ex) = "ok" THEN <<b.e>> ELSE <<>>

(* A request is routed where its path is the pattern of a route.           *)
LEMMA FoundIsPattern ==
  ASSUME Types, NEW r
  PROVE  Found(r) = {i \in DOMAIN routes : pattern(routes[i].e) = r.path}
<1>1. \A i \in DOMAIN routes : match_fn(routes[i].e, pattern(routes[i].e))
  <2> SUFFICES ASSUME NEW i \in DOMAIN routes PROVE match_fn(routes[i].e, pattern(routes[i].e))
    OBVIOUS
  <2>1. routes[i] \in BoundHandlers
    BY DEF Types
  <2>2. routes[i].e \in EndpointTypes
    BY <2>1 DEF BoundHandlers
  <2> QED
    BY <2>2, PatternMatches
<1> QED
  BY <1>1 DEF Found

(* A bound handler refuses a request or runs its endpoint; a Protected one *)
(* answers a request without credentials with 401.                         *)
LEMMA HandlerAnswers ==
  ASSUME NEW b \in BoundHandlers, Compiles(b.e, b.binder, b.args), NEW ex
  PROVE  /\ StatusOf(b, ex) \in Statuses \ {"404"}
         /\ Wraps(b.e, "Protected") /\ ~ex.r.cred => StatusOf(b, ex) = "401" /\ RanOf(b, ex) = <<>>
         /\ RanOf(b, ex) \in {<<>>, <<b.e>>}
<1>1. b.e \in EndpointTypes /\ b.binder \in Binders /\ b.args \in Seq(Extractors)
  BY DEF BoundHandlers
<1>2. Check(b.binder, ex.r) \in {"ok", "415", "422"}
  BY DEF Check
<1>3. Extract(b.args, ex) \in {"ok", "401", "500", "400"}
  BY <1>1, ExtractAnswers
<1>4. StatusOf(b, ex) \in Statuses \ {"404"}
  BY <1>2, <1>3 DEF StatusOf, Refusal, Statuses
<1>5. ASSUME Wraps(b.e, "Protected"), ~ex.r.cred PROVE StatusOf(b, ex) = "401" /\ RanOf(b, ex) = <<>>
  <2>1. b.binder = "bind_auth" /\ b.args # <<>> /\ b.args[1] = "Auth"
    BY <1>1, <1>5, ProtectedTakesAuth
  <2>2. Extract(b.args, ex) = "401"
    BY <1>1, <1>5, <2>1, AuthComesFirst
  <2>3. Check(b.binder, ex.r) = "ok"
    BY <2>1 DEF Check
  <2> QED
    BY <2>2, <2>3 DEF StatusOf, RanOf, Refusal
<1>6. RanOf(b, ex) \in {<<>>, <<b.e>>}
  BY DEF RanOf
<1> QED
  BY <1>4, <1>5, <1>6

(* Whatever the first route does with a request is a good outcome: a       *)
(* Protected route that is alone on its path is the first.                 *)
LEMMA RoutedWell ==
  ASSUME Types, Kept, Serving, NEW ex, Found(ex.r) # {}
  PROVE  LET b == routes[Lowest(Found(ex.r))]
         IN  GoodOutcome(ex.r, StatusOf(b, ex), RanOf(b, ex))
<1> DEFINE n == Lowest(Found(ex.r))
           b == routes[n]
<1>1. routes \in Seq(BoundHandlers) /\ Len(routes) \in Nat /\ DOMAIN routes = 1..Len(routes)
  BY DEF Types
<1>2. Found(ex.r) \subseteq 1..Len(routes)
  BY <1>1 DEF Found
<1>3. n \in Found(ex.r)
  BY <1>2, LowestIsFirst
<1> HIDE DEF n
<1>4. n \in DOMAIN routes /\ b \in BoundHandlers /\ Compiles(b.e, b.binder, b.args)
  BY <1>1, <1>2, <1>3 DEF Types
<1> HIDE DEF b
<1>5. /\ StatusOf(b, ex) \in Statuses \ {"404"}
      /\ Wraps(b.e, "Protected") /\ ~ex.r.cred => StatusOf(b, ex) = "401" /\ RanOf(b, ex) = <<>>
      /\ RanOf(b, ex) \in {<<>>, <<b.e>>}
  BY <1>4, HandlerAnswers
<1>6. \A i \in DOMAIN RanOf(b, ex) : Wraps(RanOf(b, ex)[i], "Protected") => ex.r.cred
  <2>1. CASE RanOf(b, ex) = <<>>
    BY <2>1
  <2>2. CASE RanOf(b, ex) = <<b.e>> /\ RanOf(b, ex) # <<>>
    BY <1>5, <2>2
  <2> QED
    BY <1>5, <2>1, <2>2
<1>7. ASSUME ~ex.r.cred, NEW i \in DOMAIN routes, Wraps(routes[i].e, "Protected"),
             pattern(routes[i].e) = ex.r.path, Unshadowed(ex.r.path)
      PROVE  StatusOf(b, ex) = "401"
  <2>1. Found(ex.r) = {k \in DOMAIN routes : pattern(routes[k].e) = ex.r.path}
    BY FoundIsPattern
  <2>2. i \in Found(ex.r) /\ Cardinality(Found(ex.r)) = 1
    BY <1>7, <2>1 DEF Unshadowed
  <2>3. i = n
    BY <1>1, <1>2, <1>3, <2>2, OneIsAlone
  <2> QED
    BY <1>5, <1>7, <2>3 DEF b
<1>8. GoodOutcome(ex.r, StatusOf(b, ex), RanOf(b, ex))
  BY <1>5, <1>6, <1>7 DEF GoodOutcome
<1> QED
  BY <1>8 DEF b, n

(* Not found is a good outcome where no declared endpoint has the path.    *)
LEMMA NotFoundWell ==
  ASSUME Types, Kept, Serving, NEW r, Found(r) = {}
  PROVE  GoodOutcome(r, "404", <<>>)
<1>1. \A i \in DOMAIN routes : pattern(routes[i].e) # r.path
  BY FoundIsPattern
<1>2. r.path \notin {pattern(e) : e \in Declared}
  BY <1>1, DeclaredHasRoute DEF Served
<1> QED
  BY <1>1, <1>2 DEF GoodOutcome, Statuses

LEMMA RouteKeeps == ASSUME StackInv, route PROVE StackInv'
<1> USE DEF StackInv
<1> DEFINE F == Found(exchange.r)
           b == routes[Lowest(F)]
           status == IF F = {} THEN "404" ELSE StatusOf(b, exchange)
           ran == IF F = {} THEN exchange.ran ELSE RanOf(b, exchange)
<1>1. exchange.at = "in" /\ UNCHANGED <<author, routes, layers>>
  BY DEF route
<1>2. exchange # Idle
  BY <1>1 DEF Idle
<1>3. Serving /\ IsExchange(exchange) /\ exchange.ran = <<>> /\ exchange.ext = InnermostId(exchange.r)
  BY <1>1, <1>2 DEF Underway
<1>4. exchange' = IF F = {} THEN [exchange EXCEPT !.at = "out", !.status = "404"]
                  ELSE [exchange EXCEPT !.at = "out", !.status = StatusOf(b, exchange), !.ran = RanOf(b, exchange)]
  BY DEF route, Found, StatusOf, RanOf, Refusal
<1>5. GoodOutcome(exchange.r, status, ran)
  BY <1>3, RoutedWell, NotFoundWell
<1>6. /\ IsExchange(exchange') /\ exchange'.at = "out" /\ exchange'.r = exchange.r
      /\ exchange'.status = status /\ exchange'.ran = ran /\ exchange'.ext = exchange.ext
  <2>1. PICK r, st, rn, ext, id :
          exchange = [at |-> "in", r |-> r, status |-> st, ran |-> rn, ext |-> ext, id |-> id]
    BY <1>1, <1>3, Zenon DEF IsExchange
  <2> HIDE DEF F, b
  <2>2. CASE F = {}
    BY <1>4, <2>1, <2>2 DEF IsExchange
  <2>3. CASE F # {}
    BY <1>4, <2>1, <2>3 DEF IsExchange
  <2> QED
    BY <2>2, <2>3
<1> HIDE DEF F, b, status, ran
<1>7. Underway'
  <2>1. GoodOutcome(exchange.r, exchange.status, exchange.ran)'
    BY <1>1, <1>5, <1>6 DEF GoodOutcome, Declared, Unshadowed
  <2>2. exchange'.ext = InnermostId(exchange.r)'
    BY <1>1, <1>3, <1>6 DEF InnermostId, IdLayers
  <2> QED
    BY <1>1, <1>3, <1>6, <2>1, <2>2 DEF Underway, Serving
<1>8. Types' /\ Kept'
  BY <1>1, ProgramStays
<1> QED
  BY <1>7, <1>8

LEMMA AnswerKeeps == ASSUME StackInv, answer PROVE StackInv'
<1> USE DEF StackInv
<1>1. exchange.at = "out" /\ UNCHANGED <<author, routes, layers>>
  BY DEF answer
<1>2. exchange # Idle
  BY <1>1 DEF Idle
<1>3. /\ Serving /\ IsExchange(exchange) /\ exchange.ext = InnermostId(exchange.r)
      /\ GoodOutcome(exchange.r, exchange.status, exchange.ran)
  BY <1>1, <1>2 DEF Underway
<1>4. exchange' = [exchange EXCEPT !.at = "answered", !.id = OutermostId(exchange.r)]
  BY DEF answer, OutermostId
<1>5. /\ IsExchange(exchange') /\ exchange'.at = "answered" /\ exchange'.r = exchange.r
      /\ exchange'.status = exchange.status /\ exchange'.ran = exchange.ran
      /\ exchange'.ext = exchange.ext /\ exchange'.id = OutermostId(exchange.r)
  <2>1. PICK r, st, rn, ext, id :
          exchange = [at |-> "out", r |-> r, status |-> st, ran |-> rn, ext |-> ext, id |-> id]
    BY <1>1, <1>3, Zenon DEF IsExchange
  <2> QED
    BY <1>4, <2>1 DEF IsExchange
<1>6. Underway'
  <2>1. GoodOutcome(exchange.r, exchange.status, exchange.ran)'
    BY <1>1, <1>3, <1>5 DEF GoodOutcome, Declared, Unshadowed
  <2>2. exchange'.ext = InnermostId(exchange.r)' /\ exchange'.id = OutermostId(exchange.r)'
    BY <1>1, <1>3, <1>5 DEF InnermostId, OutermostId, IdLayers
  <2> QED
    BY <1>1, <1>3, <1>5, <2>1, <2>2 DEF Underway, Serving
<1>7. Types' /\ Kept'
  BY <1>1, ProgramStays
<1> QED
  BY <1>6, <1>7

LEMMA ForgetKeeps == ASSUME StackInv, Forget PROVE StackInv'
BY ProgramStays DEF Forget, StackInv, Underway

-----------------------------------------------------------------------------
(* The theorems.                                                           *)

LEMMA StackStep == StackInv /\ [StackNext]_stackVars => StackInv'
<1> SUFFICES ASSUME StackInv, [StackNext]_stackVars PROVE StackInv'
  OBVIOUS
<1>1. CASE new          BY <1>1, NewKeeps
<1>2. CASE new_builder  BY <1>2, NewBuilderKeeps
<1>3. CASE mount        BY <1>3, MountKeeps
<1>4. CASE provide      BY <1>4, ProvideKeeps
<1>5. CASE layer        BY <1>5, LayerKeeps
<1>6. CASE serve        BY <1>6, ServeKeeps DEF serve
<1>7. CASE ready        BY <1>7, ServeKeeps DEF ready
<1>8. CASE build        BY <1>8, ServeKeeps DEF build
<1>9. CASE Rewrite      BY <1>9, RewriteKeeps
<1>10. CASE call        BY <1>10, CallKeeps
<1>11. CASE route       BY <1>11, RouteKeeps
<1>12. CASE answer      BY <1>12, AnswerKeeps
<1>13. CASE Forget      BY <1>13, ForgetKeeps
<1>14. CASE UNCHANGED stackVars
  <2>1. UNCHANGED <<author, routes, layers>> /\ UNCHANGED exchange
    BY <1>14 DEF stackVars
  <2>2. Types' /\ Kept'
    BY <2>1, ProgramStays DEF StackInv
  <2>3. Underway'
    BY <2>1 DEF StackInv, Underway, Serving, IsExchange, GoodOutcome, Declared, Unshadowed,
                InnermostId, OutermostId, IdLayers
  <2> QED
    BY <2>2, <2>3 DEF StackInv
<1> QED
  BY <1>1, <1>2, <1>3, <1>4, <1>5, <1>6, <1>7, <1>8, <1>9, <1>10, <1>11, <1>12, <1>13, <1>14
  DEF StackNext

LEMMA StackSafe == StackSpec => []StackInv
BY StackBegins, StackStep, PTL DEF StackSpec

LEMMA InvIsTyped == StackInv => StackTypeOK
<1> SUFFICES ASSUME StackInv PROVE StackTypeOK
  OBVIOUS
<1>1. exchange.at \in {"idle", "in", "out", "answered"}
  BY DEF StackInv, Underway, Idle
<1>2. exchange # Idle => Serving
  BY DEF StackInv, Underway
<1>3. Answered => exchange.status \in {"200", "400", "401", "404", "415", "422", "500"}
  BY DEF StackInv, Underway, Answered, Idle, GoodOutcome, Statuses
<1>4. author.kind \in Kinds /\ author.stage \in {"new", "building", "serving"}
  BY DEF StackInv, Types, Authors
<1> QED
  BY <1>1, <1>2, <1>3, <1>4 DEF StackTypeOK, StackInv, Types

(* Where one layer sets an id, or the client does, innermost and outermost *)
(* id are one.                                                             *)
LEMMA InvHasOneId == StackInv => OneRequestId
<1> SUFFICES ASSUME StackInv, Answered PROVE OneRequestId
  BY DEF OneRequestId
<1>1. exchange # Idle
  BY DEF Answered, Idle
<1>2. exchange.ext = InnermostId(exchange.r) /\ exchange.id = OutermostId(exchange.r)
  BY <1>1 DEF StackInv, Underway, Answered
<1>3. IdLayers \subseteq 1..Len(layers) /\ Len(layers) \in Nat
  BY DEF IdLayers, StackInv, Types
<1>4. IdLayers # {} => exchange.id # <<>>
  BY <1>2 DEF OutermostId
<1>5. exchange.r.id = "client" => LayerId(exchange.r, Lowest(IdLayers)) = <<"client", 0>>
                                  /\ LayerId(exchange.r, Highest(IdLayers)) = <<"client", 0>>
  BY DEF LayerId
<1>6. exchange.r.id = "client" /\ IdLayers # {} => exchange.id = <<<<"client", 0>>>>
  BY <1>2, <1>5 DEF OutermostId
<1>7. exchange.r.id = "client" => exchange.id = exchange.ext
  BY <1>2, <1>5 DEF OutermostId, InnermostId
<1>8. ASSUME Cardinality(IdLayers) <= 1 PROVE exchange.id = exchange.ext
  <2>1. CASE IdLayers = {}
    BY <1>2, <2>1 DEF OutermostId, InnermostId
  <2>2. CASE IdLayers # {}
    <3>1. PICK i \in IdLayers : \A j \in IdLayers : j = i
      <4>1. PICK k \in IdLayers : TRUE
        BY <2>2
      <4>2. ASSUME NEW j \in IdLayers PROVE j = k
        BY <1>3, <1>8, <4>1, OneIsAlone
      <4> QED
        BY <4>1, <4>2
    <3>2. i <= i
      BY <1>3, <3>1
    <3>3. Lowest(IdLayers) = i /\ Highest(IdLayers) = i
      BY <3>1, <3>2 DEF Lowest, Highest
    <3> QED
      BY <1>2, <3>3 DEF OutermostId, InnermostId
  <2> QED
    BY <2>1, <2>2
<1> QED
  BY <1>4, <1>6, <1>7, <1>8 DEF OneRequestId

LEMMA InvIsDischarged == StackInv => EffectsDischarged
<1> SUFFICES ASSUME StackInv, Serving, author.kind # "Server", NEW e \in Declared,
                    NEW i \in DOMAIN e.wraps, e.wraps[i].w = "Requires"
             PROVE  e.wraps[i].arg \in Range(author.provided)
  BY DEF EffectsDischarged
<1>1. author.provided \in Seq(Effects)
  BY DEF StackInv, Types, Authors
<1>2. PICK k \in DOMAIN author.api : e \in Range(author.api[k])
  BY DEF Declared
<1>3. PICK j \in DOMAIN author.api[k] : e = author.api[k][j]
  BY <1>2 DEF Range
<1>4. AllProvided(e, author.provided)
  BY <1>2, <1>3 DEF StackInv, Kept, Discharged
<1>5. HasOnce(e.wraps[i].arg, author.provided)
  BY <1>4 DEF AllProvided
<1> QED
  BY <1>1, <1>5, OnceIsThere DEF Range

LEMMA InvIsSound == StackInv => StackSound
<1> SUFFICES ASSUME StackInv PROVE StackSound
  OBVIOUS
<1>1. Answered => GoodOutcome(exchange.r, exchange.status, exchange.ran)
  BY DEF StackInv, Underway, Answered, Idle
<1>2. AuthGuards
  BY <1>1 DEF AuthGuards, GoodOutcome
<1>3. Serving => \A e \in Declared : Served(e)
  BY DeclaredHasRoute DEF StackInv
<1>4. DeclaredIsServed
  BY <1>1, <1>3 DEF DeclaredIsServed, Served, GoodOutcome
<1> QED
  BY <1>2, <1>4, InvHasOneId, InvIsDischarged DEF StackSound

(* Type correctness of the builders and of the requests, for any API and   *)
(* any handlers.                                                           *)
THEOREM StackTypeCorrect == StackSpec => []StackTypeOK
BY StackSafe, InvIsTyped, PTL

(* Whatever compiles is sound, for stacks of any height: a Protected       *)
(* endpoint under whatever wrappers runs only with credentials and answers *)
(* 401 without them (auth.rs), required effects are provided (effects.rs), *)
(* every declared endpoint is served at its full path (mount.rs, typed.rs) *)
(* and a request has one id (request_id.rs).                               *)
THEOREM WhateverCompilesIsSound == StackSpec => []StackSound
BY StackSafe, InvIsSound, PTL

-----------------------------------------------------------------------------
(* Connections.                                                            *)

(* Every variable keeps its type, and requests only run on connections     *)
(* that are open: a connection that was closed, refused or dropped (by a   *)
(* panic, the client, the listener or the runtime) leaves no handler       *)
(* behind (serve_with_shutdown, serve_tls_loop).                           *)
THEOREM LifecycleTypeCorrect == Spec => []TypeOK
<1> USE LifecycleAssumption
<1>1. Init => TypeOK
  <2> SUFFICES ASSUME Init PROVE TypeOK
    OBVIOUS
  <2>1. active \in [Conns -> 0..MaxStreams] /\ \A c \in Conns : ~(active[c] > 0)
    BY DEF Init
  <2> QED
    BY <2>1 DEF Init, TypeOK, ConnStates
<1>2. TypeOK /\ [Next]_vars => TypeOK'
  <2> SUFFICES ASSUME TypeOK, [Next]_vars PROVE TypeOK'
    OBVIOUS
  <2> USE DEF TypeOK, ConnStates
  <2>1. ASSUME NEW c \in Conns, Connect(c) PROVE TypeOK'
    BY <2>1 DEF Connect
  <2>2. ASSUME NEW c \in Conns, Accept(c) PROVE TypeOK'
    BY <2>2 DEF Accept
  <2>3. ASSUME NEW c \in Conns, Handshake(c) PROVE TypeOK'
    BY <2>3 DEF Handshake
  <2>4. ASSUME NEW c \in Conns, Request(c) PROVE TypeOK'
    BY <2>4 DEF Request
  <2>5. ASSUME NEW c \in Conns, Respond(c) PROVE TypeOK'
    BY <2>5 DEF Respond
  <2>6. ASSUME NEW c \in Conns, Panic(c) PROVE TypeOK'
    BY <2>6 DEF Panic
  <2>7. ASSUME NEW c \in Conns, Close(c) PROVE TypeOK'
    BY <2>7 DEF Close
  <2>8. CASE AcceptError
    BY <2>8 DEF AcceptError, Return
  <2>9. CASE Signal
    BY <2>9 DEF Signal
  <2>10. CASE Shutdown
    BY <2>10 DEF Shutdown, Return
  <2>11. CASE Exit
    BY <2>11 DEF Exit
  <2>12. CASE UNCHANGED vars
    BY <2>12 DEF vars
  <2> QED
    BY <2>1, <2>2, <2>3, <2>4, <2>5, <2>6, <2>7, <2>8, <2>9, <2>10, <2>11, <2>12 DEF Next
<1> QED
  BY <1>1, <1>2, PTL DEF Spec

-----------------------------------------------------------------------------
(* Connections are fault domains: while the process is up, a step that     *)
(* takes one connection out of its handshake or out of service leaves      *)
(* every other connection, its requests and the accept loop alone          *)
(* (tokio::spawn per connection, catch_unwind in RouterService).           *)
THEOREM ConnectionsAreIsolated == Spec => Isolated
<1>1. ASSUME TypeOK, [Next]_vars, process' = process,
             NEW c \in Conns, NEW d \in Conns,
             conn[c] \in {"handshake", "open"}, conn'[c] # conn[c], c # d
      PROVE  conn'[d] = conn[d] /\ active'[d] = active[d] /\ future' = future
  <2> USE <1>1 DEF TypeOK, ConnStates
  <2>1. ASSUME NEW b \in Conns,
               Connect(b) \/ Accept(b) \/ Handshake(b) \/ Request(b) \/ Respond(b)
        PROVE  conn'[d] = conn[d] /\ active'[d] = active[d] /\ future' = future
    BY <2>1 DEF Connect, Accept, Handshake, Request, Respond
  <2>2. ASSUME NEW b \in Conns, Panic(b) \/ Close(b)
        PROVE  conn'[d] = conn[d] /\ active'[d] = active[d] /\ future' = future
    BY <2>2 DEF Panic, Close
  <2>3. ~AcceptError /\ ~Signal /\ ~Shutdown
    BY DEF AcceptError, Signal, Shutdown, Return
  <2>4. ~Exit
    BY DEF Exit
  <2>5. ~UNCHANGED vars
    BY DEF vars
  <2> QED
    BY <2>1, <2>2, <2>3, <2>4, <2>5 DEF Next
<1>2. TypeOK /\ [Next]_vars =>
        [process' = process =>
           \A c, d \in Conns :
             conn[c] \in {"handshake", "open"} /\ conn'[c] # conn[c] /\ c # d =>
               conn'[d] = conn[d] /\ active'[d] = active[d] /\ future' = future]_vars
  BY <1>1
<1> QED
  BY <1>2, LifecycleTypeCorrect, PTL DEF Spec, Isolated
=============================================================================
