---------------------------- MODULE RouterProofs ----------------------------
(***************************************************************************)
(* What holds of the router for every API, every table size and every      *)
(* number of requests: type correctness, that registration indexes every   *)
(* route, that a request keeps a handler that accepts it, and that the     *)
(* index answers what a scan of all routes would.                          *)
(***************************************************************************)
EXTENDS Router, NaturalsInduction, WellFoundedInduction, TLAPS

-----------------------------------------------------------------------------
(* Facts about numbers and patterns.                                       *)

(* A non-empty set of numbers has a least element: "the first entry of the *)
(* linear list" and "the first difference of two patterns" exist.          *)
LEMMA LeastElement ==
  ASSUME NEW S, S \subseteq Nat, S # {}
  PROVE  \E k \in S : \A l \in S : k <= l
<1>1. PICK k \in S : \A l \in S : ~(<<l, k>> \in OpToRel(<, Nat))
  BY NatLessThanWellFounded, WFMin, Zenon
<1>2. \A l \in S : ~(l < k)
  BY <1>1 DEF OpToRel
<1> QED
  BY <1>2

(* matchit's conflicts do not depend on which pattern came first.          *)
LEMMA ConflictSymmetric ==
  ASSUME NEW a, NEW b, Conflict(a, b)
  PROVE  Conflict(b, a)
BY DEF Conflict, SameBefore

-----------------------------------------------------------------------------
(* Lookup.                                                                 *)

(* A lookup that finds something finds a route of the bucket that accepts. *)
LEMMA LookupFinds ==
  ASSUME NEW b \in Buckets, NEW p, linear[b] \in Seq(Nat), lookup_in_bucket(b, p) # 0
  PROVE  LET i == lookup_in_bucket(b, p)
         IN  (i \in trie[b] \/ InLinear(i, b)) /\ match_fn(i, p)
<1> DEFINE T == {i \in TrieAt(b, p) : match_fn(i, p)}
           L == LinearAt(b, p)
<1>1. CASE T # {}
  <2>1. lookup_in_bucket(b, p) \in T
    BY <1>1 DEF lookup_in_bucket
  <2> QED
    BY <2>1 DEF TrieAt
<1>2. CASE T = {}
  <2>1. L # {}
    BY <1>2 DEF lookup_in_bucket
  <2>2. L \subseteq Nat
    BY DEF LinearAt
  <2>3. \E k \in L : \A l \in L : k <= l
    BY <2>1, <2>2, LeastElement
  <2>4. PICK k \in L : lookup_in_bucket(b, p) = linear[b][k]
    BY <1>2, <2>1, <2>3 DEF lookup_in_bucket
  <2> QED
    BY <2>4 DEF LinearAt, InLinear
<1> QED
  BY <1>1, <1>2

-----------------------------------------------------------------------------
(* Registration.                                                           *)

(* What Append does to a sequence.                                         *)
LEMMA AppendFacts ==
  ASSUME NEW S, NEW s \in Seq(S), NEW e \in S
  PROVE  /\ Append(s, e) \in Seq(S)
         /\ Len(Append(s, e)) = Len(s) + 1 /\ Len(s) \in Nat
         /\ \A k \in 1..Len(s) : Append(s, e)[k] = s[k]
         /\ Append(s, e)[Len(s) + 1] = e
OBVIOUS

(* The pattern of a static route: literals, then a rest capture.           *)
LEMMA StaticPattern ==
  ASSUME NEW pre \in Seq(Text), "path" \in Text
  PROVE  /\ StaticRoute(pre).pattern \in Patterns
         /\ RestLast(StaticRoute(pre).pattern)
         /\ Len(StaticRoute(pre).pattern) >= 1
<1> DEFINE lits == [i \in 1..Len(pre) |-> Lit(pre[i])]
           pat == Append(lits, CaptureRest("path"))
<1>1. StaticRoute(pre).pattern = pat
  BY DEF StaticRoute
<1>2. \A i \in 1..Len(pre) : Lit(pre[i]) \in Elements /\ Lit(pre[i])[1] = "lit"
  BY DEF Lit, Elements
<1>3. lits \in Seq(Elements) /\ Len(lits) = Len(pre)
  BY <1>2
<1>4. \A i \in 1..Len(pre) : lits[i][1] = "lit"
  BY <1>2
<1>5. CaptureRest("path") \in Elements
  BY DEF CaptureRest, Elements
<1> HIDE DEF lits
<1>6. /\ pat \in Seq(Elements) /\ Len(pat) = Len(lits) + 1 /\ Len(lits) \in Nat
      /\ \A k \in 1..Len(lits) : pat[k] = lits[k]
  BY <1>3, <1>5, AppendFacts
<1> HIDE DEF pat
<1>7. \A k \in 1..Len(lits) : pat[k][1] = "lit"
  BY <1>3, <1>4, <1>6
<1>8. RestLast(pat)
  BY <1>6, <1>7 DEF RestLast
<1> QED
  BY <1>1, <1>6, <1>8 DEF Patterns

(* Every route of the table is a record of a method and a pattern.         *)
LEMMA RouteType ==
  /\ \A rt \in Routes : /\ rt.pattern \in Patterns /\ RestLast(rt.pattern)
                        /\ rt.kind = "static" => Len(rt.pattern) >= 1
  /\ \A pre \in StaticPrefixes : StaticRoute(pre) \in Routes
<1>1. \A pre \in StaticPrefixes : pre \in Seq(Text) /\ "path" \in Text
  BY RouterAssumption DEF RouterAssumption
<1>2. \A pre \in StaticPrefixes :
        /\ StaticRoute(pre).pattern \in Patterns
        /\ RestLast(StaticRoute(pre).pattern)
        /\ Len(StaticRoute(pre).pattern) >= 1
  BY <1>1, StaticPattern
<1>3. \A pre \in StaticPrefixes : StaticRoute(pre) \in Routes
  BY DEF Routes
<1>4. \A rt \in Endpoints : /\ rt.pattern \in Patterns /\ RestLast(rt.pattern)
                            /\ rt.kind # "static"
  BY RouterAssumption DEF RouterAssumption
<1> QED
  BY <1>2, <1>3, <1>4 DEF Routes

(* The routes already registered keep their index.                         *)
LEMMA AddRouteAppends ==
  ASSUME routes \in Seq(Routes), NEW rt \in Routes, add_route(rt)
  PROVE  /\ routes' \in Seq(Routes)
         /\ Len(routes) \in Nat /\ Len(routes') = Len(routes) + 1
         /\ routes'[Len(routes) + 1] = rt
         /\ \A i \in Indices : routes'[i] = routes[i] /\ Shape(i)' = Shape(i)
<1>1. routes' = Append(routes, rt)
  BY DEF add_route
<1>2. /\ routes' \in Seq(Routes)
      /\ Len(routes) \in Nat /\ Len(routes') = Len(routes) + 1
      /\ routes'[Len(routes) + 1] = rt
      /\ \A i \in 1..Len(routes) : routes'[i] = routes[i]
  BY <1>1, AppendFacts
<1>3. \A i \in Indices : routes'[i] = routes[i]
  BY <1>2 DEF Indices
<1>4. \A i \in Indices : Shape(i)' = Shape(i)
  BY <1>3 DEF Shape
<1> QED
  BY <1>2, <1>3, <1>4

(* What add_route does to a bucket's trie and linear list.                 *)
LEMMA AddRouteBucket ==
  ASSUME TableTypeOK, NEW rt \in Routes, add_route(rt), NEW b \in Buckets
  PROVE  LET idx == Len(routes) + 1
             s == to_matchit_pattern(rt.pattern)
         IN  \/ /\ b = bucket(rt.method)
                /\ Insertable({Shape(i) : i \in trie[b]}, s)
                /\ trie'[b] = trie[b] \cup {idx} /\ linear'[b] = linear[b]
             \/ /\ b = bucket(rt.method)
                /\ trie'[b] = trie[b] /\ linear'[b] = Append(linear[b], idx)
             \/ /\ b # bucket(rt.method)
                /\ trie'[b] = trie[b] /\ linear'[b] = linear[b]
<1>1. bucket(rt.method) \in Buckets
  BY DEF bucket, Buckets
<1>2. trie \in [Buckets -> SUBSET Indices] /\ linear \in [Buckets -> Seq(Nat)]
  BY DEF TableTypeOK
<1>3. CASE Insertable({Shape(i) : i \in trie[bucket(rt.method)]}, to_matchit_pattern(rt.pattern))
  <2>1. /\ trie' = [trie EXCEPT ![bucket(rt.method)] = @ \cup {Len(routes) + 1}]
        /\ linear' = linear
    BY <1>3 DEF add_route
  <2> QED
    BY <1>1, <1>2, <1>3, <2>1
<1>4. CASE ~Insertable({Shape(i) : i \in trie[bucket(rt.method)]}, to_matchit_pattern(rt.pattern))
  <2>1. /\ linear' = [linear EXCEPT ![bucket(rt.method)] = Append(@, Len(routes) + 1)]
        /\ trie' = trie
    BY <1>4 DEF add_route
  <2> QED
    BY <1>1, <1>2, <2>1
<1> QED
  BY <1>3, <1>4

LEMMA AddRouteType ==
  ASSUME TableTypeOK, NEW rt \in Routes, add_route(rt)
  PROVE  TableTypeOK'
<1> DEFINE idx == Len(routes) + 1
<1>1. /\ routes' \in Seq(Routes)
      /\ Len(routes) \in Nat /\ Len(routes') = idx
  BY AddRouteAppends DEF TableTypeOK
<1>2. Indices \subseteq Indices' /\ idx \in Indices' /\ idx \in Nat
  BY <1>1 DEF Indices
<1>3. bucket(rt.method) \in Buckets
  BY DEF bucket, Buckets
<1>4. DOMAIN trie' = Buckets /\ DOMAIN linear' = Buckets
      /\ trie' = [b \in Buckets |-> trie'[b]] /\ linear' = [b \in Buckets |-> linear'[b]]
  BY <1>3 DEF TableTypeOK, add_route
<1>5. ASSUME NEW b \in Buckets
      PROVE  /\ trie'[b] \subseteq Indices'
             /\ linear'[b] \in Seq(Nat)
             /\ \A k \in 1..Len(linear'[b]) : linear'[b][k] \in Indices'
  <2>1. /\ trie[b] \subseteq Indices /\ linear[b] \in Seq(Nat)
        /\ \A k \in 1..Len(linear[b]) : linear[b][k] \in Indices
    BY DEF TableTypeOK
  <2>2. /\ Append(linear[b], idx) \in Seq(Nat)
        /\ \A k \in 1..Len(Append(linear[b], idx)) : Append(linear[b], idx)[k] \in Indices'
    BY <1>2, <2>1, AppendFacts
  <2>3. /\ trie'[b] = trie[b] \/ trie'[b] = trie[b] \cup {idx}
        /\ linear'[b] = linear[b] \/ linear'[b] = Append(linear[b], idx)
    BY AddRouteBucket
  <2> QED
    BY <1>2, <2>1, <2>2, <2>3
<1>6. trie' \in [Buckets -> SUBSET Indices'] /\ linear' \in [Buckets -> Seq(Nat)]
  BY <1>4, <1>5
<1>7. any_method_has_fallback' \in BOOLEAN /\ methods_present' \subseteq Buckets
  BY <1>3 DEF add_route, TableTypeOK
<1> QED
  BY <1>1, <1>5, <1>6, <1>7 DEF TableTypeOK

(* Registration keeps the index complete.                                  *)
LEMMA AddRouteIndexes ==
  ASSUME TableTypeOK, IndexComplete, NEW rt \in Routes, add_route(rt)
  PROVE  IndexComplete'
<1> DEFINE idx == Len(routes) + 1
           s == to_matchit_pattern(rt.pattern)
<1>1. /\ Len(routes) \in Nat /\ Len(routes') = idx /\ routes'[idx] = rt
      /\ \A i \in Indices : routes'[i] = routes[i] /\ Shape(i)' = Shape(i)
      /\ \A i : i = idx => Shape(i)' = s
  BY AddRouteAppends DEF TableTypeOK, Shape
<1>2. Indices' = Indices \cup {idx} /\ idx \notin Indices
  BY <1>1 DEF Indices
<1>3. ASSUME NEW b \in Buckets
      PROVE  /\ trie[b] \subseteq Indices
             /\ \A i : InLinear(i, b) => i \in Indices
             /\ linear[b] \in Seq(Nat)
  BY DEF TableTypeOK, InLinear
<1>4. ASSUME NEW b \in Buckets
      PROVE  \/ /\ b = bucket(rt.method)
                /\ Insertable({Shape(i) : i \in trie[b]}, s)
                /\ trie'[b] = trie[b] \cup {idx}
                /\ \A i : InLinear(i, b)' <=> InLinear(i, b)
             \/ /\ b = bucket(rt.method)
                /\ trie'[b] = trie[b]
                /\ \A i : InLinear(i, b)' <=> InLinear(i, b) \/ i = idx
             \/ /\ b # bucket(rt.method)
                /\ trie'[b] = trie[b]
                /\ \A i : InLinear(i, b)' <=> InLinear(i, b)
  <2>1. ASSUME linear'[b] = Append(linear[b], idx)
        PROVE  \A i : InLinear(i, b)' <=> InLinear(i, b) \/ i = idx
    <3>1. /\ Len(linear'[b]) = Len(linear[b]) + 1 /\ Len(linear[b]) \in Nat
          /\ \A k \in 1..Len(linear[b]) : linear'[b][k] = linear[b][k]
          /\ linear'[b][Len(linear[b]) + 1] = idx
      BY <1>1, <1>3, <2>1, AppendFacts
    <3>2. ASSUME NEW i, InLinear(i, b)'
          PROVE  InLinear(i, b) \/ i = idx
      <4>1. PICK k \in 1..Len(linear'[b]) : linear'[b][k] = i
        BY <3>2 DEF InLinear
      <4>2. k = Len(linear[b]) + 1 \/ k \in 1..Len(linear[b])
        BY <3>1
      <4>3. CASE k = Len(linear[b]) + 1
        BY <3>1, <4>1, <4>3
      <4>4. CASE k \in 1..Len(linear[b])
        BY <3>1, <4>1, <4>4 DEF InLinear
      <4> QED BY <4>2, <4>3, <4>4
    <3>3. ASSUME NEW i, InLinear(i, b)
          PROVE  InLinear(i, b)'
      <4>1. PICK k \in 1..Len(linear[b]) : linear[b][k] = i
        BY <3>3 DEF InLinear
      <4>2. k \in 1..Len(linear'[b]) /\ linear'[b][k] = i
        BY <3>1, <4>1
      <4> QED BY <4>2 DEF InLinear
    <3>4. ASSUME NEW i, i = idx
          PROVE  InLinear(i, b)'
      <4>1. Len(linear[b]) + 1 \in 1..Len(linear'[b]) /\ linear'[b][Len(linear[b]) + 1] = i
        BY <3>1, <3>4
      <4> QED BY <4>1 DEF InLinear
    <3> QED BY <3>2, <3>3, <3>4
  <2>2. ASSUME linear'[b] = linear[b]
        PROVE  \A i : InLinear(i, b)' <=> InLinear(i, b)
    BY <2>2 DEF InLinear
  <2> QED
    BY <2>1, <2>2, AddRouteBucket
<1> HIDE DEF idx, s
<1>5. ASSUME NEW i \in Indices', NEW b \in Buckets
      PROVE  /\ (b = bucket(routes'[i].method)) <=> (i \in trie'[b] \/ InLinear(i, b)')
             /\ ~(i \in trie'[b] /\ InLinear(i, b)')
  <2>1. CASE i = idx
    <3>1. i \notin trie[b] /\ ~InLinear(i, b) /\ routes'[i] = rt
      BY <1>1, <1>2, <1>3, <2>1
    <3> QED
      BY <1>4, <2>1, <3>1
  <2>2. CASE i # idx
    <3>1. i \in Indices /\ routes'[i] = routes[i]
      BY <1>1, <1>2, <1>5, <2>2
    <3>2. /\ (b = bucket(routes[i].method)) <=> (i \in trie[b] \/ InLinear(i, b))
          /\ ~(i \in trie[b] /\ InLinear(i, b))
      BY <3>1 DEF IndexComplete
    <3>3. (i \in trie'[b] <=> i \in trie[b]) /\ (InLinear(i, b)' <=> InLinear(i, b))
      BY <1>4, <2>2
    <3> QED
      BY <3>1, <3>2, <3>3
  <2> QED
    BY <2>1, <2>2
<1>7. ASSUME NEW b \in Buckets, NEW i \in trie'[b], NEW j \in trie'[b], i # j
      PROVE  ~Conflict(Shape(i)', Shape(j)')
  <2>1. ASSUME i \in trie[b], j \in trie[b]
        PROVE  ~Conflict(Shape(i)', Shape(j)')
    BY <1>1, <1>3, <1>7, <2>1 DEF IndexComplete
  <2>2. ASSUME NEW k \in trie[b], Insertable({Shape(l) : l \in trie[b]}, s)
        PROVE  ~Conflict(Shape(k)', s) /\ ~Conflict(s, Shape(k)')
    BY <1>1, <1>3, <2>2, ConflictSymmetric DEF Insertable
  <2>3. ASSUME NEW k \in trie'[b], k \notin trie[b]
        PROVE  k = idx /\ Shape(k)' = s /\ Insertable({Shape(l) : l \in trie[b]}, s)
    BY <1>1, <1>4, <2>3
  <2>4. CASE i \in trie[b] /\ j \in trie[b]
    BY <2>1, <2>4
  <2>5. CASE i \in trie[b] /\ j \notin trie[b]
    BY <2>2, <2>3, <2>5
  <2>6. CASE i \notin trie[b] /\ j \in trie[b]
    BY <2>2, <2>3, <2>6
  <2>7. CASE i \notin trie[b] /\ j \notin trie[b]
    BY <1>7, <2>3, <2>7
  <2> QED
    BY <2>4, <2>5, <2>6, <2>7
<1>8. any_method_seen' = {Shape(i)' : i \in Indices'}
  <2>1. any_method_seen' = any_method_seen \cup {s} /\ any_method_seen = {Shape(i) : i \in Indices}
    BY DEF IndexComplete, add_route, s
  <2>2. \A x : x \in any_method_seen' <=> \E i \in Indices' : x = Shape(i)'
    BY <1>1, <1>2, <2>1
  <2> QED
    BY <2>2
<1>9. any_method_has_fallback' \/ any_method_trie' = any_method_seen'
  BY DEF IndexComplete, add_route
<1>10. methods_present' = {bucket(routes'[i].method) : i \in Indices'}
  <2>1. /\ methods_present' = methods_present \cup {bucket(rt.method)}
        /\ methods_present = {bucket(routes[i].method) : i \in Indices}
    BY DEF IndexComplete, add_route
  <2>2. \A x : x \in methods_present' <=> \E i \in Indices' : x = bucket(routes'[i].method)
    BY <1>1, <1>2, <2>1
  <2> QED
    BY <2>2
<1> QED
  BY <1>5, <1>7, <1>8, <1>9, <1>10 DEF IndexComplete

-----------------------------------------------------------------------------
(* The inductive invariant.                                                *)

(* Requests come only once the server runs, when the table is frozen: so   *)
(* the index a request remembers across its await stays valid.             *)
Quiet == ~serving => \A r \in Requests : req[r] = Idle

Inv == TypeOK /\ IndexComplete /\ HandlerMatchesRequest /\ Quiet

(* What a request with an index relies on.                                 *)
Accepted(m, p, i) ==
  /\ i \in Indices
  /\ bucket(routes[i].method) = bucket(m)
  /\ match_fn(i, strip_prefix(p))

(* The index a lookup returns is of a route that accepts the request.      *)
LEMMA LookupAccepts ==
  ASSUME TableTypeOK, IndexComplete, NEW m, NEW p, Lookup(m, p).hit # 0
  PROVE  Accepted(m, p, Lookup(m, p).hit)
<1> DEFINE lp == strip_prefix(p)
           b == bucket(m)
           i == lookup_in_bucket(b, lp)
<1>1. b \in Buckets /\ linear[b] \in Seq(Nat)
  BY DEF bucket, Buckets, TableTypeOK
<1>2. i # 0 /\ Lookup(m, p).hit = i
  BY DEF Lookup, resolve, NotFound, MethodNotAllowed, Hit
<1> HIDE DEF i, b
<1>3. (i \in trie[b] \/ InLinear(i, b)) /\ match_fn(i, lp)
  BY <1>1, <1>2, LookupFinds DEF i
<1>4. i \in Indices
  BY <1>1, <1>3 DEF TableTypeOK, InLinear
<1>5. b = bucket(routes[i].method)
  BY <1>1, <1>3, <1>4 DEF IndexComplete
<1> QED
  BY <1>2, <1>3, <1>4, <1>5 DEF Accepted, b

LEMMA IdleType == Idle \in RequestStates
<1>1. <<>> \in Seq(Text)
  OBVIOUS
<1> QED
  BY ONLY <1>1 DEF Idle, RequestStates, Answers

LEMMA InitInv == Init => Inv
<1> SUFFICES ASSUME Init PROVE Inv
  OBVIOUS
<1>1. routes = <<>> /\ Len(routes) = 0 /\ Indices = {}
  BY DEF Init, Indices
<1>2. TableTypeOK
  <2>1. <<>> \in Seq(Routes) /\ <<>> \in Seq(Nat)
    OBVIOUS
  <2>2. trie \in [Buckets -> SUBSET Indices]
    BY DEF Init
  <2>3. linear \in [Buckets -> Seq(Nat)] /\ \A b \in Buckets : linear[b] = <<>>
    BY <2>1 DEF Init
  <2>4. \A b \in Buckets : \A k \in 1..Len(linear[b]) : linear[b][k] \in Indices
    BY <2>3
  <2> QED
    BY <1>1, <2>1, <2>2, <2>3, <2>4 DEF Init, TableTypeOK
<1>3. ConfigTypeOK
  BY DEF Init, ConfigTypeOK
<1>4. req \in [Requests -> RequestStates]
  BY IdleType DEF Init
<1>5. IndexComplete
  BY <1>1 DEF Init, IndexComplete
<1>6. HandlerMatchesRequest /\ Quiet
  BY DEF Init, HandlerMatchesRequest, Quiet, Idle
<1> QED
  BY <1>2, <1>3, <1>4, <1>5, <1>6 DEF Inv, TypeOK

(* A step that leaves the table alone leaves the facts about it alone.     *)
LEMMA TableFrame ==
  ASSUME TableTypeOK, IndexComplete, UNCHANGED tableVars
  PROVE  TableTypeOK' /\ IndexComplete'
<1> USE DEF tableVars
<1>1. Indices' = Indices /\ \A i : Shape(i)' = Shape(i)
  BY DEF Indices, Shape
<1>2. \A i, b : InLinear(i, b)' <=> InLinear(i, b)
  BY DEF InLinear
<1> QED
  BY <1>1, <1>2 DEF TableTypeOK, IndexComplete

(* A builder method: the server does not run yet and no request exists.    *)
LEMMA BuilderStep ==
  ASSUME Inv, ~serving, UNCHANGED req,
         TableTypeOK', IndexComplete', ConfigTypeOK'
  PROVE  Inv'
<1>1. \A r \in Requests : req[r] = Idle /\ req'[r] = Idle
  BY DEF Inv, Quiet
<1>2. DOMAIN req' = Requests /\ req' = [r \in Requests |-> Idle]
  BY <1>1 DEF Inv, TypeOK
<1>3. (Idle \in RequestStates)'
  BY IdleType, PTL
<1>4. Idle' = Idle
  BY DEF Idle
<1>5. req' \in [Requests -> RequestStates']
  BY <1>2, <1>3, <1>4
<1>6. \A r \in Requests : req'[r].pc = "idle"
  <2>1. Idle.pc = "idle"
    BY DEF Idle
  <2> QED
    BY <1>1, <2>1
<1>7. HandlerMatchesRequest'
  BY <1>6 DEF HandlerMatchesRequest
<1>8. Quiet'
  BY <1>1, <1>4 DEF Quiet
<1> QED
  BY <1>5, <1>7, <1>8 DEF Inv, TypeOK

(* A step of request r to the state q.                                     *)
LEMMA RequestStep ==
  ASSUME Inv, UNCHANGED <<tableVars, configVars, serving>>, serving,
         NEW r \in Requests, NEW q \in RequestStates,
         req' = [req EXCEPT ![r] = q],
         q.pc \in {"collect", "handle"} => Accepted(q.method, q.path, q.hit)
  PROVE  Inv'
<1>1. TableTypeOK' /\ IndexComplete'
  BY TableFrame DEF Inv, TypeOK
<1>2. ConfigTypeOK'
  BY DEF Inv, TypeOK, ConfigTypeOK, configVars
<1>3. RequestStates' = RequestStates
  BY DEF RequestStates, Indices, tableVars
<1>4. req' \in [Requests -> RequestStates']
  BY <1>3 DEF Inv, TypeOK
<1>5. \A m, p, i : Accepted(m, p, i)' = Accepted(m, p, i)
  BY DEF Accepted, Indices, match_fn, strip_prefix, tableVars, configVars
<1>6. ASSUME NEW x \in Requests, req'[x].pc \in {"collect", "handle"}
      PROVE  Accepted(req'[x].method, req'[x].path, req'[x].hit)
  BY <1>6 DEF Inv, TypeOK, HandlerMatchesRequest, Accepted
<1>7. HandlerMatchesRequest'
  BY <1>5, <1>6 DEF HandlerMatchesRequest, Accepted
<1>8. Quiet'
  BY DEF Quiet
<1> QED
  BY <1>1, <1>2, <1>4, <1>7, <1>8 DEF Inv, TypeOK

LEMMA SentType ==
  ASSUME NEW m \in RequestMethods, NEW p \in RequestPaths, NEW z \in Sizes \cup {0}
  PROVE  /\ Sent(m, p, z) \in RequestStates
         /\ Sent(m, p, z).method = m /\ Sent(m, p, z).path = p
<1>1. Sent(m, p, z) = [Idle EXCEPT !.method = m, !.path = p, !.size = z]
  BY DEF Sent
<1> QED
  BY <1>1, IdleType, ZenonT(40) DEF RequestStates

(* A request that found a route.                                           *)
LEMMA HitStep ==
  ASSUME Inv, serving, UNCHANGED <<tableVars, configVars, serving>>, NEW r \in Requests,
         NEW m \in RequestMethods, NEW p \in RequestPaths, NEW s \in RequestStates,
         s.method = m, s.path = p, NEW l \in Limits \cup {0}, NEW pc \in {"collect", "handle"},
         Lookup(m, p).hit # 0,
         req' = [req EXCEPT ![r] = [s EXCEPT !.pc = pc, !.hit = Lookup(m, p).hit,
                                             !.limit = l, !.state = state_injector]]
  PROVE  Inv'
<1> DEFINE i == Lookup(m, p).hit
           q == [s EXCEPT !.pc = pc, !.hit = i, !.limit = l, !.state = state_injector]
<1>1. Accepted(m, p, i)
  BY LookupAccepts DEF Inv, TypeOK
<1>2. i \in Indices /\ state_injector \in States \cup {NoState}
  BY <1>1 DEF Accepted, Inv, TypeOK, ConfigTypeOK
<1>3. req' = [req EXCEPT ![r] = q]
  OBVIOUS
<1> HIDE DEF i
<1>4. q \in RequestStates /\ q.method = m /\ q.path = p /\ q.hit = i
  BY <1>2, ZenonT(40) DEF RequestStates
<1> HIDE DEF q
<1> QED
  BY <1>1, <1>3, <1>4, RequestStep

(* A request answered.                                                     *)
LEMMA AnswerStep ==
  ASSUME Inv, serving, UNCHANGED <<tableVars, configVars, serving>>, NEW r \in Requests,
         NEW s \in RequestStates, NEW x \in Answers,
         req' = [req EXCEPT ![r] = [s EXCEPT !.pc = "done", !.result = x]]
  PROVE  Inv'
<1> DEFINE q == [s EXCEPT !.pc = "done", !.result = x]
<1>1. q \in RequestStates /\ q.pc = "done"
  BY DEF RequestStates
<1> HIDE DEF q
<1> QED
  BY <1>1, RequestStep DEF q

LEMMA RouteStep ==
  ASSUME Inv, NEW r \in Requests, route(r)
  PROVE  Inv'
<1>1. serving /\ UNCHANGED <<tableVars, configVars, serving>>
  BY DEF route
<1> DEFINE answer(out) == IF out.status = 405 THEN "not_allowed"
                          ELSE IF fallback THEN "fallback" ELSE "not_found"
<1>2. PICK m \in RequestMethods, p \in RequestPaths, z \in Sizes :
        req' = [req EXCEPT ![r] =
             IF Lookup(m, p).hit # 0
               THEN [Sent(m, p, z) EXCEPT !.pc = "collect", !.hit = Lookup(m, p).hit,
                                          !.limit = max_body_size,
                                          !.state = state_injector]
               ELSE [Sent(m, p, z) EXCEPT !.pc = "done", !.result = answer(Lookup(m, p))]]
  BY Zenon DEF route
<1>3. max_body_size \in Limits /\ answer(Lookup(m, p)) \in Answers
  BY DEF Inv, TypeOK, ConfigTypeOK, Answers
<1> HIDE DEF answer
<1>4. CASE Lookup(m, p).hit # 0
  <2>1. req' = [req EXCEPT ![r] = [Sent(m, p, z) EXCEPT !.pc = "collect",
                                     !.hit = Lookup(m, p).hit, !.limit = max_body_size,
                                     !.state = state_injector]]
    BY <1>2, <1>4
  <2> DEFINE s == Sent(m, p, z)
  <2>2. s \in RequestStates /\ s.method = m /\ s.path = p
    BY SentType
  <2> HIDE DEF s
  <2>3. req' = [req EXCEPT ![r] = [s EXCEPT !.pc = "collect", !.hit = Lookup(m, p).hit,
                                            !.limit = max_body_size, !.state = state_injector]]
    BY <2>1 DEF s
  <2> QED
    BY <1>1, <1>3, <1>4, <2>2, <2>3, HitStep
<1>5. CASE Lookup(m, p).hit = 0
  <2>1. req' = [req EXCEPT ![r] = [Sent(m, p, z) EXCEPT !.pc = "done",
                                     !.result = answer(Lookup(m, p))]]
    BY <1>2, <1>5
  <2> QED
    BY <1>1, <1>3, <2>1, SentType, AnswerStep
<1> QED
  BY <1>4, <1>5

LEMMA RouteWithBytesStep ==
  ASSUME Inv, NEW r \in Requests, route_with_bytes(r)
  PROVE  Inv'
<1>1. serving /\ UNCHANGED <<tableVars, configVars, serving>>
  BY DEF route_with_bytes
<1> DEFINE answer(out) == IF out.status = 405 THEN "not_allowed" ELSE "not_found"
<1>2. PICK m \in RequestMethods, p \in RequestPaths :
        req' = [req EXCEPT ![r] =
             IF Lookup(m, p).hit # 0
               THEN [Sent(m, p, 0) EXCEPT !.pc = "handle", !.hit = Lookup(m, p).hit,
                                          !.limit = 0, !.state = state_injector]
               ELSE [Sent(m, p, 0) EXCEPT !.pc = "done", !.result = answer(Lookup(m, p))]]
  BY Zenon DEF route_with_bytes
<1>3. answer(Lookup(m, p)) \in Answers
  BY DEF Answers
<1> HIDE DEF answer
<1>4. CASE Lookup(m, p).hit # 0
  <2>1. req' = [req EXCEPT ![r] = [Sent(m, p, 0) EXCEPT !.pc = "handle",
                                     !.hit = Lookup(m, p).hit, !.limit = 0,
                                     !.state = state_injector]]
    BY <1>2, <1>4
  <2> DEFINE s == Sent(m, p, 0)
  <2>2. s \in RequestStates /\ s.method = m /\ s.path = p
    BY SentType
  <2> HIDE DEF s
  <2>3. req' = [req EXCEPT ![r] = [s EXCEPT !.pc = "handle", !.hit = Lookup(m, p).hit,
                                            !.limit = 0, !.state = state_injector]]
    BY <2>1 DEF s
  <2> QED
    BY <1>1, <1>4, <2>2, <2>3, HitStep
<1>5. CASE Lookup(m, p).hit = 0
  <2>1. req' = [req EXCEPT ![r] = [Sent(m, p, 0) EXCEPT !.pc = "done",
                                     !.result = answer(Lookup(m, p))]]
    BY <1>2, <1>5
  <2> QED
    BY <1>1, <1>3, <2>1, SentType, AnswerStep
<1> QED
  BY <1>4, <1>5

(* A request that is not idle is in a running server.                      *)
LEMMA BusyServing ==
  ASSUME Inv, NEW r \in Requests, req[r].pc # "idle"
  PROVE  serving /\ req[r] \in RequestStates
<1>1. Idle.pc = "idle"
  BY DEF Idle
<1> QED
  BY <1>1 DEF Inv, TypeOK, Quiet

LEMMA RespondStep ==
  ASSUME Inv, NEW r \in Requests, req[r].pc # "idle", NEW x \in Answers, Respond(r, x),
         UNCHANGED <<tableVars, configVars, serving>>
  PROVE  Inv'
<1>1. serving /\ req[r] \in RequestStates
  BY BusyServing
<1>2. req' = [req EXCEPT ![r] = [req[r] EXCEPT !.pc = "done", !.result = x]]
  BY DEF Respond, Inv, TypeOK
<1> QED
  BY <1>1, <1>2, AnswerStep

LEMMA CollectStep ==
  ASSUME Inv, NEW r \in Requests, collect_body_limited(r)
  PROVE  Inv'
<1>1. serving /\ req[r] \in RequestStates
  BY BusyServing DEF collect_body_limited
<1>2. CASE req[r].size > req[r].limit
  BY <1>2, RespondStep DEF collect_body_limited, Answers
<1>3. CASE ~(req[r].size > req[r].limit)
  <2> DEFINE q == [req[r] EXCEPT !.pc = "handle"]
  <2>1. req' = [req EXCEPT ![r] = q] /\ UNCHANGED <<tableVars, configVars, serving>>
    BY <1>3 DEF collect_body_limited, Inv, TypeOK
  <2>2. /\ q \in RequestStates
        /\ q.method = req[r].method /\ q.path = req[r].path /\ q.hit = req[r].hit
    BY <1>1 DEF RequestStates
  <2>3. Accepted(req[r].method, req[r].path, req[r].hit)
    BY DEF collect_body_limited, Inv, HandlerMatchesRequest, Accepted
  <2> HIDE DEF q
  <2> QED
    BY <1>1, <2>1, <2>2, <2>3, RequestStep
<1> QED
  BY <1>2, <1>3

LEMMA SingletonType ==
  ASSUME NEW S, NEW t \in S
  PROVE  <<t>> \in Seq(S)
OBVIOUS

(* The path of a file is a sequence of parts of the request's path.        *)
LEMMA SuffixType ==
  ASSUME NEW p \in Seq(Text), NEW n \in Nat, n >= 1
  PROVE  SubSeq(p, n, Len(p)) \in Seq(Text)
OBVIOUS

LEMMA HandleStep ==
  ASSUME Inv, NEW r \in Requests, handle(r)
  PROVE  Inv'
<1>1. serving /\ req[r] \in RequestStates
  BY BusyServing DEF handle
<1>2. req[r].hit \in Indices
  BY DEF handle, Inv, HandlerMatchesRequest
<1>3. CASE routes[req[r].hit].kind = "static"
  <2> DEFINE f == StaticFile(req[r])
             q == [req[r] EXCEPT !.pc = "done", !.result = "ok", !.file = f]
  <2>1. req' = [req EXCEPT ![r] = q] /\ UNCHANGED <<tableVars, configVars, serving>>
    BY <1>3 DEF handle, Inv, TypeOK
  <2>2. routes[req[r].hit] \in Routes
    BY <1>2 DEF Inv, TypeOK, TableTypeOK, Indices
  <2>3. Len(routes[req[r].hit].pattern) \in Nat /\ Len(routes[req[r].hit].pattern) >= 1
    BY <1>3, <2>2, RouteType DEF Patterns
  <2>4. req[r].path \in Seq(Text)
    <3>1. RequestPaths \subseteq Seq(Text) /\ "" \in Text
      BY RouterAssumption DEF RouterAssumption
    <3>2. req[r].path \in RequestPaths \cup {<<"">>}
      BY <1>1 DEF RequestStates
    <3>3. <<"">> \in Seq(Text)
      BY <3>1, SingletonType
    <3> QED
      BY <3>1, <3>2, <3>3
  <2>5. f \in Seq(Text)
    BY <2>3, <2>4, SuffixType DEF StaticFile
  <2> HIDE DEF f
  <2>6. q \in RequestStates /\ q.pc = "done"
    BY <1>1, <2>5, ZenonT(40) DEF RequestStates, Answers
  <2> HIDE DEF q
  <2> QED
    BY <1>1, <2>1, <2>6, RequestStep
<1>4. CASE routes[req[r].hit].kind # "static"
  <2>1. EndpointResult(req[r]) \in Answers
    BY DEF EndpointResult, Answers
  <2>2. req[r].pc # "idle" /\ Respond(r, EndpointResult(req[r]))
        /\ UNCHANGED <<tableVars, configVars, serving>>
    BY <1>4 DEF handle
  <2> QED
    BY <2>1, <2>2, RespondStep
<1> QED
  BY <1>3, <1>4

LEMMA LeaveStep ==
  ASSUME Inv, NEW r \in Requests, leave(r)
  PROVE  Inv'
<1>1. serving
  BY BusyServing DEF leave
<1>2. Idle \in RequestStates /\ Idle.pc = "idle"
  BY IdleType DEF Idle
<1>3. req' = [req EXCEPT ![r] = Idle] /\ UNCHANGED <<tableVars, configVars, serving>>
  BY DEF leave
<1> QED
  BY <1>1, <1>2, <1>3, RequestStep

-----------------------------------------------------------------------------
(* Every action preserves the invariant.                                   *)

LEMMA NextInv == Inv /\ [Next]_vars => Inv'
<1> SUFFICES ASSUME Inv, [Next]_vars PROVE Inv'
  OBVIOUS
<1>0. TypeOK /\ TableTypeOK /\ ConfigTypeOK /\ IndexComplete
  BY DEF Inv, TypeOK
<1>1. ASSUME NEW rt \in Routes, add_route(rt), ~serving, UNCHANGED <<configVars, serving, req>>
      PROVE  Inv'
  <2>1. TableTypeOK' /\ IndexComplete'
    BY <1>0, <1>1, AddRouteType, AddRouteIndexes
  <2>2. ConfigTypeOK'
    BY <1>0, <1>1 DEF ConfigTypeOK, configVars
  <2> QED
    BY <1>1, <2>1, <2>2, BuilderStep
<1>2. CASE Register
  BY <1>1, <1>2 DEF Register, Routes
<1>3. CASE with_static_files
  BY <1>1, <1>3, RouteType DEF with_static_files
<1>4. ASSUME UNCHANGED <<tableVars, req>>, ~serving, ConfigTypeOK'
      PROVE  Inv'
  BY <1>0, <1>4, TableFrame, BuilderStep
<1>5. CASE nest
  BY <1>0, <1>4, <1>5 DEF nest, ConfigTypeOK
<1>6. CASE with_state
  BY <1>0, <1>4, <1>6 DEF with_state, ConfigTypeOK
<1>7. CASE set_fallback
  BY <1>0, <1>4, <1>7 DEF set_fallback, ConfigTypeOK
<1>8. CASE set_max_body_size
  BY <1>0, <1>4, <1>8 DEF set_max_body_size, ConfigTypeOK
<1>9. CASE serve
  BY <1>0, <1>4, <1>9 DEF serve, ConfigTypeOK, configVars
<1>10. ASSUME NEW r \in Requests, body_error(r) \/ handler_panics(r)
       PROVE  Inv'
  BY <1>10, RespondStep DEF body_error, handler_panics, Answers
<1>11. ASSUME NEW r \in Requests,
              \/ route(r) \/ route_with_bytes(r) \/ collect_body_limited(r) \/ body_error(r)
              \/ handle(r) \/ handler_panics(r) \/ leave(r)
       PROVE  Inv'
  BY <1>10, <1>11, RouteStep, RouteWithBytesStep, CollectStep, HandleStep, LeaveStep
<1>12. CASE UNCHANGED vars
  <2>1. TableTypeOK' /\ IndexComplete'
    BY <1>0, <1>12, TableFrame DEF vars
  <2>2. RequestStates' = RequestStates /\ Indices' = Indices
    BY <1>12 DEF RequestStates, Indices, vars, tableVars
  <2>3. ConfigTypeOK' /\ req' \in [Requests -> RequestStates']
    BY <1>0, <1>12, <2>2 DEF ConfigTypeOK, TypeOK, vars, configVars
  <2>4. HandlerMatchesRequest'
    BY <1>12, <2>2 DEF Inv, HandlerMatchesRequest, match_fn, strip_prefix, vars, tableVars,
                       configVars
  <2>5. Quiet'
    BY <1>12 DEF Inv, Quiet, vars
  <2> QED
    BY <2>1, <2>3, <2>4, <2>5 DEF Inv, TypeOK
<1> QED
  BY <1>2, <1>3, <1>5, <1>6, <1>7, <1>8, <1>9, <1>11, <1>12 DEF Next

LEMMA SpecInv == Spec => []Inv
BY InitInv, NextInv, PTL DEF Spec

(* The router's state keeps its type: in particular every index in a trie, *)
(* a linear list or a request in flight is the index of a route.           *)
THEOREM RouterTypeCorrect == Spec => []TypeOK
<1>1. Inv => TypeOK
  BY DEF Inv
<1> QED
  BY <1>1, SpecInv, PTL

(* Registration never loses a route: add_route (router.rs) puts each one   *)
(* into the trie or the linear list of its bucket, whatever the patterns.  *)
THEOREM RegistrationIsComplete == Spec => []IndexComplete
<1>1. Inv => IndexComplete
  BY DEF Inv
<1> QED
  BY <1>1, SpecInv, PTL

(* Router::route gives a request, after the await of its body, the handler *)
(* of a route that has its method and accepts its path.                    *)
THEOREM RequestsKeepTheirHandler == Spec => []HandlerMatchesRequest
<1>1. Inv => HandlerMatchesRequest
  BY DEF Inv
<1> QED
  BY <1>1, SpecInv, PTL

-----------------------------------------------------------------------------
(* The index against a scan of all routes.                                 *)

(* What the router hands to matchit: captures without their types.         *)
IsShape(a) ==
  /\ a \in Patterns /\ RestLast(a)
  /\ \A k \in 1..Len(a) : a[k][1] = "cap" => a[k] = Capture("")

LEMMA ElementKinds == \A e \in Elements : e[1] \in {"lit", "cap", "rest"}
BY DEF Elements

LEMMA ElementEquality == \A e, f \in Elements : e[1] = f[1] /\ e[2] = f[2] => e = f
BY DEF Elements

LEMMA CaptureElement ==
  ASSUME NEW t \in Text
  PROVE  Capture(t) \in Elements /\ Capture(t)[1] = "cap"
BY DEF Elements, Capture

LEMMA TabulatedSeq ==
  ASSUME NEW S, NEW n \in Nat, NEW f, f = [k \in 1..n |-> f[k]], \A k \in 1..n : f[k] \in S
  PROVE  f \in Seq(S) /\ Len(f) = n
OBVIOUS

LEMMA ShapeIsShape ==
  ASSUME TableTypeOK, NEW i \in Indices
  PROVE  IsShape(Shape(i))
<1> DEFINE pat == routes[i].pattern
           g(k) == IF pat[k][1] = "cap" THEN Capture("") ELSE pat[k]
<1>1. routes[i] \in Routes
  BY DEF TableTypeOK, Indices
<1>2. pat \in Seq(Elements) /\ RestLast(pat)
  BY <1>1, RouteType DEF Patterns
<1>3. "" \in Text
  BY RouterAssumption DEF RouterAssumption
<1>4. Shape(i) = [k \in 1..Len(pat) |-> g(k)]
  BY DEF Shape, to_matchit_pattern
<1> HIDE DEF pat
<1>5. \A k \in 1..Len(pat) :
        /\ g(k) \in Elements
        /\ g(k)[1] = "cap" => g(k) = Capture("")
        /\ g(k)[1] = "rest" => pat[k][1] = "rest"
  <2>1. \A k \in 1..Len(pat) : pat[k] \in Elements
    BY <1>2
  <2>2. Capture("") \in Elements /\ Capture("")[1] = "cap"
    BY <1>3, CaptureElement
  <2> QED
    BY <2>1, <2>2
<1> HIDE DEF g
<1>6. Len(pat) \in Nat
  BY <1>2
<1>7. \A k \in 1..Len(pat) : Shape(i)[k] = g(k)
  BY <1>4
<1>8. Shape(i) = [k \in 1..Len(pat) |-> Shape(i)[k]]
  BY <1>4, <1>7
<1>9. Shape(i) \in Seq(Elements) /\ Len(Shape(i)) = Len(pat)
  <2> DEFINE f == Shape(i)
             n == Len(pat)
  <2>1. n \in Nat /\ f = [k \in 1..n |-> f[k]] /\ \A k \in 1..n : f[k] \in Elements
    BY <1>5, <1>6, <1>7, <1>8
  <2> HIDE DEF f, n
  <2>2. f \in Seq(Elements) /\ Len(f) = n
    BY <2>1, TabulatedSeq
  <2> QED
    BY <2>2 DEF f, n
<1>10. RestLast(Shape(i))
  BY <1>2, <1>5, <1>7, <1>9 DEF RestLast
<1> QED
  BY <1>5, <1>7, <1>9, <1>10 DEF IsShape, Patterns

LEMMA ShapeFacts ==
  ASSUME NEW a, IsShape(a)
  PROVE  /\ a \in Seq(Elements) /\ Len(a) \in Nat
         /\ \A k \in 1..Len(a) : a[k] \in Elements
         /\ EndsInRest(a) => Len(a) >= 1 /\ a[Len(a)][1] = "rest"
<1>1. a \in Seq(Elements)
  BY DEF IsShape, Patterns
<1>2. Len(a) \in Nat /\ \A k \in 1..Len(a) : a[k] \in Elements
  BY <1>1
<1>3. EndsInRest(a) => Len(a) >= 1 /\ a[Len(a)][1] = "rest"
  BY <1>1 DEF EndsInRest
<1> QED
  BY <1>1, <1>2, <1>3

(* What a match says of the length and of each literal.                    *)
LEMMA MatchFacts ==
  ASSUME NEW a, IsShape(a), NEW p \in Seq(Text), ShapeMatches(a, p)
  PROVE  /\ Len(p) \in Nat /\ Len(p) >= Len(a)
         /\ ~EndsInRest(a) => Len(p) = Len(a)
         /\ \A k \in 1..Len(a) : a[k][1] = "lit" => a[k][2] = p[k]
<1>1. Len(a) \in Nat /\ (EndsInRest(a) => Len(a) >= 1 /\ a[Len(a)][1] = "rest")
  BY ShapeFacts
<1> DEFINE n == IF EndsInRest(a) THEN Len(a) - 1 ELSE Len(a)
<1>2. Len(p) \in Nat
  OBVIOUS
<1>3. /\ EndsInRest(a) => Len(p) > n
      /\ ~EndsInRest(a) => Len(p) = n
      /\ \A i \in 1..n : a[i][1] = "lit" => a[i][2] = p[i]
  BY ONLY ShapeMatches(a, p) DEF ShapeMatches
<1>4. \A k \in 1..Len(a) : a[k][1] = "lit" => k \in 1..n
  BY <1>1
<1> QED
  BY <1>1, <1>2, <1>3, <1>4

(* Two shapes that match a path do not differ in length alone.             *)
LEMMA NoProperPrefix ==
  ASSUME NEW a, NEW b, IsShape(a), IsShape(b), NEW p \in Seq(Text),
         ShapeMatches(a, p), ShapeMatches(b, p),
         \A k \in 1..Len(a) : k \in 1..Len(b) => a[k] = b[k]
  PROVE  Len(b) <= Len(a)
<1>1. Len(a) \in Nat /\ Len(b) \in Nat
  BY ShapeFacts
<1>2. CASE EndsInRest(a)
  <2>1. Len(a) >= 1 /\ a[Len(a)][1] = "rest"
    BY <1>2, ShapeFacts
  <2>2. Len(a) \in 1..Len(b) => b[Len(a)][1] = "rest"
    BY <1>1, <2>1
  <2>3. Len(a) \in 1..Len(b) => Len(a) = Len(b)
    BY <2>2 DEF IsShape, RestLast
  <2> QED
    BY <1>1, <2>1, <2>3
<1>3. CASE ~EndsInRest(a)
  BY <1>1, <1>3, MatchFacts
<1> QED
  BY <1>2, <1>3

(* Of two patterns that match a path and do not conflict, one precedes the *)
(* other: at their first difference exactly one has a literal.             *)
LEMMA MatchingShapesAreOrdered ==
  ASSUME NEW a, NEW b, IsShape(a), IsShape(b), NEW p \in Seq(Text),
         ShapeMatches(a, p), ShapeMatches(b, p), ~Conflict(a, b)
  PROVE  Precedes(a, b) \/ Precedes(b, a)
<1> DEFINE D == {k \in 1..Len(a) : k \in 1..Len(b) /\ a[k] # b[k]}
<1>1. /\ a \in Seq(Elements) /\ b \in Seq(Elements)
      /\ Len(a) \in Nat /\ Len(b) \in Nat
  BY ShapeFacts
<1>2. CASE D = {}
  <2>1. \A k \in 1..Len(a) : k \in 1..Len(b) => a[k] = b[k]
    BY <1>2
  <2>2. \A k \in 1..Len(b) : k \in 1..Len(a) => b[k] = a[k]
    BY <1>2
  <2>3. Len(b) <= Len(a)
    BY <2>1, NoProperPrefix
  <2>4. Len(a) <= Len(b)
    BY <2>2, NoProperPrefix
  <2>5. a = b
    BY <1>1, <2>1, <2>3, <2>4
  <2> QED
    BY <2>5 DEF Conflict
<1>3. CASE D # {}
  <2>1. D \subseteq Nat
    BY <1>1
  <2>2. PICK k \in D : \A l \in D : k <= l
    BY <1>3, <2>1, LeastElement
  <2>3. k \in 1..Len(a) /\ k \in 1..Len(b) /\ a[k] # b[k]
    BY <2>2
  <2>4. \A j \in 1..(k - 1) : a[j] = b[j]
    BY <1>1, <2>2, <2>3
  <2>5. SameBefore(a, b, k) /\ SameBefore(b, a, k)
    BY <2>3, <2>4 DEF SameBefore
  <2>6. a[k] \in Elements /\ b[k] \in Elements
    BY <2>3, ShapeFacts
  <2> HIDE DEF D
  <2>7. CASE a[k][1] = "lit" /\ b[k][1] = "lit"
    <3>1. a[k][2] = p[k] /\ b[k][2] = p[k]
      BY <2>3, <2>7, MatchFacts
    <3> QED
      BY <2>3, <2>6, <2>7, <3>1, ElementEquality
  <2>8. CASE a[k][1] # "lit" /\ b[k][1] # "lit"
    <3>1. "rest" \notin {a[k][1], b[k][1]}
      BY <2>3, <2>5, <2>8 DEF Conflict
    <3>2. a[k][1] = "cap" /\ b[k][1] = "cap"
      BY <2>6, <2>8, <3>1, ElementKinds
    <3> QED
      BY <2>3, <3>2 DEF IsShape
  <2>9. CASE a[k][1] = "lit" /\ b[k][1] # "lit"
    BY <2>3, <2>5, <2>9 DEF Precedes
  <2>10. CASE a[k][1] # "lit" /\ b[k][1] = "lit"
    BY <2>3, <2>5, <2>10 DEF Precedes
  <2> QED
    BY <2>7, <2>8, <2>9, <2>10
<1> QED
  BY <1>2, <1>3

(* On a plain path a bucket with a route that accepts has a hit.           *)
LEMMA LookupComplete ==
  ASSUME TableTypeOK, IndexComplete, NEW p \in Seq(Text), Plain(p),
         NEW i \in Indices, match_fn(i, p)
  PROVE  lookup_in_bucket(bucket(routes[i].method), p) # 0
<1> DEFINE b == bucket(routes[i].method)
           T == {j \in TrieAt(b, p) : match_fn(j, p)}
           L == LinearAt(b, p)
<1>1. b \in Buckets
  BY DEF bucket, Buckets
<1> HIDE DEF b
<1>2. trie[b] \subseteq Indices /\ linear[b] \in Seq(Nat)
      /\ \A k \in 1..Len(linear[b]) : linear[b][k] \in Indices
  BY <1>1 DEF TableTypeOK
<1>3. 0 \notin Indices
  BY DEF TableTypeOK, Indices
<1>4. i \in trie[b] \/ InLinear(i, b)
  BY <1>1 DEF IndexComplete, b
<1>5. CASE T # {}
  <2>1. lookup_in_bucket(b, p) \in T
    BY <1>5 DEF lookup_in_bucket
  <2> QED
    BY <1>2, <1>3, <2>1 DEF TrieAt, b
<1>6. CASE T = {}
  <2>1. CASE i \in trie[b]
    <3>1. ShapeMatches(Shape(i), p)
      BY DEF Plain
    <3>2. ASSUME NEW j \in trie[b], j # i, ShapeMatches(Shape(j), p)
          PROVE  FALSE
      <4>1. ~Conflict(Shape(i), Shape(j))
        BY <1>1, <2>1, <3>2 DEF IndexComplete
      <4>2. j \in Indices /\ IsShape(Shape(i)) /\ IsShape(Shape(j))
        BY <1>2, ShapeIsShape
      <4>3. Precedes(Shape(i), Shape(j)) \/ Precedes(Shape(j), Shape(i))
        BY <3>1, <3>2, <4>1, <4>2, MatchingShapesAreOrdered
      <4> QED
        BY <3>1, <3>2, <4>2, <4>3 DEF Plain
    <3>3. i \in TrieAt(b, p)
      BY <2>1, <3>1, <3>2 DEF TrieAt
    <3> QED
      BY <1>6, <3>3
  <2>2. CASE InLinear(i, b)
    <3>1. L # {} /\ L \subseteq Nat
      BY <2>2 DEF InLinear, LinearAt
    <3>2. \E k \in L : \A l \in L : k <= l
      BY <3>1, LeastElement
    <3>3. PICK k \in L : lookup_in_bucket(b, p) = linear[b][k]
      BY <1>6, <3>1, <3>2 DEF lookup_in_bucket
    <3> QED
      BY <1>2, <1>3, <3>3 DEF LinearAt, b
  <2> QED
    BY <1>4, <2>1, <2>2
<1> QED
  BY <1>5, <1>6

(* What a lookup finds in a bucket is a route of the bucket.               *)
LEMMA LookupSound ==
  ASSUME TableTypeOK, IndexComplete, NEW b \in Buckets, NEW p, lookup_in_bucket(b, p) # 0
  PROVE  LET i == lookup_in_bucket(b, p)
         IN  i \in Indices /\ bucket(routes[i].method) = b /\ match_fn(i, p)
<1> DEFINE i == lookup_in_bucket(b, p)
<1>1. (i \in trie[b] \/ InLinear(i, b)) /\ match_fn(i, p)
  BY LookupFinds DEF TableTypeOK
<1> HIDE DEF i
<1>2. i \in Indices
  BY <1>1 DEF TableTypeOK, InLinear
<1>3. bucket(routes[i].method) = b
  BY <1>1, <1>2 DEF IndexComplete
<1> QED
  BY <1>1, <1>2, <1>3 DEF i

LEMMA ScanLemma ==
  ASSUME TableTypeOK, IndexComplete, NEW m, NEW p \in Seq(Text), Plain(p)
  PROVE  LET own == {i \in Indices : bucket(routes[i].method) = bucket(m) /\ match_fn(i, p)}
         IN  IF own # {} THEN resolve(m, p).hit \in own
             ELSE resolve(m, p) = IF \E i \in Indices : match_fn(i, p)
                                    THEN MethodNotAllowed ELSE NotFound
<1> DEFINE own == {i \in Indices : bucket(routes[i].method) = bucket(m) /\ match_fn(i, p)}
           b == bucket(m)
           i == lookup_in_bucket(b, p)
<1>1. b \in Buckets /\ \A j \in Indices : bucket(routes[j].method) \in Buckets
  BY DEF bucket, Buckets
<1> HIDE DEF b, i
<1>2. own # {} => i # 0
  BY LookupComplete DEF i, b
<1>3. i # 0 => i \in own
  BY <1>1, LookupSound DEF i, b
<1>4. CASE i # 0
  <2>1. resolve(m, p).hit = i
    BY <1>4 DEF resolve, Hit, i, b
  <2> QED
    BY <1>3, <1>4, <2>1
<1>5. CASE i = 0
  <2>1. own = {}
    BY <1>2, <1>5
  <2>2. CASE methods_present = {b}
    <3>1. resolve(m, p) = NotFound
      BY <1>5, <2>2 DEF resolve, i, b
    <3>2. \A j \in Indices : bucket(routes[j].method) = b
      BY <2>2 DEF IndexComplete
    <3>3. ~\E j \in Indices : match_fn(j, p)
      BY <2>1, <3>2 DEF b
    <3> QED
      BY <2>1, <3>1, <3>3
  <2>3. CASE methods_present # {b}
    <3>1. resolve(m, p) = IF any_path_shape(p) /\ \E c \in Buckets : lookup_in_bucket(c, p) # 0
                            THEN MethodNotAllowed ELSE NotFound
      BY <1>5, <2>3 DEF resolve, i, b
    <3>2. ASSUME NEW j \in Indices, match_fn(j, p)
          PROVE  any_path_shape(p) /\ \E c \in Buckets : lookup_in_bucket(c, p) # 0
      <4>1. ShapeMatches(Shape(j), p)
        BY <3>2 DEF Plain
      <4>2. any_path_shape(p)
        BY <4>1 DEF IndexComplete, any_path_shape
      <4> QED
        BY <1>1, <3>2, <4>2, LookupComplete
    <3>3. ASSUME NEW c \in Buckets, lookup_in_bucket(c, p) # 0
          PROVE  \E j \in Indices : match_fn(j, p)
      BY <3>3, LookupSound
    <3> QED
      BY <2>1, <3>1, <3>2, <3>3
  <2> QED
    BY <2>2, <2>3
<1> QED
  BY <1>4, <1>5

(* Router::resolve answers what a scan of all routes would, for every API  *)
(* and every plain path: the tries, the linear lists, the bitmap of        *)
(* methods and the unified trie lose nothing and invent nothing.           *)
THEOREM ResolveIsAScan == Spec => []ResolveMatchesScan
<1>1. RequestPaths \subseteq Seq(Text)
  BY RouterAssumption DEF RouterAssumption
<1>2. Inv => ResolveMatchesScan
  BY <1>1, ScanLemma DEF Inv, TypeOK, ResolveMatchesScan
<1> QED
  BY <1>2, SpecInv, PTL

-----------------------------------------------------------------------------
(* What handlers answer.                                                   *)

(* A handler answers for a route that accepted the request, and a static   *)
(* one with the file its prefix leaves of the path.                        *)
HonestAnswer(q) ==
  /\ q.pc # "done" => q.result = "none"
  /\ q.result = "bad_path" => routes[q.hit].path # routes[q.hit].pattern
  /\ q.result = "ok" => Accepted(q.method, q.path, q.hit)
  /\ q.result = "ok" /\ routes[q.hit].kind = "static" => q.file = StaticFile(q)
HonestAnswers == \A r \in Requests : HonestAnswer(req[r])

(* A request answers for itself and the table it was answered from stays.  *)
LEMMA HonestStep ==
  ASSUME Inv, HonestAnswers, UNCHANGED <<tableVars, configVars>>, NEW r \in Requests,
         NEW q, HonestAnswer(q), req' = [req EXCEPT ![r] = q]
  PROVE  HonestAnswers'
<1>1. \A x \in Requests : req'[x] = IF x = r THEN q ELSE req[x]
  BY DEF Inv, TypeOK
<1>2. routes' = routes /\ prefix' = prefix
  BY DEF tableVars, configVars
<1> SUFFICES ASSUME NEW x \in Requests PROVE HonestAnswer(req[x])'
  BY DEF HonestAnswers
<1>3. HonestAnswer(req'[x])
  BY <1>1 DEF HonestAnswers
<1> DEFINE z == req'[x]
<1>4. Accepted(req[x].method, req[x].path, req[x].hit)' <=> Accepted(z.method, z.path, z.hit)
  BY <1>2 DEF Accepted, Indices, match_fn, strip_prefix
<1>5. HonestAnswer(z)
  BY <1>3
<1>6. StaticFile(req[x])' = StaticFile(z)
  BY <1>2 DEF StaticFile
<1>7. HonestAnswer(req[x])' <=>
        /\ z.pc # "done" => z.result = "none"
        /\ z.result = "bad_path" => routes[z.hit].path # routes[z.hit].pattern
        /\ z.result = "ok" => Accepted(req[x].method, req[x].path, req[x].hit)'
        /\ z.result = "ok" /\ routes[z.hit].kind = "static" => z.file = StaticFile(req[x])'
  BY <1>2, Zenon DEF HonestAnswer
<1> QED
  BY <1>4, <1>5, <1>6, <1>7 DEF HonestAnswer

(* An answer that is neither a handler's success nor its complaint about   *)
(* the path promises nothing.                                              *)
LEMMA OtherAnswer ==
  ASSUME NEW q, q.result \notin {"ok", "bad_path"}, q.pc = "done" \/ q.result = "none"
  PROVE  HonestAnswer(q)
BY DEF HonestAnswer

LEMMA RespondHonest ==
  ASSUME Inv, HonestAnswers, NEW r \in Requests, NEW x, x \notin {"ok", "bad_path"},
         Respond(r, x), UNCHANGED <<tableVars, configVars>>
  PROVE  HonestAnswers'
<1> DEFINE q == [req[r] EXCEPT !.pc = "done", !.result = x]
<1>1. req' = [req EXCEPT ![r] = q]
  BY DEF Respond, Inv, TypeOK
<1>2. req[r] \in RequestStates
  BY DEF Inv, TypeOK
<1>3. q.pc = "done" /\ q.result = x
  BY <1>2 DEF RequestStates
<1> HIDE DEF q
<1> QED
  BY <1>1, <1>3, OtherAnswer, HonestStep

LEMMA HandleHonest ==
  ASSUME Inv, HonestAnswers, NEW r \in Requests, handle(r)
  PROVE  HonestAnswers'
<1>1. req[r] \in RequestStates /\ req[r].pc = "handle" /\ UNCHANGED <<tableVars, configVars>>
  BY DEF Inv, TypeOK, handle
<1>2. Accepted(req[r].method, req[r].path, req[r].hit)
  BY <1>1 DEF Inv, HandlerMatchesRequest, Accepted
<1>3. CASE routes[req[r].hit].kind = "static"
  <2> DEFINE f == StaticFile(req[r])
             q == [req[r] EXCEPT !.pc = "done", !.result = "ok", !.file = f]
  <2>1. req' = [req EXCEPT ![r] = q]
    BY <1>3 DEF handle, Inv, TypeOK
  <2>2. f = SubSeq(req[r].path, Len(routes[req[r].hit].pattern), Len(req[r].path))
    BY DEF StaticFile
  <2> HIDE DEF f
  <2>3. /\ q.pc = "done" /\ q.result = "ok" /\ q.file = f /\ q.method = req[r].method
        /\ q.path = req[r].path /\ q.hit = req[r].hit
    BY <1>1 DEF RequestStates
  <2> HIDE DEF q
  <2>4. HonestAnswer(q)
    BY <1>2, <2>2, <2>3 DEF HonestAnswer, StaticFile
  <2> QED
    BY <1>1, <2>1, <2>4, HonestStep
<1>4. CASE routes[req[r].hit].kind # "static"
  <2> DEFINE x == EndpointResult(req[r])
             q == [req[r] EXCEPT !.pc = "done", !.result = x]
  <2>1. req' = [req EXCEPT ![r] = q]
    BY <1>4 DEF handle, Respond, Inv, TypeOK
  <2>2. x = "bad_path" => routes[req[r].hit].path # routes[req[r].hit].pattern
    BY <1>2 DEF EndpointResult, Accepted, match_fn
  <2> HIDE DEF x
  <2>3. /\ q.pc = "done" /\ q.result = x /\ q.method = req[r].method
        /\ q.path = req[r].path /\ q.hit = req[r].hit
    BY <1>1 DEF RequestStates
  <2> HIDE DEF q
  <2>4. HonestAnswer(q)
    BY <1>2, <1>4, <2>2, <2>3 DEF HonestAnswer
  <2> QED
    BY <1>1, <2>1, <2>4, HonestStep
<1> QED
  BY <1>3, <1>4

LEMMA CollectHonest ==
  ASSUME Inv, HonestAnswers, NEW r \in Requests, collect_body_limited(r)
  PROVE  HonestAnswers'
<1>1. req[r] \in RequestStates /\ req[r].pc = "collect" /\ UNCHANGED <<tableVars, configVars>>
  BY DEF Inv, TypeOK, collect_body_limited
<1>2. CASE req[r].size > req[r].limit
  BY <1>1, <1>2, RespondHonest DEF collect_body_limited
<1>3. CASE ~(req[r].size > req[r].limit)
  <2> DEFINE q == [req[r] EXCEPT !.pc = "handle"]
  <2>1. req' = [req EXCEPT ![r] = q]
    BY <1>3 DEF collect_body_limited, Inv, TypeOK
  <2>2. q.result = req[r].result /\ req[r].result = "none"
    BY <1>1 DEF RequestStates, HonestAnswers, HonestAnswer
  <2> HIDE DEF q
  <2> QED
    BY <1>1, <2>1, <2>2, OtherAnswer, HonestStep
<1> QED
  BY <1>2, <1>3

(* A request that comes in is given a route or refused.                    *)
LEMMA GivenHonest ==
  ASSUME Inv, HonestAnswers, UNCHANGED <<tableVars, configVars>>, NEW r \in Requests,
         NEW s \in RequestStates, s.result = "none", NEW pc, NEW h, NEW l,
         req' = [req EXCEPT ![r] = [s EXCEPT !.pc = pc, !.hit = h, !.limit = l, !.state = state_injector]]
  PROVE  HonestAnswers'
<1> DEFINE q == [s EXCEPT !.pc = pc, !.hit = h, !.limit = l, !.state = state_injector]
<1>1. q.result = "none"
  BY DEF RequestStates
<1>2. req' = [req EXCEPT ![r] = q]
  OBVIOUS
<1> HIDE DEF q
<1> QED
  BY <1>1, <1>2, OtherAnswer, HonestStep

LEMMA RefusedHonest ==
  ASSUME Inv, HonestAnswers, UNCHANGED <<tableVars, configVars>>, NEW r \in Requests,
         NEW s \in RequestStates, NEW x, x \notin {"ok", "bad_path"},
         req' = [req EXCEPT ![r] = [s EXCEPT !.pc = "done", !.result = x]]
  PROVE  HonestAnswers'
<1> DEFINE q == [s EXCEPT !.pc = "done", !.result = x]
<1>1. q.result = x /\ q.pc = "done"
  BY DEF RequestStates
<1>2. req' = [req EXCEPT ![r] = q]
  OBVIOUS
<1> HIDE DEF q
<1> QED
  BY <1>1, <1>2, OtherAnswer, HonestStep

LEMMA SentIsNew ==
  ASSUME NEW m \in RequestMethods, NEW p \in RequestPaths, NEW z \in Sizes \cup {0}
  PROVE  Sent(m, p, z) \in RequestStates /\ Sent(m, p, z).result = "none"
<1>1. Sent(m, p, z) = [Idle EXCEPT !.method = m, !.path = p, !.size = z]
  BY DEF Sent
<1>2. Idle.result = "none"
  BY DEF Idle
<1>3. Sent(m, p, z).result = "none"
  BY <1>1, <1>2, IdleType DEF RequestStates
<1> QED
  BY <1>3, SentType

LEMMA RouteHonest ==
  ASSUME Inv, HonestAnswers, NEW r \in Requests, route(r)
  PROVE  HonestAnswers'
<1>1. UNCHANGED <<tableVars, configVars>>
  BY DEF route
<1> DEFINE answer(out) == IF out.status = 405 THEN "not_allowed"
                          ELSE IF fallback THEN "fallback" ELSE "not_found"
<1>2. PICK m \in RequestMethods, p \in RequestPaths, z \in Sizes :
        req' = [req EXCEPT ![r] =
             IF Lookup(m, p).hit # 0
               THEN [Sent(m, p, z) EXCEPT !.pc = "collect", !.hit = Lookup(m, p).hit,
                                          !.limit = max_body_size,
                                          !.state = state_injector]
               ELSE [Sent(m, p, z) EXCEPT !.pc = "done", !.result = answer(Lookup(m, p))]]
  BY Zenon DEF route
<1> DEFINE x == answer(Lookup(m, p))
           s == Sent(m, p, z)
<1>3. x \notin {"ok", "bad_path"}
  OBVIOUS
<1>4. s \in RequestStates /\ s.result = "none"
  BY SentIsNew
<1>5. \/ req' = [req EXCEPT ![r] = [s EXCEPT !.pc = "collect", !.hit = Lookup(m, p).hit,
                                             !.limit = max_body_size, !.state = state_injector]]
      \/ req' = [req EXCEPT ![r] = [s EXCEPT !.pc = "done", !.result = x]]
  BY <1>2, Zenon
<1> HIDE DEF x, s
<1>6. CASE req' = [req EXCEPT ![r] = [s EXCEPT !.pc = "collect", !.hit = Lookup(m, p).hit,
                                               !.limit = max_body_size, !.state = state_injector]]
  BY <1>1, <1>4, <1>6, GivenHonest
<1>7. CASE req' = [req EXCEPT ![r] = [s EXCEPT !.pc = "done", !.result = x]]
  BY <1>1, <1>3, <1>4, <1>7, RefusedHonest
<1> QED
  BY <1>5, <1>6, <1>7

LEMMA RouteWithBytesHonest ==
  ASSUME Inv, HonestAnswers, NEW r \in Requests, route_with_bytes(r)
  PROVE  HonestAnswers'
<1>1. UNCHANGED <<tableVars, configVars>>
  BY DEF route_with_bytes
<1> DEFINE answer(out) == IF out.status = 405 THEN "not_allowed" ELSE "not_found"
<1>2. PICK m \in RequestMethods, p \in RequestPaths :
        req' = [req EXCEPT ![r] =
             IF Lookup(m, p).hit # 0
               THEN [Sent(m, p, 0) EXCEPT !.pc = "handle", !.hit = Lookup(m, p).hit,
                                          !.limit = 0, !.state = state_injector]
               ELSE [Sent(m, p, 0) EXCEPT !.pc = "done", !.result = answer(Lookup(m, p))]]
  BY Zenon DEF route_with_bytes
<1> DEFINE x == answer(Lookup(m, p))
           s == Sent(m, p, 0)
<1>3. x \notin {"ok", "bad_path"}
  OBVIOUS
<1>4. s \in RequestStates /\ s.result = "none"
  BY SentIsNew
<1>5. \/ req' = [req EXCEPT ![r] = [s EXCEPT !.pc = "handle", !.hit = Lookup(m, p).hit,
                                             !.limit = 0, !.state = state_injector]]
      \/ req' = [req EXCEPT ![r] = [s EXCEPT !.pc = "done", !.result = x]]
  BY <1>2, Zenon
<1> HIDE DEF x, s
<1>6. CASE req' = [req EXCEPT ![r] = [s EXCEPT !.pc = "handle", !.hit = Lookup(m, p).hit,
                                               !.limit = 0, !.state = state_injector]]
  BY <1>1, <1>4, <1>6, GivenHonest
<1>7. CASE req' = [req EXCEPT ![r] = [s EXCEPT !.pc = "done", !.result = x]]
  BY <1>1, <1>3, <1>4, <1>7, RefusedHonest
<1> QED
  BY <1>5, <1>6, <1>7

(* Before the server runs there is nothing to answer.                      *)
LEMMA BuilderHonest ==
  ASSUME Inv, ~serving, UNCHANGED req
  PROVE  HonestAnswers'
<1>1. Idle.pc = "idle" /\ Idle.result = "none"
  BY DEF Idle
<1> SUFFICES ASSUME NEW x \in Requests PROVE HonestAnswer(req[x])'
  BY DEF HonestAnswers
<1>2. req'[x].pc = "idle" /\ req'[x].result = "none"
  BY <1>1 DEF Inv, Quiet
<1> QED
  BY <1>2 DEF HonestAnswer

LEMMA NextHonest == Inv /\ HonestAnswers /\ [Next]_vars => HonestAnswers'
<1> SUFFICES ASSUME Inv, HonestAnswers, [Next]_vars PROVE HonestAnswers'
  OBVIOUS
<1>1. ASSUME NEW r \in Requests, body_error(r) \/ handler_panics(r)
      PROVE  HonestAnswers'
  BY <1>1, RespondHonest DEF body_error, handler_panics
<1>2. ASSUME NEW r \in Requests, leave(r)
      PROVE  HonestAnswers'
  <2>1. Idle.result = "none"
    BY DEF Idle
  <2> QED
    BY <1>2, <2>1, OtherAnswer, HonestStep DEF leave
<1>3. ASSUME NEW r \in Requests,
             \/ route(r) \/ route_with_bytes(r) \/ collect_body_limited(r) \/ body_error(r)
             \/ handle(r) \/ handler_panics(r) \/ leave(r)
      PROVE  HonestAnswers'
  BY <1>1, <1>2, <1>3, RouteHonest, RouteWithBytesHonest, CollectHonest, HandleHonest
<1>4. CASE Register \/ with_static_files \/ nest \/ with_state \/ set_fallback
           \/ set_max_body_size \/ serve
  <2>1. ~serving /\ UNCHANGED req
    BY <1>4 DEF Register, with_static_files, nest, with_state, set_fallback,
                set_max_body_size, serve
  <2> QED
    BY <2>1, BuilderHonest
<1>5. CASE UNCHANGED vars
  <2>1. UNCHANGED <<tableVars, configVars>> /\ req' = req
    BY <1>5 DEF vars
  <2>2. CASE Requests = {}
    BY <2>2 DEF HonestAnswers
  <2>3. CASE Requests # {}
    <3>1. PICK r \in Requests : TRUE
      BY <2>3
    <3>2. req' = [req EXCEPT ![r] = req[r]]
      BY <2>1 DEF Inv, TypeOK
    <3>3. HonestAnswer(req[r])
      BY DEF HonestAnswers
    <3> QED
      BY <2>1, <3>2, <3>3, HonestStep
  <2> QED
    BY <2>2, <2>3
<1> QED
  BY <1>3, <1>4, <1>5 DEF Next

LEMMA SpecHonest == Spec => [](Inv /\ HonestAnswers)
<1>1. Init => HonestAnswers
  <2>1. Idle.pc = "idle" /\ Idle.result = "none"
    BY DEF Idle
  <2> QED
    BY <2>1 DEF Init, HonestAnswers, HonestAnswer
<1> QED
  BY <1>1, InitInv, NextInv, NextHonest, PTL DEF Spec

(* A Path<P> extractor whose P is the pattern of its route never rejects   *)
(* what the match function took, for every table and nest prefix: both     *)
(* read the same part of the path.                                         *)
THEOREM ExtractorsAgreeWithMatch == Spec => []MatchedPathExtracts
<1>1. HonestAnswers => MatchedPathExtracts
  BY DEF HonestAnswers, HonestAnswer, MatchedPathExtracts
<1> QED
  BY <1>1, SpecHonest, PTL

LEMMA SeqIsFunction ==
  ASSUME NEW S, NEW s \in Seq(S)
  PROVE  Len(s) \in Nat /\ s = [i \in 1..Len(s) |-> s[i]]
OBVIOUS

(* What is left of a path when as many parts as the prefix has are taken   *)
(* off, if the path begins with the prefix.                                *)
LEMMA PrefixAndRest ==
  ASSUME NEW p \in Seq(Text), NEW pre \in Seq(Text), Len(p) >= Len(pre),
         \A i \in 1..Len(pre) : pre[i] = p[i]
  PROVE  p = pre \o SubSeq(p, Len(pre) + 1, Len(p))
<1> DEFINE f == SubSeq(p, Len(pre) + 1, Len(p))
<1>1. Len(p) \in Nat /\ Len(pre) \in Nat
  OBVIOUS
<1>2. f \in Seq(Text) /\ Len(f) = Len(p) - Len(pre) /\ \A i \in 1..Len(f) : f[i] = p[Len(pre) + i]
  BY <1>1
<1> HIDE DEF f
<1>3. pre \o f \in Seq(Text) /\ Len(pre \o f) = Len(p)
  BY <1>1, <1>2
<1>4. \A i \in 1..Len(p) : (pre \o f)[i] = p[i]
  <2> SUFFICES ASSUME NEW i \in 1..Len(p) PROVE (pre \o f)[i] = p[i]
    OBVIOUS
  <2>1. CASE i <= Len(pre)
    BY <1>1, <1>2, <2>1
  <2>2. CASE i > Len(pre)
    <3>1. i - Len(pre) \in 1..Len(f)
      BY <1>1, <1>2, <2>2
    <3>2. (pre \o f)[i] = f[i - Len(pre)]
      BY <1>1, <1>2, <2>2, <1>3
    <3> QED
      BY <1>1, <1>2, <3>1, <3>2
  <2>3. i <= Len(pre) \/ i > Len(pre)
    BY <1>1
  <2> QED
    BY <2>1, <2>2, <2>3, Zenon
<1>5. p = pre \o f
  <2>1. p = [i \in 1..Len(p) |-> p[i]]
    OBVIOUS
  <2>2. pre \o f = [i \in 1..Len(p) |-> (pre \o f)[i]]
    BY ONLY <1>3, SeqIsFunction
  <2> QED
    BY <1>4, <2>1, <2>2
<1> QED
  BY <1>5 DEF f

(* The pattern of a static route, part by part.                            *)
LEMMA StaticShape ==
  ASSUME NEW pre \in Seq(Text), "path" \in Text
  PROVE  LET pat == StaticRoute(pre).pattern
         IN  /\ pat \in Seq(Elements) /\ Len(pat) = Len(pre) + 1 /\ EndsInRest(pat)
             /\ \A k \in 1..Len(pre) : pat[k][1] = "lit" /\ pat[k][2] = pre[k]
<1> DEFINE lits == [i \in 1..Len(pre) |-> Lit(pre[i])]
           pat == Append(lits, CaptureRest("path"))
<1>1. StaticRoute(pre).pattern = pat
  BY DEF StaticRoute
<1>2. \A i \in 1..Len(pre) : Lit(pre[i]) \in Elements
  BY DEF Lit, Elements
<1>3. \A i \in 1..Len(pre) : Lit(pre[i])[1] = "lit" /\ Lit(pre[i])[2] = pre[i]
  BY DEF Lit
<1>4. lits \in Seq(Elements) /\ Len(lits) = Len(pre)
  BY <1>2
<1>5. \A i \in 1..Len(pre) : lits[i][1] = "lit" /\ lits[i][2] = pre[i]
  BY <1>3
<1>6. CaptureRest("path") \in Elements /\ CaptureRest("path")[1] = "rest"
  BY DEF CaptureRest, Elements
<1> HIDE DEF lits
<1>7. /\ pat \in Seq(Elements) /\ Len(pat) = Len(lits) + 1 /\ Len(lits) \in Nat
      /\ \A k \in 1..Len(lits) : pat[k] = lits[k]
      /\ pat[Len(lits) + 1] = CaptureRest("path")
  BY <1>4, <1>6, AppendFacts
<1> HIDE DEF pat
<1>8. EndsInRest(pat)
  BY <1>6, <1>7 DEF EndsInRest
<1> QED
  BY <1>1, <1>4, <1>5, <1>7, <1>8

(* A static directory serves the file that follows its prefix, for every   *)
(* table and every prefix (with_static_files); the cases the property      *)
(* leaves out are those in which the handler's own split of the path is    *)
(* not the router's.                                                       *)
THEOREM StaticFilesAreTheRest == Spec => []StaticServesPath
<1> SUFFICES ASSUME Inv, HonestAnswers PROVE StaticServesPath
  BY SpecHonest, PTL
<1> SUFFICES ASSUME NEW r \in Requests, req[r].pc = "done", req[r].result = "ok",
                    routes[req[r].hit].kind = "static", prefix = <<>>, Segments(req[r].path) = req[r].path
             PROVE  \E pre \in StaticPrefixes :
                      routes[req[r].hit] = StaticRoute(pre) /\ req[r].path = pre \o req[r].file
  BY DEF StaticServesPath
<1> DEFINE p == req[r].path
           h == req[r].hit
<1>1. Accepted(req[r].method, p, h) /\ req[r].file = StaticFile(req[r])
  BY DEF HonestAnswers, HonestAnswer
<1>2. h \in Indices /\ routes[h] \in Routes
  BY <1>1 DEF Accepted, Inv, TypeOK, TableTypeOK, Indices
<1>3. PICK pre \in StaticPrefixes : routes[h] = StaticRoute(pre)
  BY <1>2, RouterAssumption DEF Routes, RouterAssumption
<1>4. pre \in Seq(Text) /\ "path" \in Text /\ RequestPaths \subseteq Seq(Text) /\ "" \in Text
  BY RouterAssumption DEF RouterAssumption
<1>5. p \in Seq(Text)
  <2>1. p \in RequestPaths \cup {<<"">>}
    BY DEF Inv, TypeOK, RequestStates
  <2> QED
    BY <1>4, <2>1, SingletonType
<1> DEFINE pat == StaticRoute(pre).pattern
<1>8. Len(pre) \in Nat
  BY ONLY <1>4, SeqIsFunction
<1>11. /\ pat \in Seq(Elements) /\ Len(pat) = Len(pre) + 1 /\ EndsInRest(pat)
       /\ \A k \in 1..Len(pre) : pat[k][1] = "lit" /\ pat[k][2] = pre[k]
  BY <1>4, StaticShape
<1> HIDE DEF pat
<1>13. strip_prefix(p) = p
  BY DEF strip_prefix
<1>14. Extract(pat, p)
  BY <1>1, <1>3, <1>13 DEF Accepted, match_fn, pat
<1>15. Len(p) >= Len(pre) /\ \A i \in 1..Len(pre) : ElementAccepts(pat[i], p[i])
  BY <1>8, <1>11, <1>14 DEF Extract
<1>16. \A i \in 1..Len(pre) : pre[i] = p[i]
  BY <1>11, <1>15 DEF ElementAccepts
<1>17. req[r].file = SubSeq(p, Len(pre) + 1, Len(p))
  BY <1>1, <1>3, <1>11 DEF StaticFile, pat
<1> QED
  BY <1>3, <1>4, <1>5, <1>15, <1>16, <1>17, PrefixAndRest
=============================================================================
