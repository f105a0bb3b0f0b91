-------------------------------- MODULE Paths --------------------------------
(***************************************************************************)
(* Paths and path patterns: what `path!` patterns accept                   *)
(* (typeway-core/src/path.rs), how the router turns them into matchit      *)
(* patterns (typeway-server/src/router.rs) and what the matchit trie does  *)
(* with those.                                                             *)
(*                                                                         *)
(* A request path is the sequence of its parts between slashes, so         *)
(* "/users/42" is <<"users", "42">>, "/users/" is <<"users", "">> and "/"  *)
(* is <<"">>.  A pattern is a sequence of elements <<kind, arg>>.          *)
(***************************************************************************)
EXTENDS Naturals, Sequences

CONSTANT Parses(_, _)  (* Parses(T, s): T::from_str(s) succeeds            *)

Lit(s) == <<"lit", s>>
Capture(T) == <<"cap", T>>
CaptureRest(name) == <<"rest", name>>

EndsInRest(pat) == pat # <<>> /\ pat[Len(pat)][1] = "rest"

(* The segments match functions and extractors work on.                    *)
Segments(p) == SelectSeq(p, LAMBDA s : s # "")

ElementAccepts(e, s) ==
  \/ e[1] = "lit" /\ e[2] = s
  \/ e[1] = "cap" /\ Parses(e[2], s)

(* ExtractPath::extract returns Some: the literals are equal, the captures *)
(* parse, and only a rest capture takes a variable number of segments.     *)
Extract(pat, segs) ==
  LET n == IF EndsInRest(pat) THEN Len(pat) - 1 ELSE Len(pat)
  IN  /\ IF EndsInRest(pat) THEN Len(segs) >= n ELSE Len(segs) = n
      /\ \A i \in 1..n : ElementAccepts(pat[i], segs[i])

(* to_matchit_pattern: the types of captures are forgotten.                *)
to_matchit_pattern(pat) ==
  [i \in 1..Len(pat) |-> IF pat[i][1] = "cap" THEN Capture("") ELSE pat[i]]

-----------------------------------------------------------------------------
(* External: the matchit trie, as the router uses it.                      *)

(* The two patterns share their first k - 1 elements.                      *)
SameBefore(a, b, k) ==
  /\ k \in 1..Len(a) /\ k \in 1..Len(b)
  /\ \A i \in 1..(k - 1) : a[i] = b[i]

(* insert refuses a pattern equal to one it holds, and two wildcards of    *)
(* which one takes the rest of the path at the same place.                 *)
Conflict(a, b) ==
  \/ a = b
  \/ \E k \in 1..Len(a) :
       /\ SameBefore(a, b, k)
       /\ a[k][1] # "lit" /\ b[k][1] # "lit"
       /\ "rest" \in {a[k][1], b[k][1]}

(* A pattern matches a path: `{x}` takes one non-empty part, `{*x}` the    *)
(* rest of the path if it is not empty.                                    *)
ShapeMatches(a, p) ==
  LET n == IF EndsInRest(a) THEN Len(a) - 1 ELSE Len(a)
  IN  /\ IF EndsInRest(a)
           THEN Len(p) > n /\ SubSeq(p, n + 1, Len(p)) # <<"">>
           ELSE Len(p) = n
      /\ \A i \in 1..n : \/ a[i][1] = "lit" /\ a[i][2] = p[i]
                         \/ a[i][1] = "cap" /\ p[i] # ""

(* A literal takes precedence over a wildcard at the first difference.     *)
Precedes(a, b) ==
  \E k \in 1..Len(a) : SameBefore(a, b, k) /\ a[k][1] = "lit" /\ b[k][1] # "lit"
=============================================================================
