------------------------------ MODULE MCRouter ------------------------------
(* Instances of Router for TLC.                                            *)
EXTENDS Router

CONSTANTS r1, Db, none

MCText == STRING

(* u32 parses "42"; String parses everything.                              *)
MCParses(T, s) == T = "String" \/ s = "42"

E(m, pat) == [kind |-> "endpoint", method |-> m, pattern |-> pat, path |-> pat,
              state |-> none]

Users == <<Lit("users")>>
UserById == <<Lit("users"), Capture("u32")>>
UserByName == <<Lit("users"), Capture("String")>>
AnyMe == <<Capture("String"), Lit("me")>>
Everything == <<CaptureRest("rest")>>

(* Equal, overlapping and conflicting patterns; one handler takes State<Db>.*)
MCEndpoints ==
  {E("GET", UserById), E("GET", UserByName)} \cup
  {[E("POST", Users) EXCEPT !.state = Db]}

MCPaths == {<<"users">>, <<"users", "42">>, <<"users", "me">>, <<"users", "42", "x">>,
            <<"api", "users">>, <<"api", "users", "42">>, <<"api">>}

(* A static directory beside and below the endpoints; a nest prefix.       *)
StaticDirs == {<<"users">>}
NestPrefixes == {<<"api">>, <<>>}

(* Overlapping patterns of one method.                                     *)
OverlapEndpoints == {E("GET", UserById), E("GET", AnyMe), E("GET", Everything)}
=============================================================================
