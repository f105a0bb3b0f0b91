----------------------------- MODULE MCApiTools -----------------------------
(* APIs, files and headers around the cases the tools tell apart.          *)
EXTENDS ApiTools

MCParsesAs(T, s) == T = "String" \/ s \in {"7"}

(* Types and endpoints.                                                    *)
Fd(name, ty, tag) == [name |-> name, ty |-> ty, tag |-> tag]
Num32 == Scalar("uint32")
User == Struct("User", <<Fd("id", Num32, <<>>), Fd("tags", VecOf(Scalar("string")), <<7>>),
                         Fd("at", MapOf(Scalar("string"), Num32), <<>>)>>)
NewUser == Struct("NewUser", <<Fd("name", OptionOf(Scalar("string")), <<2>>), Fd("age", Num32, <<1>>)>>)
Role == SimpleEnum("Role", <<[name |-> "A", tag |-> <<>>], [name |-> "B", tag |-> <<5>>]>>)
Contact == OneofEnum("Contact", <<Fd("mail", Scalar("string"), <<>>), Fd("phone", Num32, <<>>)>>)
Clash == Struct("Clash", <<Fd("a", Num32, <<2>>), Fd("b", Num32, <<>>)>>)
Unit == Scalar(EmptyName)

Users == Word("User", TRUE)
Posts == Word("Post", TRUE)
Cap(T) == [kind |-> "cap", stem |-> T, plural |-> FALSE]
Rest == [kind |-> "rest", stem |-> "rest", plural |-> FALSE]
Ep(method, path, req, res, wrap) == [method |-> method, path |-> path, req |-> req, res |-> res, wrap |-> wrap]
Id == <<Users, Cap("u32")>>

Endpoints ==
  {Ep("GET", p, <<>>, r, "none") : p \in {<<Users>>, Id}, r \in {VecOf(User)}}
  \union {Ep("GET", Id, <<>>, r, "none") : r \in {User, Role, Contact, MapOf(Num32, Num32), VecOf(Num32), Unit}}
  \union {Ep(m, Id, <<b>>, User, "none") : m \in {"PUT", "PATCH"}, b \in {NewUser, VecOf(NewUser), Contact, Unit, Clash}}
  \union {Ep("POST", <<Users>>, <<NewUser>>, User, w) : w \in {"none", "client", "server", "bidi"}}
  \union {Ep("GET", <<Posts>>, <<>>, Contact, "server"), Ep("GET", Id \o <<Posts>>, <<>>, Contact, "none"),
          Ep("DELETE", Id \o <<Posts, Cap("String")>>, <<>>, Unit, "none"), Ep("HEAD", <<>>, <<>>, Unit, "none")}
MCApis == {[part |-> "api", api |-> a] : a \in {<<e>> : e \in Endpoints} \union (Endpoints \X Endpoints)}

(* A message written by hand.                                              *)
Line(name, type, tag) == to_proto_line(Plain1(name, type, tag))
Items ==
  {Line("a", "uint32", 1), Line("b", "string", 3), Line("z", "sint32", 4), Other, Blank,
   to_proto_line(Field("m", "map", 5, FALSE, FALSE, <<"string", "uint32">>)),
   to_proto_line(Field("r", "User", 6, TRUE, FALSE, <<>>)),
   [l |-> "message", name |-> "In", items |-> <<Line("c", "bool", 1)>>],
   [l |-> "enum", name |-> "E", items |-> <<VariantLine("A", 0)>>],
   [l |-> "oneof", name |-> "o", items |-> <<Line("d", "string", 8), Line("e", "bool", 9)>>]}
MCHand == {[part |-> "hand", message |-> [name |-> "M", items |-> s]] :
             s \in UNION {[1..n -> Items] : n \in 0..3}}

(* Two versions of a message.                                              *)
OldFields == {<<Plain1("a", "uint32", 1), Field("b", "int32", 2, TRUE, FALSE, <<>>)>>,
              <<Plain1("a", "string", 1), Plain1("b", "bool", 2)>>}
NewField == {Plain1(n, t, g) : n \in {"a", "b"}, t \in {"uint32", "string"}, g \in {1, 2}}
            \union {Field(n, "int32", 2, r, FALSE, <<>>) : n \in {"b", "c"}, r \in BOOLEAN}
            \union {Plain1("b", "bool", 2), Plain1("d", "bool", 3)}
NewFields == {s \in UNION {[1..n -> NewField] : n \in 1..3} : IsInjective(s)
                /\ \A i, j \in DOMAIN s : i # j => s[i].tag # s[j].tag /\ s[i].name # s[j].name}
MCDiffs ==
  [i \in 1..2 |->
     {[part |-> "diff", old |-> o, new |-> n, json |-> j] :
        o \in {f \in OldFields : f[1].proto_type = <<"uint32", "string">>[i]}, n \in NewFields,
        j \in IF i = 1 THEN {Obj([a |-> Num(5), b |-> Arr(<<Num(0), Num(3)>>)]), Obj([a |-> Num(0), b |-> Arr(<<>>)])}
              ELSE {Obj([a |-> Str(<<65>>), b |-> Bln(TRUE)]), Obj([a |-> Str(<<>>), b |-> Bln(TRUE)])}}]

(* Every graph of four files with at most two imports each, from the first *)
(* of which the walk starts; 5 is not on the disk.                         *)
MCImports ==
  {[part |-> "imports", imports |-> <<a, b, c, d>>] :
     a \in {<<2, 3>>, <<1, 2>>, <<5, 4, 4>>}, b, c, d \in {<<>>, <<1>>, <<2, 4>>, <<4, 3>>, <<5, 3>>}}

(* Versions of an API.                                                     *)
VPaths == {<<Users>>, Id, <<Users, Cap("String")>>, <<Users, Word("me", FALSE)>>, <<Cap("String"), Word("me", FALSE)>>,
           <<Users, Rest>>, Id \o <<Posts>>}
Note == Struct("Note", <<Fd("n", Num32, <<>>)>>)
VEps == {Ep("GET", p, <<>>, Note, "none") : p \in VPaths}
NewEps == {Ep("GET", Id, <<>>, Unit, "none"), Ep("PUT", Id, <<Note>>, Unit, "none")}
Olds == {<<e, f>> : e, f \in VEps}
Change(kind, new, old, first) == [kind |-> kind, new |-> new, old |-> old, first |-> first]
Adds(o) == {Change("added", e, o[1], f) : e \in VEps \union NewEps, f \in BOOLEAN}
Changes(o) == {<<>>} \union {<<c>> : c \in Adds(o)}
              \union {<<Change(k, e, o[1], FALSE)>> : k \in {"replaced", "deprecated"}, e \in NewEps}
              \union {<<Change("removed", o[1], o[1], FALSE)>> \o t :
                        t \in {<<>>} \union {<<c>> : c \in {d \in Adds(o) : d.new \in Range(o)}}}
MCVersions ==
  UNION {{[part |-> "versions", old |-> o, changes |-> c, method |-> "GET", path |-> p] :
            c \in Changes(o), p \in {<<"Users", "7">>, <<"Users", "me">>}} : o \in Olds}

(* Types, and APIs with their docs.                                        *)
Vt(name, kind, types) == Variant(name, kind, [i \in DOMAIN types |-> Fd(<<"x", "y">>[i], types[i], <<>>)])
Text == Scalar("string")
Tagging == {"external", "internal", "adjacent", "untagged"}
Sums == {TaggedEnum(g, <<Vt("A", "unit", <<>>), Vt("B", "named", <<Num32, VecOf(Text)>>),
                         Vt("C", "newtype", <<NewUser>>)>>) : g \in Tagging}
        \union {TaggedEnum(g, <<Vt("D", "tuple", p), Vt("E", "newtype", <<Text>>), Vt("F", "unit", <<>>)>>) :
                  g \in Tagging \ {"internal"}, p \in {<<Num32, Num32>>, <<Text, Num32>>}}
MCTypes == Sums \union {VecOf(s) : s \in Sums} \union {User, NewUser, Role, Unit, Scalar("int64"), OptionOf(User),
             Struct("S", <<Fd("e", TaggedEnum("adjacent", <<Vt("A", "newtype", <<Scalar("bool")>>)>>), <<>>)>>)}
MCSchemas == {[part |-> "schema", type |-> t, k |-> k] : t \in MCTypes, k \in 0..5}

Op(method, path, req, res, wraps) == [method |-> method, path |-> path, req |-> req, res |-> res, wraps |-> wraps]
ASum == TaggedEnum("adjacent", <<Vt("A", "newtype", <<Num32>>), Vt("B", "unit", <<>>)>>)
OEps == {Op("GET", <<Users>>, <<>>, VecOf(Scalar("int64")), {}), Op("GET", Id, <<>>, User, {"Protected"}),
         Op("GET", <<Users, Cap("String")>>, <<>>, Role, {}), Op("POST", <<Users>>, <<NewUser>>, ASum, {"Protected"}),
         Op("PUT", Id, <<Num32>>, VecOf(Text), {"Deprecated"}), Op("DELETE", Id \o <<Posts, Cap("u32")>>, <<>>, Unit, {}),
         Op("POST", Id, <<>>, OptionOf(Scalar("double")), {}), Op("HEAD", <<Users>>, <<>>, Scalar("bool"), {}),
         Op("GET", <<Cap("String")>>, <<>>, Num32, {})}
Doc(id, summary, tags) == [operation_id |-> id, summary |-> summary, tags |-> tags]
MCOpenApis ==
  {[part |-> "openapi", api |-> a, docs |-> d, method |-> r[1], path |-> r[2]] :
     a \in {s \in OEps \X OEps \X OEps : s[1] # s[2]},
     d \in {<<Doc("a", "A", <<>>), Doc("b", "", <<"t">>), Doc("c", "C", <<>>)>>,
            <<Doc("a", "", <<>>), Doc("a", "A", <<>>), Doc("b", "B", <<>>)>>},
     r \in {<<"GET", <<"Users", "7">>>>, <<"POST", <<"Users">>>>, <<"GET", <<"docs">>>>}}

(* Accept headers.                                                         *)
Formats == {<<"application", "json">>, <<"text", "plain">>, <<"text", "csv">>}
Ranges == Formats \union {<<Star, Star>>, <<"text", Star>>, <<"image", "png">>}
MCAccepts ==
  {[part |-> "accept", accept |-> a, formats |-> f, renders |-> r] :
     a \in UNION {[1..n -> [range : Ranges, q : {0, 5, 10}]] : n \in 0..2},
     f \in {s \in UNION {[1..n -> Formats] : n \in 1..3} : IsInjective(s)},
     r \in {Formats, Formats \ {<<"application", "json">>}}}

MCTasks == <<MCApis, MCHand, MCImports, MCVersions, MCSchemas, MCOpenApis, MCAccepts>> \o MCDiffs
=============================================================================
