--------------------------- MODULE MCWireExchange ---------------------------
(* Schemas, values and bytes around every boundary of the codecs.          *)
EXTENDS WireExchange

F(n, tag, kind) == [name |-> n, tag |-> tag, kind |-> kind]
Inner == <<F("n", 1, Varint("u32")), F("s", 2, LenString)>>

Values(kind) ==
  CASE kind.k = "Varint" -> IF kind.ty \in {"u32", "u64"} THEN {0, 1, 127, 128, 255} ELSE {0, 1, -1, -128, 127}
    [] kind.k = "Bool" -> BOOLEAN
    [] kind.k = "Fixed32" -> {Zeros(4), NegZero(4), <<1, 0, 128, 63>>}
    [] kind.k = "Fixed64" -> {Zeros(8), NegZero(8), <<9, 0, 0, 0, 0, 0, 240, 63>>}
    [] kind.k \in {"LenString", "LenBytes"} -> {<<>>, <<65>>, <<195, 169>>}
    [] kind.k = "Message" -> {<<0, <<>>>>, <<200, <<66>>>>}

Plains == <<Varint("u32"), Varint("u64"), Varint("i32"), Varint("i64"), Bool, LenString, Message(Inner)>>
Others == <<Fixed32, Fixed64, LenBytes>>
Map3(kinds) == kinds \o [i \in DOMAIN kinds |-> Optional(kinds[i])] \o [i \in DOMAIN kinds |-> Repeated(kinds[i])]
JsonKinds == Map3(Plains)
FieldKinds == JsonKinds \o Map3(Others)

FieldValues(kind) ==
  CASE kind.k \in {"Optional", "OptionalMessage"} -> {<<>>} \union {<<v>> : v \in Values(kind.of)}
    [] kind.k \in {"Repeated", "RepeatedMessage"} ->
         {<<>>} \union {<<v>> : v \in Values(kind.of)} \union {<<v, w>> : v, w \in Values(kind.of)}
    [] OTHER -> Values(kind)

Tags == {1, 15, 16, 200}

(* One field under test and a neighbour after it, which shows when the     *)
(* field leaves the reader at the wrong place.                             *)
Neighbour == F("z", 3, Varint("u32"))
Msg(writer, reader, schema, rschema, value) ==
  [part |-> "message", writer |-> writer, reader |-> reader, schema |-> schema,
   rschema |-> rschema, value |-> value]
Pair(tag, kind) == <<F("a", tag, kind), Neighbour>>

MCMessages ==
  [i \in DOMAIN FieldKinds |->
     LET k == FieldKinds[i]
     IN {Msg("derived", "derived", Pair(t, k), r, <<v, 7>>) :
           t \in Tags, v \in FieldValues(k),
           r \in {Pair(u, k) : u \in Tags} \union {<<Neighbour>>, <<F("new", 4, Bool)>> \o Pair(15, k)}}]
  \o
  [i \in DOMAIN JsonKinds |->
     LET k == JsonKinds[i]
     IN UNION {{Msg(w[1], w[2], Pair(t, k), Pair(t, k), <<v, 7>>) :
                  v \in FieldValues(k), w \in {<<"derived", "json">>, <<"json", "derived">>, <<"json", "json">>, <<"json", "adapter">>}} :
               t \in {1, 16}}]

RawBytes == {0, 1, 8, 10, 13, 127, 128, 200, 255}
RawSchemas == {<<F("a", 1, k)>> : k \in {Varint("i32"), Bool, LenString, Fixed32, Optional(Varint("u64")),
                                         Repeated(Varint("u32")), Repeated(Fixed32), Message(Inner), Repeated(LenString)}}
(* A length at the end of the word: packed_end wraps.                      *)
LongLengths == {<<10>> \o tw_encode_varint(U64 - n) \o <<1, 2>> : n \in 1..6}
MCRaws ==
  {[part |-> "raw", reader |-> "derived", rschema |-> s, bytes |-> b] :
     s \in RawSchemas, b \in UNION {[1..n -> RawBytes] : n \in 0..3} \union
                             ({<<t, 2, c, d>> : t \in {10, 8}, c, d \in RawBytes}
                              \union {<<10, 1, c, d>> : c, d \in {7, 24, 128, 200}} \union LongLengths)}

Payloads == {<<>>, <<5>>, <<0, 0, 0, 0, 0, 128>>}
MCBodies ==
  {[part |-> "frames", messages |-> m, status |-> s] :
     m \in UNION {[1..n -> Payloads] : n \in 0..3}, s \in {<<>>, <<0>>, <<13>>}}

MCPackings ==
  {[part |-> "packed", message |-> m, accept |-> a, encoding |-> e] :
     m \in Payloads, e \in Algorithms \union {None, "br"},
     a \in UNION {[1..n -> Algorithms \union {"br"}] : n \in 0..2}}

Texts == {65, 32, 37, 52, 10, 195, 169}
MCStatuses ==
  {[part |-> "status", form |-> f, status |-> [code |-> c, message |-> m, details |-> d]] :
     f \in {"escaped", "dispatch", "rich", "framed"}, c \in {5, 13}, d \in {<<>>, <<"BadRequest">>},
     m \in {t \in UNION {[1..n -> Texts] : n \in 0..3} : ValidUtf8(t)}}

Def(n, pt, tag, rep) ==
  [name |-> n, proto_type |-> pt, tag |-> tag, repeated |-> rep, is_map |-> FALSE, nested |-> <<>>]
Svc == [methods |-> [get |-> [request |-> "Req", response |-> "Res"],
                     del |-> [request |-> "Req", response |-> EmptyType]],
        messages |-> [Req |-> <<Def("id", "sint32", 1, FALSE), Def("at", "sfixed64", 2, FALSE)>>,
                      Res |-> <<Def("req", "Req", 1, FALSE), Def("ids", "int64", 20, TRUE),
                                Def("raw", "bytes", 3, FALSE), Def("any", "Other", 4, FALSE)>>]]
Obj2(a, b) == Obj([id |-> a, at |-> b])
MCRequests ==
  {[part |-> "service", svc |-> Svc, path |-> p, direction |-> "request", json |-> Obj2(Num(a), Num(b))] :
     p \in {"get", "del", "nope"}, a \in {0, 1, -1, 127, -128}, b \in {0, -1, 300, -32768}}
MCResponses ==
  [i \in 1..3 |->
     {[part |-> "service", svc |-> Svc, path |-> p, direction |-> "response",
       json |-> Obj([ids |-> Arr(s), raw |-> Str(r), any |-> <<Null, Obj(Empty), Num(7)>>[i]])] :
        p \in {"get", "del"}, s \in {<<>>, <<Num(0)>>, <<Num(0), Num(-1)>>, <<Num(300), Num(0)>>},
        r \in {<<>>, <<16, 16, Pad, Pad>>, <<16, 20, 9, 3>>}}]

MCAnswers ==
  {[part |-> "web", ct |-> c,
    answer |-> [ct |-> "application/grpc", header |-> h, status |-> s, frames |-> m, breaks |-> b,
                body |-> FramesOf(m)]] :
     c \in WebTypes \union {"application/grpc"}, s \in {0, 13}, h \in {<<>>, <<0>>, <<13>>},
     m \in UNION {[1..n -> Payloads] : n \in 0..2}, b \in BOOLEAN}
MCWebAnswers == {i \in MCAnswers : i.answer.header \in {<<>>, <<i.answer.status>>}}

OneofSchema == <<F("a", 1, Varint("i32")), F("b", 2, LenString), F("c", 20, Bool), F("d", 4, Message(Inner))>>
MCEnums ==
  {[part |-> "variant", form |-> "enum", tags |-> <<0, 1, 200>>, rtags |-> r, variant |-> v] :
     r \in {<<0, 1, 200>>, <<0, 1>>, <<1, 0, 200>>}, v \in 1..3}
MCOneofs ==
  [n \in DOMAIN OneofSchema |->
     {[part |-> "variant", form |-> "oneof", schema |-> OneofSchema, rschema |-> r, variant |-> n, value |-> v] :
        v \in Values(OneofSchema[n].kind), r \in {OneofSchema, SubSeq(OneofSchema, 1, 2)}}]

MCFamilies == MCMessages \o MCOneofs \o MCResponses
              \o <<MCRequests, MCRaws, MCBodies, MCPackings, MCStatuses, MCWebAnswers, MCEnums>>
=============================================================================
