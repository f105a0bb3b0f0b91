----------------------------- MODULE ProtoCodec -----------------------------
(***************************************************************************)
(* typeway-grpc/src/proto_codec.rs: JSON objects to protobuf bytes and     *)
(* back by field definitions known at run time.                            *)
(*                                                                         *)
(* A JSON value is a record [t, v]: a number, a boolean, a string (its     *)
(* bytes), an array, an object (a function from names) or null.  A field   *)
(* definition is [name, proto_type, tag, repeated, is_map, nested], where  *)
(* nested is <<>> without nested_fields and <<fields>> with them.          *)
(***************************************************************************)
EXTENDS TypewayCodec, Functions

Num(n) == [t |-> "num", v |-> n]
Bln(b) == [t |-> "bool", v |-> b]
Str(s) == [t |-> "str", v |-> s]
Arr(s) == [t |-> "arr", v |-> s]
Obj(o) == [t |-> "obj", v |-> o]
Null == [t |-> "null", v |-> 0]
Empty == [x \in {} |-> Null]
Same(a, b) == a.t = b.t /\ a.v = b.v

wire_type_for(pt) ==
  CASE pt \in {"int32", "int64", "uint32", "uint64", "sint32", "sint64", "bool", "enum"} -> 0
    [] pt \in {"double", "fixed64", "sfixed64"} -> 1
    [] pt \in {"float", "fixed32", "sfixed32"} -> 5
    [] OTHER -> 2

is_packable_type(pt) == wire_type_for(pt) # 2

is_proto3_default(j, pt) ==
  CASE pt = "bool" -> Same(j, Bln(FALSE))
    [] pt \in {"string", "bytes"} -> Same(j, Str(<<>>))
    [] is_packable_type(pt) -> Same(j, Num(0))
    [] OTHER -> FALSE

-----------------------------------------------------------------------------
(* The base64 of the module.  A character is its number in the alphabet;   *)
(* 64 is the padding.  Characters outside it are 65 and more.              *)
Pad == 64

base64_encode(bytes) ==
  LET n == Len(bytes)
      B(i) == IF i <= n THEN bytes[i] ELSE 0
      Chunk(c) ==
        LET b0 == B(3 * c + 1)  b1 == B(3 * c + 2)  b2 == B(3 * c + 3)
            left == n - 3 * c
        IN <<b0 \div 4, (b0 % 4) * 16 + b1 \div 16,
             IF left > 1 THEN (b1 % 16) * 4 + b2 \div 64 ELSE Pad,
             IF left > 2 THEN b2 % 64 ELSE Pad>>
  IN FlattenSeq([c \in 1..((n + 2) \div 3) |-> Chunk(c - 1)])

(* trim_end_matches('='), then six bits per character; bits left over at   *)
(* the end are dropped.                                                    *)
base64_decode(s) ==
  LET ends == {i \in DOMAIN s : s[i] # Pad}
      t == SubSeq(s, 1, IF ends = {} THEN 0 ELSE Max(ends))
      Bit(k) == (t[(k \div 6) + 1] \div 2 ^ (5 - (k % 6))) % 2
  IN IF \E i \in DOMAIN t : t[i] >= Pad THEN Fails("DecodeError")
     ELSE Okay([b \in 1..((Len(t) * 6) \div 8) |->
                  MapThenSumSet(LAMBDA k : Bit(8 * (b - 1) + k) * 2 ^ (7 - k), 0..7)], 0)

-----------------------------------------------------------------------------
(* JSON to binary                                                          *)

(* json_as_u64 and json_as_i64: a number, wrapped to the word.             *)
json_to_varint(j, pt) ==
  IF pt = "bool" THEN Okay(IF Same(j, Bln(TRUE)) THEN 1 ELSE 0, 0)
  ELSE IF j.t # "num" THEN Fails("EncodingFailed")
  ELSE CASE pt = "sint32" -> Okay(tw_zigzag_encode(AsType(AsU64(j.v), "i32")), 0)
         [] pt = "sint64" -> Okay(tw_zigzag_encode(AsType(AsU64(j.v), "i64")), 0)
         [] OTHER -> Okay(AsU64(j.v), 0)

(* to_le_bytes of a number, two bytes of it being enough for the word.     *)
LeBytes(n, w) == [i \in 1..w |-> IF i = 1 THEN n % 256 ELSE IF i = 2 THEN (n \div 256) % 256 ELSE 0]

RECURSIVE json_to_proto_binary(_, _)

Tagged(f, r) ==
  Map(r, LAMBDA bytes : tw_encode_varint(AsU64(f.tag * 8 + wire_type_for(f.proto_type))) \o bytes)

(* External: serde_json's text of a value, of those a fallback meets here: *)
(* {}, null and numbers of one digit.                                      *)
JsonText(j) ==
  CASE j.t = "obj" -> <<123, 125>>
    [] j.t = "null" -> <<110, 117, 108, 108>>
    [] OTHER -> <<48 + j.v>>
from_slice(bytes) ==
  CASE bytes = <<123, 125>> -> Okay(Obj(Empty), 0)
    [] bytes = <<110, 117, 108, 108>> -> Okay(Null, 0)
    [] Len(bytes) = 1 /\ bytes[1] \in 48..57 -> Okay(Num(bytes[1] - 48), 0)
    [] OTHER -> Fails("Json")

encode_field(f, j) ==
  LET pt == f.proto_type
      Fixed(w) == IF j.t # "num" THEN Fails("EncodingFailed")
                  ELSE Okay(LeBytes(IF pt \in {"fixed32", "sfixed32"} THEN AsU64(j.v) % U32
                                    ELSE AsU64(j.v), w), 0)
  IN Tagged(f,
       CASE wire_type_for(pt) = 0 -> Map(json_to_varint(j, pt), tw_encode_varint)
         [] wire_type_for(pt) = 1 -> Fixed(8)
         [] wire_type_for(pt) = 5 -> Fixed(4)
         [] pt = "string" -> IF j.t = "str" THEN Okay(Delimited(j.v), 0) ELSE Fails("EncodingFailed")
         [] pt = "bytes" ->
              IF j.t # "str" THEN Fails("EncodingFailed")
              ELSE LET d == base64_decode(j.v)
                   IN Okay(Delimited(IF d.ok THEN d.value ELSE j.v), 0)
         [] OTHER -> IF f.nested = <<>> THEN Okay(Delimited(JsonText(j)), 0)
                     ELSE Map(json_to_proto_binary(j, f.nested[1]), Delimited))

(* All or the first failure.                                               *)
RECURSIVE Gather(_)
Gather(rs) ==
  IF rs = <<>> THEN Okay(<<>>, 0)
  ELSE IF ~Head(rs).ok THEN Head(rs)
  ELSE Map(Gather(Tail(rs)), LAMBDA bytes : Head(rs).value \o bytes)

(* A map entry is a message of its key, 1, and its value, 2.               *)
MapEntry(f, k, j) ==
  LET Part(pt, tag) == [name |-> "", proto_type |-> pt, tag |-> tag, repeated |-> FALSE,
                        is_map |-> FALSE, nested |-> <<>>]
  IN Map(Gather(<<encode_field(Part("string", 1), Str(k)), encode_field(Part(f.proto_type, 2), j)>>),
         LAMBDA bytes : tw_encode_varint(f.tag * 8 + 2) \o Delimited(bytes))

(* Mutant: a default value inside an array is left out as well.            *)
FieldBytes_SkipItems(f, j) ==
  IF f.repeated
  THEN IF j.t # "arr" THEN Okay(<<>>, 0)
       ELSE Gather([i \in DOMAIN j.v |-> IF is_proto3_default(j.v[i], f.proto_type)
                                         THEN Okay(<<>>, 0) ELSE encode_field(f, j.v[i])])
  ELSE IF is_proto3_default(j, f.proto_type) THEN Okay(<<>>, 0) ELSE encode_field(f, j)

FieldBytes(f, j) ==
  IF f.is_map
  THEN IF j.t # "obj" THEN Okay(<<>>, 0)
       ELSE LET keys == SetToSeq(DOMAIN j.v)
            IN Gather([i \in DOMAIN keys |-> MapEntry(f, keys[i], j.v[keys[i]])])
  ELSE IF f.repeated
  THEN IF j.t # "arr" THEN Okay(<<>>, 0)
       ELSE Gather([i \in DOMAIN j.v |-> encode_field(f, j.v[i])])
  ELSE IF is_proto3_default(j, f.proto_type) THEN Okay(<<>>, 0) ELSE encode_field(f, j)

(* Missing and null fields are left out, and what is not an object is an   *)
(* empty message.                                                          *)
json_to_proto_binary(json, fields) ==
  IF json.t # "obj" THEN Okay(<<>>, 0)
  ELSE LET present == SelectSeq(fields, LAMBDA f : f.name \in DOMAIN json.v /\ json.v[f.name].t # "null")
       IN Gather([i \in DOMAIN present |-> FieldBytes(present[i], json.v[present[i].name])])

-----------------------------------------------------------------------------
(* Binary to JSON                                                          *)

(* from_le_bytes; a float is the number it holds.                          *)
LeNumber(bytes, pt) ==
  LET n == bytes[1] + 256 * bytes[2]
  IN IF pt \in {"fixed64", "fixed32"} THEN n
     ELSE AsType(n, IF pt = "sfixed32" THEN "i32" ELSE "i64")

(* A raw value: its wire type with a number or with bytes.                 *)
decode_wire_value(bytes, wt) ==
  CASE wt = 0 -> tw_decode_varint(bytes)
    [] wt \in {1, 5} -> LET w == IF wt = 1 THEN 8 ELSE 4
                        IN IF Len(bytes) < w THEN Fails("UnexpectedEof")
                           ELSE Okay(Slice(bytes, 0, w), w)
    [] wt = 2 -> TakeDelimited(bytes)
    [] OTHER -> Fails("UnknownWireType")

RECURSIVE proto_binary_to_json(_, _)

(* A value of another wire type than the type's own is refused, except     *)
(* that anything length-delimited passes for a message.                    *)
wire_value_to_json(wt, v, pt, nested) ==
  CASE wt = 0 /\ pt \in {"uint32", "uint64", "enum"} -> Okay(Num(v), 0)
    [] wt = 0 /\ pt = "int32" -> Okay(Num(AsType(v, "i32")), 0)
    [] wt = 0 /\ pt = "int64" -> Okay(Num(AsType(v, "i64")), 0)
    [] wt = 0 /\ pt = "sint32" -> Okay(Num(AsType(AsU64(tw_zigzag_decode(v)), "i32")), 0)
    [] wt = 0 /\ pt = "sint64" -> Okay(Num(tw_zigzag_decode(v)), 0)
    [] wt = 0 /\ pt = "bool" -> Okay(Bln(v # 0), 0)
    [] wt \in {1, 5} /\ wt = wire_type_for(pt) -> Okay(Num(LeNumber(v, pt)), 0)
    [] wt = 2 /\ pt = "string" -> IF ValidUtf8(v) THEN Okay(Str(v), 0) ELSE Fails("ValueConversion")
    [] wt = 2 /\ pt = "bytes" -> Okay(Str(base64_encode(v)), 0)
    [] wt = 2 /\ pt \notin {"string", "bytes"} ->
         IF nested # <<>> THEN proto_binary_to_json(v, nested[1])
         ELSE Okay(IF from_slice(v).ok THEN from_slice(v).value ELSE Str(base64_encode(v)), 0)
    [] OTHER -> Fails("ValueConversion")

RECURSIVE unpack_scalars(_, _)
unpack_scalars(bytes, pt) ==
  IF bytes = <<>> THEN Okay(<<>>, 0)
  ELSE Bind(decode_wire_value(bytes, wire_type_for(pt)), LAMBDA raw :
         Bind(wire_value_to_json(wire_type_for(pt), raw.value, pt, <<>>), LAMBDA v :
           Map(unpack_scalars(From(bytes, raw.used), pt), LAMBDA r : <<v.value>> \o r)))

(* The object's new entry for a field: repeated fields collect, others are *)
(* replaced.                                                               *)
Insert(obj, f, vals) ==
  IF f.repeated
  THEN (f.name :> Arr((IF f.name \in DOMAIN obj THEN obj[f.name].v ELSE <<>>) \o vals)) @@ obj
  ELSE (f.name :> vals[1]) @@ obj

RECURSIVE DecodeObject(_, _, _)
DecodeObject(fields, bytes, obj) ==
  IF bytes = <<>> THEN Okay(Obj(obj), 0)
  ELSE Bind(tw_decode_varint(bytes), LAMBDA head :
         LET wt == head.value % 8
             known == {i \in DOMAIN fields : fields[i].tag = (head.value \div 8) % U32}
             f == fields[CHOOSE i \in known : TRUE]
             Values(v) == IF f.repeated /\ wt = 2 /\ is_packable_type(f.proto_type)
                          THEN unpack_scalars(v, f.proto_type)
                          ELSE Map(wire_value_to_json(wt, v, f.proto_type, f.nested), LAMBDA j : <<j>>)
         IN Bind(decode_wire_value(From(bytes, head.used), wt), LAMBDA raw :
              LET left == From(bytes, head.used + raw.used)
              IN IF known = {} THEN DecodeObject(fields, left, obj)
                 ELSE Bind(Values(raw.value), LAMBDA vals :
                        DecodeObject(fields, left, Insert(obj, f, vals.value)))))

proto_binary_to_json(bytes, fields) == DecodeObject(fields, bytes, Empty)

-----------------------------------------------------------------------------
(* typeway_codec_adapter.rs: the same bytes by way of the derived codec.   *)
(* External: what serde makes of a message, here the object of its fields. *)
RECURSIVE ToJson(_, _)
ToJson(kind, v) ==
  CASE kind.k = "Varint" -> Num(v)
    [] kind.k = "Bool" -> Bln(v)
    [] kind.k = "LenString" -> Str(v)
    [] kind.k = "Message" -> Obj([n \in {kind.schema[i].name : i \in DOMAIN kind.schema} |->
                                    LET i == CHOOSE j \in DOMAIN kind.schema : kind.schema[j].name = n
                                    IN ToJson(kind.schema[i].kind, v[i])])
    [] kind.k \in {"Optional", "OptionalMessage"} -> IF v = <<>> THEN Null ELSE ToJson(kind.of, v[1])
    [] OTHER -> Arr([i \in DOMAIN v |-> ToJson(kind.of, v[i])])

adapter_decode(schema, bytes) ==
  IF bytes = <<>> THEN Okay(Obj(Empty), 0)
  ELSE LET m == typeway_decode(schema, bytes)
       IN Map(m, LAMBDA v : ToJson(Message(schema), v))
=============================================================================
