---------------------------- MODULE WireExchange ----------------------------
(***************************************************************************)
(* Messages on the wire: the codecs of TypewayCodec and ProtoCodec and the *)
(* transcoder of a service against each other, next to what Transport puts *)
(* around a message.  The items of the further parts are:                  *)
(*   message  a message of `schema`, written by the derived codec or from  *)
(*            JSON, read by either, or by the adapter that makes JSON of   *)
(*            what the derived codec read, under `rschema`;                *)
(*   raw      bytes nobody wrote, read under `schema`;                     *)
(*   service  a JSON body through the transcoder of a service;             *)
(*   variant  a enum or oneof value.                                       *)
(***************************************************************************)
EXTENDS Transcoder, Transport

(* The field definitions of a schema, as the generated service description *)
(* has them.                                                               *)
ProtoType(kind) ==
  CASE kind.k = "Varint" -> [u32 |-> "uint32", u64 |-> "uint64", i32 |-> "int32", i64 |-> "int64"][kind.ty]
    [] kind.k = "Bool" -> "bool"
    [] kind.k = "LenString" -> "string"
    [] kind.k = "LenBytes" -> "bytes"
    [] OTHER -> "Nested"

RECURSIVE FieldDefs(_)
FieldDefs(schema) ==
  [i \in DOMAIN schema |->
     LET kind == schema[i].kind
         inner == IF kind.k \in {"Optional", "OptionalMessage", "Repeated", "RepeatedMessage"}
                  THEN kind.of ELSE kind
     IN [name |-> schema[i].name, tag |-> schema[i].tag, proto_type |-> ProtoType(inner),
         repeated |-> kind.k \in {"Repeated", "RepeatedMessage"}, is_map |-> FALSE,
         nested |-> IF inner.k = "Message" THEN <<FieldDefs(inner.schema)>> ELSE <<>>]]

WriteDerived == item.part = "message" /\ item.writer = "derived"
                /\ Put("message", encode_to(item.schema, item.value))
WriteJson == /\ item.part = "message" /\ item.writer = "json"
             /\ LET json == ToJson(Message(item.schema), item.value)
                IN Put("message", json_to_proto_binary(json, FieldDefs(item.schema)).value)
WriteRaw == item.part = "raw" /\ Put("raw", item.bytes)
WriteService ==
  /\ item.part = "service"
  /\ Put("service", CodecEncode(item.svc, item.path, item.direction, item.json).value)
WriteEnum == item.part = "variant" /\ item.form = "enum"
             /\ Put("variant", EnumEncode(item.tags, item.variant))
WriteOneof == item.part = "variant" /\ item.form = "oneof"
              /\ Put("variant", OneofEncode(item.schema, item.variant, item.value))

ReadDerived == item.part \in {"message", "raw"} /\ item.reader = "derived"
               /\ Get(item.part, typeway_decode(item.rschema, wire.bytes))
ReadJson == item.part \in {"message", "raw"} /\ item.reader = "json"
            /\ Get(item.part, proto_binary_to_json(wire.bytes, FieldDefs(item.rschema)))
ReadAdapter == item.part = "message" /\ item.reader = "adapter"
               /\ Get("message", adapter_decode(item.rschema, wire.bytes))
ReadService == item.part = "service"
               /\ Get("service", CodecDecode(item.svc, item.path, item.direction, wire.bytes))
ReadEnum == item.part = "variant" /\ item.form = "enum" /\ Get("variant", EnumDecode(item.rtags, wire.bytes))
ReadOneof == item.part = "variant" /\ item.form = "oneof"
             /\ Get("variant", OneofDecode(item.rschema, wire.bytes, <<1, Default(item.rschema[1].kind)>>))

WireNext ==
  \/ TransportNext
  \/ WriteDerived \/ WriteJson \/ WriteRaw \/ WriteService \/ WriteEnum \/ WriteOneof
  \/ ReadDerived \/ ReadJson \/ ReadAdapter \/ ReadService \/ ReadEnum \/ ReadOneof

WireSpec == WireInit /\ [][WireNext]_wireVars

-----------------------------------------------------------------------------
(* Properties                                                              *)

(* The values the generated code cannot carry: a bool whose tag needs two  *)
(* bytes is written with a truncated tag, optional and repeated bytes are  *)
(* not read back, and minus zero is taken for the default.                 *)
RECURSIVE Carried(_, _)
Carried(schema, m) ==
  \A i \in DOMAIN schema :
    LET f == schema[i]
        v == m[i]
    IN CASE f.kind.k = "Bool" -> v => f.tag < 16
         [] f.kind.k \in {"Fixed32", "Fixed64"} -> v # NegZero(Width(f.kind))
         [] f.kind.k \in {"Optional", "Repeated"} -> v # <<>> => f.kind.of.k # "LenBytes"
         [] f.kind.k = "Message" -> Carried(f.kind.schema, v)
         [] f.kind.k \in {"OptionalMessage", "RepeatedMessage"} ->
              \A j \in DOMAIN v : Carried(f.kind.of.schema, v[j])
         [] OTHER -> TRUE

(* The type invariant: nothing is read before it is written, a result is   *)
(* an answer or a named failure, and no writer makes a varint too long.    *)
WireTypeOK ==
  /\ item.part \in {"message", "raw", "frames", "packed", "status", "service", "web", "variant", "none"}
  /\ item.part = "message" => ValidSchema(item.schema) /\ ValidSchema(item.rschema)
  /\ wire.state \in {"unwritten", "written", "cut"}
  /\ wire.state = "unwritten" => IsUnread
  /\ got.ok \in BOOLEAN
  /\ got.error \in {"VarintTooLong", "CapacityOverflow"} => item.part = "raw"
  /\ ~got.ok /\ ~IsUnread =>
       got.error \in {"UnexpectedEof", "VarintTooLong", "CapacityOverflow", "UnknownWireType", "InvalidUtf8",
                      "ValueConversion", "Io", "CompressedButNoAlgorithm", "MethodNotFound",
                      "MessageNotFound"}

(* A message the derived codec writes is read by every version of its      *)
(* schema: the fields both know arrive with their values, the others are   *)
(* skipped or keep their defaults (gen_encode_field against                *)
(* gen_decode_arm and tw_skip_wire_value).                                 *)
ReaderKeepsFields ==
  Read("message") /\ Whole /\ item.writer = "derived" /\ item.reader = "derived"
    /\ Carried(item.schema, item.value) =>
  /\ got.ok
  /\ \A i \in DOMAIN item.rschema :
       LET f == item.rschema[i]
           same == {j \in DOMAIN item.schema : item.schema[j].tag = f.tag}
       IN got.value[i] = IF same = {} THEN Default(f.kind) ELSE item.value[CHOOSE j \in same : TRUE]

(* "Compute the exact encoded size in bytes": encoded_len against          *)
(* encode_to, each by its own formulas.                                    *)
EncodedLenExact ==
  item.part = "message" /\ item.writer = "derived" /\ Whole =>
  Len(wire.bytes) = encoded_len(item.schema, item.value)

(* The same where both are defined for the value.                          *)
CarriedLenExact ==
  item.part = "message" /\ item.writer = "derived" /\ Whole /\ Carried(item.schema, item.value) =>
  Len(wire.bytes) = encoded_len(item.schema, item.value)

(* JSON that stands for a value: a field left out is a default.            *)
RECURSIVE Stands(_, _, _)
Stands(kind, v, json) ==
  CASE kind.k = "Message" ->
         /\ json.t = "obj"
         /\ \A i \in DOMAIN kind.schema :
              LET f == kind.schema[i]
              IN IF f.name \in DOMAIN json.v THEN Stands(f.kind, v[i], json.v[f.name])
                 ELSE v[i] = Default(f.kind)
    [] kind.k \in {"Optional", "OptionalMessage"} ->
         IF v = <<>> THEN json.t = "null" ELSE Stands(kind.of, v[1], json)
    [] kind.k \in {"Repeated", "RepeatedMessage"} ->
         /\ json.t = "arr" /\ Len(json.v) = Len(v)
         /\ \A i \in DOMAIN v : Stands(kind.of, v[i], json.v[i])
    [] OTHER -> Same(json, ToJson(kind, v))

(* The JSON codec leaves out an optional field that holds a default.       *)
RECURSIVE Forgets(_, _)
Forgets(schema, m) ==
  \E i \in DOMAIN schema :
    LET kind == schema[i].kind
    IN \/ kind.k = "Optional" /\ m[i] = <<Default(kind.of)>>
       \/ kind.k = "Message" /\ Forgets(kind.schema, m[i])
       \/ kind.k \in {"OptionalMessage", "RepeatedMessage"}
          /\ \E j \in DOMAIN m[i] : Forgets(kind.of.schema, m[i][j])

(* The two codecs of the repository read each other's bytes: packed or     *)
(* item by item, signed or not, nested or optional.                        *)
CodecsAgree ==
  Read("message") /\ Whole /\ item.schema = item.rschema /\ Carried(item.schema, item.value) =>
  /\ got.ok
  /\ \/ item.writer = "json" /\ Forgets(item.schema, item.value)
     \/ IF item.reader = "derived" THEN got.value = item.value
        ELSE Stands(Message(item.schema), item.value, got.value)

(* A message cut off in transit is refused or read as a part of itself:    *)
(* no field gets a value that was not written.                             *)
CutNeverInvents ==
  Read("message") /\ wire.state = "cut" /\ item.schema = item.rschema /\ item.writer = "derived"
    /\ item.reader = "derived" /\ Carried(item.schema, item.value) /\ got.ok =>
  \A i \in DOMAIN item.schema :
    \/ got.value[i] \in {item.value[i], Default(item.schema[i].kind)}
    \/ item.schema[i].kind.k \in {"Repeated", "RepeatedMessage"} /\ IsPrefix(got.value[i], item.value[i])

(* Whatever bytes arrive, what the decoder makes of them it can write and  *)
(* read again.                                                             *)
DecodedIsStable ==
  Read("raw") /\ item.reader = "derived" /\ got.ok /\ Carried(item.rschema, got.value) =>
  typeway_decode(item.rschema, encode_to(item.rschema, got.value)) = got

(* A JSON body that goes through the binary codec of a method comes back   *)
(* with every field the method's message defines, defaults left out.       *)
SameFields(fields, sent, back) ==
  \A i \in DOMAIN fields :
    LET n == fields[i].name
    IN IF n \in DOMAIN sent.v /\ sent.v[n].t # "null" /\ ~is_proto3_default(sent.v[n], fields[i].proto_type)
            /\ ~Same(sent.v[n], Arr(<<>>))
       THEN n \in DOMAIN back.v /\ Same(back.v[n], sent.v[n])
       ELSE n \notin DOMAIN back.v
ServiceRoundTrip ==
  Read("service") =>
  LET m == item.svc.methods[item.path]
      fields == IF m[item.direction] = EmptyType THEN <<>> ELSE item.svc.messages[m[item.direction]]
  IN item.path \in DOMAIN item.svc.methods =>
       got.ok /\ SameFields(fields, item.json, got.value)

(* A variant both sides know arrives as itself with its payload, the       *)
(* default one too; one the reader does not know is its first one.         *)
VariantArrives ==
  Read("variant") =>
  LET Known(rs, t) == {i \in DOMAIN rs : rs[i] = t}
      Tags(schema) == [i \in DOMAIN schema |-> schema[i].tag]
  IN /\ got.ok
     /\ item.form = "enum" =>
          LET same == Known(item.rtags, item.tags[item.variant])
          IN got.value = IF same = {} THEN 1 ELSE Min(same)
     /\ item.form = "oneof" =>
          LET same == Known(Tags(item.rschema), item.schema[item.variant].tag)
          IN got.value = IF same = {} THEN <<1, Default(item.rschema[1].kind)>>
                              ELSE <<Min(same), item.value>>
=============================================================================
