---------------------------- MODULE TypewayCodec ----------------------------
(***************************************************************************)
(* The code #[derive(TypewayCodec)] generates (typeway-macros/src/lib.rs)  *)
(* around the helpers of Varints.  u32 and i32 have IntBits bits here, so  *)
(* that every overflow has its counterpart.  A float is the sequence of    *)
(* its bytes.                                                              *)
(*                                                                         *)
(* A schema is a sequence of fields [tag, kind], a message the sequence of *)
(* their values.  A kind is a record with k in the names of CodecKind and, *)
(* for Varint, the Rust type; for Optional and Repeated, the kind inside;  *)
(* for the messages, the schema inside.                                    *)
(***************************************************************************)
EXTENDS Varints, SequencesExt

CONSTANT IntBits

ASSUME CodecAssumption == WordBits \in 8..24 /\ IntBits \in 4..WordBits

U32 == 2 ^ IntBits

(* `v as u64`, also of a negative number, and `val as _` back.             *)
AsU64(v) == v % U64
Signed(v, bits) == IF v >= 2 ^ (bits - 1) THEN v - 2 ^ bits ELSE v
AsType(v, ty) ==
  CASE ty = "u64" -> v
    [] ty = "i64" -> Signed(v, WordBits)
    [] ty = "u32" -> v % U32
    [] ty = "i32" -> Signed(v % U32, IntBits)

-----------------------------------------------------------------------------
(* Kinds: classify_type and classify_scalar give a field's type one.       *)
Varint(ty) == [k |-> "Varint", ty |-> ty]
Bool == [k |-> "Bool"]
Fixed32 == [k |-> "Fixed32"]
Fixed64 == [k |-> "Fixed64"]
LenString == [k |-> "LenString"]
LenBytes == [k |-> "LenBytes"]
Message(schema) == [k |-> "Message", schema |-> schema]
Optional(kind) == [k |-> IF kind.k = "Message" THEN "OptionalMessage" ELSE "Optional", of |-> kind]
Repeated(kind) == [k |-> IF kind.k = "Message" THEN "RepeatedMessage" ELSE "Repeated", of |-> kind]

(* LenBytesStr encodes and decodes like LenString.                         *)
wire_type_for_kind(kind) ==
  LET base == IF kind.k \in {"Optional", "Repeated"} THEN kind.of.k ELSE kind.k
  IN CASE base \in {"Varint", "Bool"} -> 0
       [] base = "Fixed64" -> 1
       [] base = "Fixed32" -> 5
       [] OTHER -> 2

is_packable(kind) == kind.k \in {"Varint", "Bool", "Fixed32", "Fixed64"}

Width(kind) == IF kind.k = "Fixed32" THEN 4 ELSE 8
Zeros(n) == [i \in 1..n |-> 0]
NegZero(n) == [i \in 1..n |-> IF i = n THEN 128 ELSE 0]

(* None and Some(v): sequences of length 0 and 1.                          *)
RECURSIVE Default(_)
Default(kind) ==
  CASE kind.k = "Varint" -> 0
    [] kind.k = "Bool" -> FALSE
    [] kind.k \in {"Fixed32", "Fixed64"} -> Zeros(Width(kind))
    [] kind.k = "Message" -> [i \in DOMAIN kind.schema |-> Default(kind.schema[i].kind)]
    [] OTHER -> <<>>

-----------------------------------------------------------------------------
(* Encoding                                                                *)

precompute_tag_byte(tag, wt) == (tag * 8 + wt) % 256

emit_tag_push(tag, wt) ==
  IF tag < 16 THEN <<precompute_tag_byte(tag, wt)>> ELSE tw_encode_tag(tag, wt)

Delimited(bytes) == tw_encode_varint(Len(bytes)) \o bytes

(* One scalar without its tag: gen_packed_item_write and the bodies of     *)
(* gen_encode_optional_inner and gen_encode_repeated_item.                 *)
ItemBytes(kind, v) ==
  CASE kind.k = "Varint" -> tw_encode_varint(AsU64(v))
    [] kind.k = "Bool" -> <<IF v THEN 1 ELSE 0>>
    [] kind.k \in {"Fixed32", "Fixed64"} -> v
    [] kind.k \in {"LenString", "LenBytes"} -> Delimited(v)

gen_encode_optional_inner(f, v) ==
  emit_tag_push(f.tag, wire_type_for_kind(f.kind)) \o ItemBytes(f.kind.of, v)

(* A repeated kind without an arm writes nothing.                          *)
gen_encode_repeated_item(f, v) ==
  IF f.kind.of.k \in {"LenString"}
  THEN emit_tag_push(f.tag, wire_type_for_kind(f.kind)) \o ItemBytes(f.kind.of, v)
  ELSE <<>>

(* Mutant: the packed length counts items, not bytes.                      *)
PackedField_CountItems(f, items) ==
  IF items = <<>> THEN <<>>
  ELSE emit_tag_push(f.tag, 2) \o tw_encode_varint(Len(items))
       \o FlattenSeq([i \in DOMAIN items |-> ItemBytes(f.kind.of, items[i])])

PackedField(f, items) ==
  IF items = <<>> THEN <<>>
  ELSE emit_tag_push(f.tag, 2)
       \o Delimited(FlattenSeq([i \in DOMAIN items |-> ItemBytes(f.kind.of, items[i])]))

RECURSIVE encode_to(_, _)

(* A default value is not written; a bool's tag is always one byte.        *)
gen_encode_field(f, v) ==
  LET kind == f.kind
      tag == emit_tag_push(f.tag, wire_type_for_kind(kind))
      Nested(schema, m) == Delimited(encode_to(schema, m))
  IN CASE kind.k = "Varint" -> IF v = 0 THEN <<>> ELSE tag \o ItemBytes(kind, v)
       [] kind.k = "Bool" -> IF v THEN <<precompute_tag_byte(f.tag, 0), 1>> ELSE <<>>
       [] kind.k \in {"Fixed32", "Fixed64"} ->
            IF v \in {Zeros(Width(kind)), NegZero(Width(kind))} THEN <<>> ELSE tag \o v
       [] kind.k \in {"LenString", "LenBytes"} -> IF v = <<>> THEN <<>> ELSE tag \o Delimited(v)
       [] kind.k = "Message" ->
            IF encode_to(kind.schema, v) = <<>> THEN <<>> ELSE tag \o Nested(kind.schema, v)
       [] kind.k = "Optional" -> IF v = <<>> THEN <<>> ELSE gen_encode_optional_inner(f, v[1])
       [] kind.k = "OptionalMessage" ->
            IF v = <<>> THEN <<>> ELSE tag \o Nested(kind.of.schema, v[1])
       [] kind.k = "Repeated" ->
            IF is_packable(kind.of) THEN PackedField(f, v)
            ELSE FlattenSeq([i \in DOMAIN v |-> gen_encode_repeated_item(f, v[i])])
       [] kind.k = "RepeatedMessage" ->
            FlattenSeq([i \in DOMAIN v |-> tag \o Nested(kind.of.schema, v[i])])

encode_to(schema, m) ==
  FlattenSeq([i \in DOMAIN schema |-> gen_encode_field(schema[i], m[i])])

-----------------------------------------------------------------------------
(* encoded_len, by its own formulas                                        *)
TagBytes(tag) == IF tag < 16 THEN 1 ELSE IF tag < 2048 THEN 2 ELSE 3

LenOf(n) == tw_varint_len(n) + n

(* gen_packed_item_len, and the lengths of optional and repeated items;    *)
(* bytes have no arm and add nothing, not even their tag.                  *)
ItemLen(kind, v) ==
  CASE kind.k = "Varint" -> tw_varint_len(AsU64(v))
    [] kind.k = "Bool" -> 1
    [] kind.k = "Fixed32" -> 4
    [] kind.k = "Fixed64" -> 8
    [] kind.k = "LenString" -> LenOf(Len(v))

HasLenArm(kind) == kind.k # "LenBytes"

SumOver(s, Op(_)) == FoldLeft(LAMBDA acc, x : acc + Op(x), 0, s)

RECURSIVE encoded_len(_, _)
gen_encoded_len_field(f, v) ==
  LET kind == f.kind
      tag == TagBytes(f.tag)
      Nested(schema, m) == LenOf(encoded_len(schema, m))
      Packed == SumOver(v, LAMBDA x : ItemLen(kind.of, x))
  IN CASE kind.k = "Varint" -> IF v = 0 THEN 0 ELSE tag + ItemLen(kind, v)
       [] kind.k = "Bool" -> IF v THEN tag + 1 ELSE 0
       [] kind.k \in {"Fixed32", "Fixed64"} ->
            IF v \in {Zeros(Width(kind)), NegZero(Width(kind))} THEN 0 ELSE tag + Width(kind)
       [] kind.k \in {"LenString", "LenBytes"} -> IF v = <<>> THEN 0 ELSE tag + LenOf(Len(v))
       [] kind.k = "Message" ->
            IF encoded_len(kind.schema, v) = 0 THEN 0 ELSE tag + Nested(kind.schema, v)
       [] kind.k = "Optional" ->
            IF v = <<>> \/ ~HasLenArm(kind.of) THEN 0 ELSE tag + ItemLen(kind.of, v[1])
       [] kind.k = "OptionalMessage" -> IF v = <<>> THEN 0 ELSE tag + Nested(kind.of.schema, v[1])
       [] kind.k = "Repeated" ->
            IF is_packable(kind.of) THEN IF v = <<>> THEN 0 ELSE tag + LenOf(Packed)
            ELSE IF HasLenArm(kind.of) THEN SumOver(v, LAMBDA x : tag + ItemLen(kind.of, x))
            ELSE 0
       [] kind.k = "RepeatedMessage" -> SumOver(v, LAMBDA m : tag + Nested(kind.of.schema, m))

encoded_len(schema, m) ==
  SumOver([i \in DOMAIN schema |-> gen_encoded_len_field(schema[i], m[i])], LAMBDA n : n)

-----------------------------------------------------------------------------
(* Decoding                                                                *)

(* Mutant: a length beyond the end takes what there is.                    *)
TakeDelimited_Clamp(bytes) ==
  Bind(tw_decode_varint(bytes), LAMBDA len :
    LET end == Min({Len(bytes), len.used + len.value})
    IN Okay(SubSeq(bytes, len.used + 1, end), end))

(* The bytes a length prefix announces.  (A length at the end of the word  *)
(* wraps the sum and the slice panics; that is a failure here as well.)    *)
TakeDelimited(bytes) ==
  Bind(tw_decode_varint(bytes), LAMBDA len :
    IF len.used + len.value > Len(bytes) THEN Fails("UnexpectedEof")
    ELSE Okay(Slice(bytes, len.used, len.value), len.used + len.value))

(* One scalar at the start of `bytes`, whatever the wire type says.        *)
ReadItem(kind, bytes) ==
  CASE kind.k = "Varint" -> Map(tw_decode_varint(bytes), LAMBDA v : AsType(v, kind.ty))
    [] kind.k = "Bool" -> Map(tw_decode_varint(bytes), LAMBDA v : v # 0)
    [] kind.k \in {"Fixed32", "Fixed64"} ->
         IF Len(bytes) < Width(kind) THEN Fails("UnexpectedEof")
         ELSE Okay(Slice(bytes, 0, Width(kind)), Width(kind))
    [] kind.k = "LenBytes" -> TakeDelimited(bytes)
    [] kind.k = "LenString" ->
         Bind(TakeDelimited(bytes), LAMBDA d : IF ValidUtf8(d.value) THEN d ELSE Fails("InvalidUtf8"))

(* gen_packed_item_read and the inlined varint loop: items are read from   *)
(* the rest of the message until `n` bytes are used, by the last of them   *)
(* perhaps more than that.                                                 *)
RECURSIVE ReadPacked(_, _, _, _)
ReadPacked(kind, bytes, n, acc) ==
  IF n <= 0 THEN Okay(acc, 0)
  ELSE Bind(ReadItem(kind, bytes), LAMBDA v :
         Bind(ReadPacked(kind, From(bytes, v.used), n - v.used, Append(acc, v.value)), LAMBDA all :
           Okay(all.value, v.used + all.used)))

(* External: the cast of a number to a float, of which only zero counts.   *)
NumberAsFloat(n, w) == [i \in 1..w |-> IF i = 1 THEN n % 256 ELSE IF n = 0 THEN 0 ELSE 64]

(* A packed field whose length prefix is at offset `at` of the message.    *)
(* packed_end wraps in a release build: the loop over fixed-width items is *)
(* then left at once, that over varints panics before it, in `reserve`.    *)
PackedRun(kind, bytes, at, old) ==
  Bind(tw_decode_varint(bytes), LAMBDA len :
    LET packed_end == ((at + len.used + len.value) % U64) - at
    IN CASE packed_end > Len(bytes) -> Fails("UnexpectedEof")
         [] packed_end < len.used /\ kind.k \in {"Varint", "Bool"} -> Fails("CapacityOverflow")
         [] OTHER ->
            Bind(ReadPacked(kind, From(bytes, len.used), packed_end - len.used, old), LAMBDA all :
              Okay(all.value, len.used + all.used)))

(* Mutant: every occurrence is taken as packed.                            *)
ReadPackable_PackedOnly(kind, bytes, at, wt, old) == PackedRun(kind.of, bytes, at, old)

(* A repeated packable field arrives packed or item by item; an unpacked   *)
(* float is read as a varint and converted.                                *)
ReadPackable(kind, bytes, at, wt, old) ==
  IF wt = 2 THEN PackedRun(kind.of, bytes, at, old)
  ELSE IF kind.of.k \in {"Varint", "Bool"}
       THEN Map(ReadItem(kind.of, bytes), LAMBDA v : Append(old, v))
       ELSE Map(tw_decode_varint(bytes), LAMBDA n : Append(old, NumberAsFloat(n, Width(kind.of))))

RECURSIVE typeway_decode(_, _)

(* The new value of a field and the bytes it used, `bytes` being the rest  *)
(* of the message from offset `at`.  Optional and repeated bytes have no   *)
(* arm: they are skipped.                                                  *)
gen_decode_arm(kind, bytes, at, wt, old) ==
  LET many == kind.k \in {"Repeated", "RepeatedMessage"}
      maybe == kind.k \in {"Optional", "OptionalMessage"}
      inner == IF many \/ maybe THEN kind.of ELSE kind
      Store(v) == IF many THEN Append(old, v) ELSE IF maybe THEN <<v>> ELSE v
  IN IF many /\ is_packable(inner) THEN ReadPackable(kind, bytes, at, wt, old)
     ELSE IF inner.k = "Message"
     THEN Bind(TakeDelimited(bytes), LAMBDA d :
            Bind(typeway_decode(inner.schema, d.value), LAMBDA m : Okay(Store(m.value), d.used)))
     ELSE IF (many \/ maybe) /\ ~HasLenArm(inner)
     THEN Map(tw_skip_wire_value(bytes, wt), LAMBDA v : old)
     ELSE Map(ReadItem(inner, bytes), Store)

(* typeway_decode and typeway_decode_bytes: fields in any order, unknown   *)
(* numbers skipped.                                                        *)
RECURSIVE DecodeFields(_, _, _, _)
DecodeFields(schema, bytes, at, m) ==
  IF bytes = <<>> THEN Okay(m, 0)
  ELSE Bind(tw_decode_varint(bytes), LAMBDA head :
         LET wt == head.value % 8
             rest == From(bytes, head.used)
             off == at + head.used
             known == {i \in DOMAIN schema : schema[i].tag = (head.value \div 8) % U32}
             i == CHOOSE j \in known : TRUE
         IN IF known = {}
            THEN Bind(tw_skip_wire_value(rest, wt), LAMBDA r :
                   DecodeFields(schema, From(rest, r.used), off + r.used, m))
            ELSE Bind(gen_decode_arm(schema[i].kind, rest, off, wt, m[i]), LAMBDA r :
                   DecodeFields(schema, From(rest, r.used), off + r.used, [m EXCEPT ![i] = r.value])))

typeway_decode(schema, bytes) == DecodeFields(schema, bytes, 0, Default(Message(schema)))

(* derive_typeway_codec_struct refuses tag 0 and duplicate tags.           *)
ValidSchema(schema) ==
  /\ \A i \in DOMAIN schema : schema[i].tag >= 1
  /\ \A i, j \in DOMAIN schema : schema[i].tag = schema[j].tag => i = j

-----------------------------------------------------------------------------
(* Enums.  A simple enum is a varint, an unknown number its first variant; *)
(* a oneof is one tagged field, written even if it is a default, and its   *)
(* last occurrence wins.  (No payload is repeated, so that offsets do not  *)
(* matter.)                                                                *)
EnumEncode(tags, variant) == tw_encode_varint(tags[variant])
EnumDecode(tags, bytes) ==
  IF bytes = <<>> THEN Okay(1, 0)
  ELSE Map(tw_decode_varint(bytes),
           LAMBDA n : LET v == {i \in DOMAIN tags : tags[i] = n % U32}
                      IN IF v = {} THEN 1 ELSE Min(v))

(* Mutant: a default payload is left out, as in a struct.                  *)
OneofEncode_SkipDefault(schema, variant, v) == gen_encode_field(schema[variant], v)

OneofEncode(schema, variant, v) ==
  LET f == schema[variant]
  IN emit_tag_push(f.tag, wire_type_for_kind(f.kind))
     \o (IF f.kind.k = "Message" THEN Delimited(encode_to(f.kind.schema, v)) ELSE ItemBytes(f.kind, v))

RECURSIVE OneofDecode(_, _, _)
OneofDecode(schema, bytes, best) ==
  IF bytes = <<>> THEN Okay(best, 0)
  ELSE Bind(tw_decode_varint(bytes), LAMBDA head :
         LET wt == head.value % 8
             rest == From(bytes, head.used)
             known == {i \in DOMAIN schema : schema[i].tag = (head.value \div 8) % U32}
             i == CHOOSE j \in known : TRUE
         IN IF known = {}
            THEN Bind(tw_skip_wire_value(rest, wt), LAMBDA r : OneofDecode(schema, From(rest, r.used), best))
            ELSE Bind(gen_decode_arm(schema[i].kind, rest, 0, wt, <<>>), LAMBDA r :
                   OneofDecode(schema, From(rest, r.used), <<i, r.value>>)))
=============================================================================
