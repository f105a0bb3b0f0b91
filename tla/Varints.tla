------------------------------ MODULE Varints ------------------------------
(***************************************************************************)
(* Varints: the helpers of typeway-protobuf/src/codec.rs.  The word of the *)
(* code, u64, has WordBits bits here; a varint still has 7 bits per byte,  *)
(* the lowest first.                                                       *)
(***************************************************************************)
EXTENDS Bytes, Folding, FiniteSetsExt

CONSTANT WordBits

ASSUME WordAssumption == WordBits \in 8..64

(* 2 ^ n, so that a proof can speak of every n.                            *)
Two[n \in 0..64] == IF n = 0 THEN 1 ELSE 2 * Two[n - 1]

U64 == Two[WordBits]
Words == 0..(U64 - 1)

-----------------------------------------------------------------------------
(* Writing                                                                 *)

(* tw_encode_varint, its array and unchecked variants, and the loop that   *)
(* tw_encode_packed_u32 and the generated code inline.                     *)
Varints[v \in Words] == IF v < 128 THEN <<v>> ELSE <<128 + (v % 128)>> \o Varints[v \div 128]
tw_encode_varint(v) == Varints[v]

(* External: NonZeroU64::ilog2.                                            *)
ilog2[v \in Words] == IF v < 2 THEN 0 ELSE 1 + ilog2[v \div 2]

(* v | 1                                                                   *)
OrOne(v) == IF v % 2 = 0 THEN v + 1 ELSE v

(* Mutant: one more bit before the length grows.                           *)
tw_varint_len_Late(v) == (ilog2[OrOne(v)] * 9 + 64) \div 64

tw_varint_len(v) == (ilog2[OrOne(v)] * 9 + 73) \div 64

-----------------------------------------------------------------------------
(* Reading                                                                 *)

(* The 10 bytes of a u64.                                                  *)
VarintMax == (WordBits + 6) \div 7

Partials == [value : Nat, weight : Nat]
ReadGroup(partial, b) ==
  [value |-> partial.value + (b % 128) * partial.weight, weight |-> 128 * partial.weight]
GroupStep == [partial \in Partials |-> [b \in Byte |-> ReadGroup(partial, b)]]
GroupStart == [value |-> 0, weight |-> 1]
ValueOf(groups) == Fold(GroupStep, GroupStart, groups).value

(* Where the bytes without the continuation bit are.                       *)
Stops(bytes) == {i \in 1..Len(bytes) : bytes[i] < 128}

(* Mutant: the last byte a varint may have is refused.                     *)
tw_decode_varint_Short(bytes) ==
  IF Stops(bytes) = {} \/ Min(Stops(bytes)) >= VarintMax THEN Fails("VarintTooLong")
  ELSE LET last == Min(Stops(bytes)) IN Okay(ValueOf(Slice(bytes, 0, last)) % U64, last)

(* The loop ends at the first byte without the continuation bit; bits      *)
(* beyond the word are shifted out.                                        *)
tw_decode_varint(bytes) ==
  IF Stops(bytes) = {} \/ Min(Stops(bytes)) > VarintMax
  THEN Fails(IF Len(bytes) > VarintMax THEN "VarintTooLong" ELSE "UnexpectedEof")
  ELSE LET last == Min(Stops(bytes)) IN Okay(ValueOf(Slice(bytes, 0, last)) % U64, last)

-----------------------------------------------------------------------------
(* Tags, signs and what is skipped                                         *)

tw_encode_tag(tag, wt) == tw_encode_varint((tag * 8 + wt) % U64)

tw_zigzag_encode(v) == IF v >= 0 THEN 2 * v ELSE -2 * v - 1
tw_zigzag_decode(v) == IF v % 2 = 0 THEN v \div 2 ELSE -((v + 1) \div 2)

(* Mutant: a length-delimited value is skipped without its length prefix.  *)
tw_skip_wire_value_NoHeader(bytes, wt) ==
  IF wt = 2
  THEN Bind(tw_decode_varint(bytes), LAMBDA len :
         IF Len(bytes) < len.value THEN Fails("UnexpectedEof") ELSE Okay(<<>>, len.value))
  ELSE IF wt = 0 THEN tw_decode_varint(bytes) ELSE Fails("UnknownWireType")

(* A length near the end of the word makes `hdr + len` wrap.               *)
tw_skip_wire_value(bytes, wt) ==
  LET Skip(n) == IF Len(bytes) < n THEN Fails("UnexpectedEof") ELSE Okay(<<>>, n)
  IN CASE wt = 0 -> tw_decode_varint(bytes)
       [] wt = 1 -> Skip(8)
       [] wt = 5 -> Skip(4)
       [] wt = 2 -> Bind(tw_decode_varint(bytes), LAMBDA len : Skip((len.used + len.value) % U64))
       [] OTHER -> Fails("UnknownWireType")
=============================================================================
