------------------------------- MODULE Bytes -------------------------------
(***************************************************************************)
(* Bytes, parts of them, and the results of reading them.  A text is its   *)
(* bytes.                                                                  *)
(***************************************************************************)
EXTENDS Integers, Sequences

Byte == 0..255

From(bytes, off) == SubSeq(bytes, off + 1, Len(bytes))
Slice(bytes, off, n) == SubSeq(bytes, off + 1, off + n)

(* Ok with a value and the bytes it took, or Err.                          *)
Okay(v, used) == [ok |-> TRUE, value |-> v, used |-> used, error |-> "none"]
Fails(e) == [ok |-> FALSE, value |-> <<>>, used |-> 0, error |-> e]

(* The `?` of the code: go on with a result, or fail with it.              *)
Bind(r, Op(_)) == IF r.ok THEN Op(r) ELSE r
Map(r, Op(_)) == IF r.ok THEN [r EXCEPT !.value = Op(@)] ELSE r

(* External: core::str::from_utf8, up to the two-byte sequences.           *)
ValidUtf8(s) ==
  \A i \in DOMAIN s :
    \/ s[i] < 128
    \/ s[i] \in 194..223 /\ i < Len(s) /\ s[i + 1] \in 128..191
    \/ s[i] \in 128..191 /\ i > 1 /\ s[i - 1] \in 194..223
=============================================================================
