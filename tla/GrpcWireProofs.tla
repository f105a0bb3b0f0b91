--------------------------- MODULE GrpcWireProofs ---------------------------
(***************************************************************************)
(* Proofs about what a message travels in (GrpcWire, Transport), for every *)
(* message, status and cut; about the gRPC client and its circuit breaker, *)
(* for every policy; and about varints, for words of every size.           *)
(***************************************************************************)
EXTENDS Transport, GrpcClient, Varints, FoldingProofs, TLAPS

-----------------------------------------------------------------------------
(* Frames                                                                  *)

(* What a frame is made of.                                                *)
LEMMA FrameParts ==
  ASSUME NEW flag \in Byte, NEW payload \in Seq(Byte)
  PROVE  LET frame == Frame(flag, payload)
         IN /\ frame \in Seq(Byte) /\ Len(frame) = HeaderLen + Len(payload) /\ frame[1] = flag
            /\ \A i \in 1..Len(payload) : frame[HeaderLen + i] = payload[i]
            /\ Short(payload) => FrameLen(frame) = Len(payload)
<1> DEFINE n == Len(payload)
           a == (n \div 16777216) % 256
           b == (n \div 65536) % 256
           c == (n \div 256) % 256
           d == n % 256
           head == <<flag, a, b, c, d>>
           frame == Frame(flag, payload)
<1>1. n \in Nat
  BY SMT
<1>2. a \in Byte /\ b \in Byte /\ c \in Byte /\ d \in Byte
  <2>1. \A q \in Nat : q % 256 \in Byte
    BY DEF Byte
  <2>2. n \div 16777216 \in Nat /\ n \div 65536 \in Nat /\ n \div 256 \in Nat
    BY <1>1, SMT
  <2> QED
    BY <1>1, <2>1, <2>2, SMT
<1>3. Short(payload) => ((a * 256 + b) * 256 + c) * 256 + d = n
  BY <1>1, SMT DEF Short
<1>4. frame = head \o payload
  BY SMT DEF Frame, to_be_bytes
<1> HIDE DEF n, a, b, c, d
<1>5. head \in Seq(Byte) /\ Len(head) = 5 /\ head[1] = flag /\ head[2] = a /\ head[3] = b /\ head[4] = c /\ head[5] = d
  BY <1>2
<1> HIDE DEF head, frame
<1>c. head \in Seq(Byte) /\ Len(head) = 5
  BY <1>5
<1>d. /\ head \o payload \in Seq(Byte)
      /\ Len(head \o payload) = Len(head) + Len(payload)
      /\ \A i \in 1..(Len(head) + Len(payload)) :
            (head \o payload)[i] = IF i <= Len(head) THEN head[i] ELSE payload[i - Len(head)]
  BY <1>c, ConcatProperties
<1>6. frame \in Seq(Byte) /\ Len(frame) = 5 + Len(payload)
  BY <1>4, <1>c, <1>d
<1>a. \A i \in 1..(5 + Len(payload)) : frame[i] = IF i <= 5 THEN head[i] ELSE payload[i - 5]
  BY <1>4, <1>c, <1>d
<1>b. Len(payload) \in Nat
  OBVIOUS
<1>7. \A i \in 1..Len(payload) : frame[5 + i] = payload[i]
  BY <1>a, <1>b
<1>8. frame[1] = flag /\ frame[2] = a /\ frame[3] = b /\ frame[4] = c /\ frame[5] = d
  BY <1>5, <1>a, <1>b
<1>9. Short(payload) => FrameLen(frame) = Len(payload)
  BY <1>3, <1>8 DEF FrameLen, n
<1> QED
  BY <1>6, <1>7, <1>8, <1>9 DEF frame, HeaderLen

(* What is left of a text that was cut, after what is before a part of it. *)
LeftIs(S, before, part, rest, n) ==
  LET data == SubSeq((before \o part) \o rest, 1, n)
      left == From(data, Len(before))
  IN /\ data \in Seq(S) /\ Len(data) = n
     /\ left \in Seq(S) /\ Len(left) = n - Len(before)
     /\ \A i \in 1..Len(left) : i <= Len(part) => left[i] = part[i]

LEMMA LeftOf ==
  ASSUME NEW S, NEW before \in Seq(S), NEW part \in Seq(S), NEW rest \in Seq(S),
         NEW n \in Nat, Len(before) <= n, n <= Len(before) + Len(part) + Len(rest)
  PROVE  LeftIs(S, before, part, rest, n)
<1> DEFINE text == (before \o part) \o rest
           data == SubSeq(text, 1, n)
           left == From(data, Len(before))
           b == Len(before)
<1>1. /\ text \in Seq(S) /\ Len(text) = b + Len(part) + Len(rest)
      /\ \A i \in 1..Len(part) : text[b + i] = part[i]
  <2> DEFINE first == before \o part
  <2>1. first \in Seq(S) /\ Len(first) = b + Len(part)
    OBVIOUS
  <2>2. \A i \in 1..Len(part) : first[b + i] = part[i]
    OBVIOUS
  <2> HIDE DEF first
  <2>3. /\ first \o rest \in Seq(S) /\ Len(first \o rest) = b + Len(part) + Len(rest)
        /\ \A i \in 1..(b + Len(part)) : (first \o rest)[i] = first[i]
    <3>1. \A i \in 1..(Len(first) + Len(rest)) :
             (first \o rest)[i] = IF i <= Len(first) THEN first[i] ELSE rest[i - Len(first)]
      BY <2>1, ConcatProperties
    <3>2. Len(rest) \in Nat /\ b \in Nat /\ Len(part) \in Nat
      OBVIOUS
    <3>3. \A i \in 1..(b + Len(part)) : i \in 1..(Len(first) + Len(rest)) /\ i <= Len(first)
      BY <2>1, <3>2
    <3> QED
      BY <2>1, <3>1, <3>3, ConcatProperties
  <2>4. \A i \in 1..Len(part) : b + i \in 1..(b + Len(part))
    OBVIOUS
  <2> QED
    BY <2>2, <2>3, <2>4 DEF first
<1> HIDE DEF text
<1>2. b \in Nat /\ Len(part) \in Nat /\ n \in Nat /\ b <= n /\ n <= Len(text) /\ Len(text) \in Nat
  BY <1>1
<1>3. data \in Seq(S) /\ Len(data) = n /\ \A i \in 1..n : data[i] = text[i]
  BY <1>1, <1>2
<1> HIDE DEF data, b
<1>4. /\ left \in Seq(S) /\ Len(left) = n - b
      /\ \A i \in 1..(n - b) : left[i] = data[b + i]
  BY <1>2, <1>3 DEF From, b
<1>5. \A i \in 1..(n - b) : b + i \in 1..n
  BY <1>2
<1> HIDE DEF left
<1>6. \A i \in 1..Len(left) : i <= Len(part) => left[i] = part[i]
  <2> SUFFICES ASSUME NEW i \in 1..Len(left), i <= Len(part) PROVE left[i] = part[i]
    OBVIOUS
  <2>1. i \in 1..(n - b) /\ i \in 1..Len(part)
    BY <1>2, <1>4
  <2> QED
    BY <1>1, <1>3, <1>4, <1>5, <2>1
<1> QED
  BY <1>3, <1>4, <1>6 DEF LeftIs, text, data, left, b

(* A reader at the start of a frame has all of it or knows that it has not.*)
IsRead(flag, payload, before, rest, n) ==
  LET left == From(SubSeq((before \o Frame(flag, payload)) \o rest, 1, n), Len(before))
  IN /\ Complete(left) <=> n >= Len(before) + HeaderLen + Len(payload)
     /\ Complete(left) => left[1] = flag /\ FrameLen(left) = Len(payload) /\ Payload(left) = payload

LEMMA FrameRead ==
  ASSUME NEW flag \in Byte, NEW payload \in Seq(Byte), Short(payload),
         NEW before \in Seq(Byte), NEW rest \in Seq(Byte),
         NEW n \in Nat, Len(before) <= n, n <= Len(before) + (HeaderLen + Len(payload)) + Len(rest)
  PROVE  IsRead(flag, payload, before, rest, n)
<1> DEFINE frame == Frame(flag, payload)
           data == SubSeq((before \o frame) \o rest, 1, n)
           left == From(data, Len(before))
           p == Len(payload)
<1>1. /\ frame \in Seq(Byte) /\ Len(frame) = 5 + p /\ frame[1] = flag
      /\ \A i \in 1..p : frame[5 + i] = payload[i]
      /\ FrameLen(frame) = p
  BY FrameParts DEF HeaderLen
<1> HIDE DEF frame
<1>2. n <= Len(before) + Len(frame) + Len(rest)
  BY <1>1 DEF HeaderLen
<1>3. /\ left \in Seq(Byte) /\ Len(left) = n - Len(before)
      /\ \A i \in 1..Len(left) : i <= Len(frame) => left[i] = frame[i]
  <2>1. frame \in Seq(Byte)
    BY <1>1
  <2>a. LeftIs(Byte, before, frame, rest, n)
    BY <1>2, <2>1, LeftOf
  <2>2. /\ data \in Seq(Byte) /\ Len(data) = n
        /\ left \in Seq(Byte) /\ Len(left) = n - Len(before)
        /\ \A i \in 1..Len(left) : i <= Len(frame) => left[i] = frame[i]
    BY <2>a DEF LeftIs
  <2> QED
    BY <2>2
<1> HIDE DEF data, left
<1>4. p \in Nat /\ n \in Nat /\ Len(before) \in Nat /\ Len(left) \in Nat
  BY <1>3
<1>5. ASSUME Len(left) >= 5
      PROVE  left[1] = flag /\ FrameLen(left) = p
  <2>1. \A i \in 1..5 : i \in 1..Len(left) /\ i <= Len(frame)
    BY <1>1, <1>4, <1>5
  <2>2. \A i \in 1..5 : left[i] = frame[i]
    BY <1>3, <2>1
  <2>3. left[1] = frame[1] /\ left[2] = frame[2] /\ left[3] = frame[3] /\ left[4] = frame[4] /\ left[5] = frame[5]
    BY <2>2
  <2> QED
    BY <1>1, <2>3 DEF FrameLen
<1>6. Complete(left) <=> Len(left) >= 5 + p
  BY <1>4, <1>5 DEF Complete, HeaderLen
<1>7. ASSUME Complete(left) PROVE Payload(left) = payload
  <2>1. FrameLen(left) = p /\ Len(left) >= 5 + p
    BY <1>4, <1>5, <1>6, <1>7
  <2> DEFINE taken == SubSeq(left, 6, 5 + p)
  <2>2. Payload(left) = taken
    BY <2>1 DEF Payload, Slice, HeaderLen
  <2>3. taken \in Seq(Byte) /\ Len(taken) = p /\ \A i \in 1..p : taken[i] = left[5 + i]
    BY <1>3, <1>4, <2>1
  <2>4. \A i \in 1..p : 5 + i \in 1..Len(left) /\ 5 + i <= Len(frame)
    BY <1>1, <1>4, <2>1
  <2>5. \A i \in 1..p : taken[i] = payload[i]
    BY <1>1, <1>3, <2>3, <2>4
  <2> HIDE DEF taken
  <2> QED
    BY <2>2, <2>3, <2>5, SeqEqual
<1> QED
  BY <1>3, <1>4, <1>5, <1>6, <1>7 DEF IsRead, data, left, frame, HeaderLen

(* Bytes after bytes.                                                      *)
LEMMA BytesRegroup == \A a, b, c \in Seq(Byte) : (a \o b) \o c = a \o (b \o c)
  BY ConcatAssociative

(* Frames one after the other.                                             *)
FrameStep == [out \in Seq(Byte) |-> [m \in Seq(Byte) |-> out \o encode_grpc_frame(m)]]
FramePart == [m \in Seq(Byte) |-> encode_grpc_frame(m)]

LEMMA FramesAreWritten ==
  Writes(Byte, Seq(Byte), FrameStep, FramePart) /\ \A ms : FramesOf(ms) = TextOf(FrameStep, ms)
<1>1. \A m \in Seq(Byte) : encode_grpc_frame(m) \in Seq(Byte)
  <2> TAKE m \in Seq(Byte)
  <2>1. 0 \in Byte
    BY DEF Byte
  <2>2. Frame(0, m) \in Seq(Byte)
    BY <2>1, FrameParts
  <2> QED
    BY <2>2 DEF encode_grpc_frame
<1>2. FramePart \in [Seq(Byte) -> Seq(Byte)]
  BY <1>1 DEF FramePart
<1>3. FrameStep \in [Seq(Byte) -> [Seq(Byte) -> Seq(Byte)]]
  BY <1>1 DEF FrameStep
<1>4. \A out \in Seq(Byte) : \A m \in Seq(Byte) : FrameStep[out][m] = out \o FramePart[m]
  BY DEF FrameStep, FramePart
<1> QED
  BY <1>2, <1>3, <1>4 DEF Writes, Steps, FramesOf, TextOf, FrameStep

UpTo(ms, k) == FramesOf(SubSeq(ms, 1, k))
Beyond(ms, k) == FramesOf(SubSeq(ms, k + 1, Len(ms)))

LEMMA FramesUpTo ==
  ASSUME NEW ms \in Seq(Messages)
  PROVE  /\ FramesOf(ms) \in Seq(Byte) /\ UpTo(ms, 0) = <<>> /\ UpTo(ms, Len(ms)) = FramesOf(ms)
         /\ \A k \in 0..Len(ms) : UpTo(ms, k) \in Seq(Byte)
         /\ \A k \in 1..Len(ms) :
              /\ ms[k] \in Seq(Byte) /\ Short(ms[k]) /\ Beyond(ms, k) \in Seq(Byte)
              /\ UpTo(ms, k) = UpTo(ms, k - 1) \o Frame(0, ms[k])
              /\ FramesOf(ms) = (UpTo(ms, k - 1) \o Frame(0, ms[k])) \o Beyond(ms, k)
<1>1. ms \in Seq(Seq(Byte)) /\ \A k \in 1..Len(ms) : ms[k] \in Seq(Byte) /\ Short(ms[k])
  BY DEF Messages
<1>2. Writes(Byte, Seq(Byte), FrameStep, FramePart) /\ \A t : FramesOf(t) = TextOf(FrameStep, t)
  BY FramesAreWritten
<1>3. TextOf(FrameStep, <<>>) = <<>> /\ \A t \in Seq(Seq(Byte)) : TextOf(FrameStep, t) \in Seq(Byte)
  BY <1>2, TextGrows
<1>4. SubSeq(ms, 1, 0) = <<>> /\ SubSeq(ms, 1, Len(ms)) = ms
  BY SubSeqFull, SubSeqEmpty
<1>5. \A k \in 0..Len(ms) : SubSeq(ms, 1, k) \in Seq(Seq(Byte))
  BY <1>1
<1>6. ASSUME NEW k \in 1..Len(ms)
      PROVE  /\ Beyond(ms, k) \in Seq(Byte)
             /\ UpTo(ms, k) = UpTo(ms, k - 1) \o Frame(0, ms[k])
             /\ FramesOf(ms) = (UpTo(ms, k - 1) \o Frame(0, ms[k])) \o Beyond(ms, k)
  <2>1. FramePart[ms[k]] = Frame(0, ms[k])
    BY <1>1 DEF FramePart, encode_grpc_frame
  <2>a. \A s \in Seq(Seq(Byte)) : \A j \in 1..Len(s) : StandsIn(Byte, FrameStep, FramePart, s, j)
    BY <1>2, WrittenAt, Zenon
  <2>b. StandsIn(Byte, FrameStep, FramePart, ms, k)
    BY <1>1, <2>a
  <2>2. /\ TextOf(FrameStep, SubSeq(ms, k + 1, Len(ms))) \in Seq(Byte)
        /\ TextOf(FrameStep, SubSeq(ms, 1, k)) = TextOf(FrameStep, SubSeq(ms, 1, k - 1)) \o FramePart[ms[k]]
        /\ TextOf(FrameStep, ms) = (TextOf(FrameStep, SubSeq(ms, 1, k - 1)) \o FramePart[ms[k]])
                                 \o TextOf(FrameStep, SubSeq(ms, k + 1, Len(ms)))
    BY <2>b DEF StandsIn
  <2> QED
    BY <1>2, <2>1, <2>2 DEF UpTo, Beyond
<1> QED
  BY <1>1, <1>2, <1>3, <1>4, <1>5, <1>6 DEF UpTo

(* What a reader of the first n bytes of a body of frames sees where a     *)
(* frame, or the trailers, start.                                          *)
Offset(ms, k) == Len(UpTo(ms, k))
Left(ms, status, n, k) == From(SubSeq(BodyOf(ms, status), 1, n), Offset(ms, k))

FrameSeen(ms, status, n, k) ==
  LET left == Left(ms, status, n, k - 1)
  IN /\ Complete(left) <=> n >= Offset(ms, k)
     /\ Complete(left) => left[1] = 0 /\ FrameLen(left) = Len(ms[k]) /\ Payload(left) = ms[k]

(* The trailers of a body are a frame of the one byte that stands for them. *)
LEMMA TailIsRead ==
  ASSUME NEW status \in Seq(Byte), Len(status) <= 1
  PROVE  LET trailers == IF status = <<>> THEN <<>> ELSE encode_trailers_frame(status[1])
         IN /\ trailers \in Seq(Byte)
            /\ status # <<>> => trailers = Frame(TrailersFlag, status) /\ Len(status) = 1 /\ Short(status)
<1>1. CASE status = <<>>
  BY <1>1
<1>2. CASE status # <<>>
  <2>1. Len(status) = 1 /\ status[1] \in Byte
    <3>1. Len(status) \in Nat /\ Len(status) # 0
      <4>1. \A seq \in Seq(Byte) : (seq # <<>>) => (Len(seq) \in Nat \ {0})
        BY EmptySeq, Zenon
      <4>2. Len(status) \in Nat \ {0}
        BY <1>2, <4>1, Zenon
      <4> QED
        BY <4>2
    <3>2. Len(status) = 1 /\ 1 \in 1..Len(status)
      <4>1. \A n \in Nat : n # 0 /\ n <= 1 => n = 1
        OBVIOUS
      <4>2. Len(status) = 1
        BY <3>1, <4>1
      <4> QED
        BY <4>2
    <3> QED
      BY <3>2
  <2>2. status = <<status[1]>>
    BY <2>1
  <2>3. TrailersFlag \in Byte
    BY DEF TrailersFlag, Byte
  <2>4. Frame(TrailersFlag, status) \in Seq(Byte)
    BY <2>3, FrameParts
  <2>5. Short(status)
    BY <2>1, SMT DEF Short
  <2> QED
    BY <1>2, <2>1, <2>2, <2>4, <2>5 DEF encode_trailers_frame
<1> QED
  BY <1>1, <1>2

(* Where the frames start.                                                 *)
LEMMA Offsets ==
  ASSUME NEW ms \in Seq(Messages)
  PROVE  /\ \A k \in 0..Len(ms) : Offset(ms, k) \in Nat
         /\ Offset(ms, 0) = 0
         /\ \A k \in 1..Len(ms) : Offset(ms, k) = Offset(ms, k - 1) + HeaderLen + Len(ms[k])
         /\ \A k \in 0..Len(ms) : Offset(ms, k) <= Offset(ms, Len(ms))
<1>1. /\ FramesOf(ms) \in Seq(Byte) /\ UpTo(ms, 0) = <<>> /\ UpTo(ms, Len(ms)) = FramesOf(ms)
      /\ \A k \in 0..Len(ms) : UpTo(ms, k) \in Seq(Byte)
  BY FramesUpTo
<1>2. ASSUME NEW k \in 1..Len(ms)
      PROVE  /\ Offset(ms, k) = Offset(ms, k - 1) + HeaderLen + Len(ms[k])
             /\ Offset(ms, k) <= Offset(ms, Len(ms))
  <2>1. /\ ms[k] \in Seq(Byte) /\ Beyond(ms, k) \in Seq(Byte)
        /\ UpTo(ms, k) = UpTo(ms, k - 1) \o Frame(0, ms[k])
        /\ FramesOf(ms) = (UpTo(ms, k - 1) \o Frame(0, ms[k])) \o Beyond(ms, k)
    BY FramesUpTo
  <2>2. UpTo(ms, k - 1) \in Seq(Byte) /\ UpTo(ms, k) \in Seq(Byte)
    BY <1>1
  <2>3. 0 \in Byte
    BY DEF Byte
  <2>4. Frame(0, ms[k]) \in Seq(Byte) /\ Len(Frame(0, ms[k])) = HeaderLen + Len(ms[k])
    BY <2>1, <2>3, FrameParts
  <2>5. Len(UpTo(ms, k)) = Len(UpTo(ms, k - 1)) + Len(Frame(0, ms[k]))
    BY <2>1, <2>2, <2>4, ConcatProperties
  <2>6. Len(FramesOf(ms)) = Len(UpTo(ms, k)) + Len(Beyond(ms, k))
    BY <2>1, <2>2, ConcatProperties
  <2>7. Len(ms[k]) \in Nat /\ Len(UpTo(ms, k - 1)) \in Nat /\ Len(Beyond(ms, k)) \in Nat
    BY <2>1, <2>2
  <2> QED
    <3>1. Offset(ms, k) = Offset(ms, k - 1) + (HeaderLen + Len(ms[k]))
      BY <2>4, <2>5 DEF Offset
    <3>2. Offset(ms, Len(ms)) = Offset(ms, k) + Len(Beyond(ms, k))
      BY <1>1, <2>6 DEF Offset
    <3>3. Offset(ms, k - 1) \in Nat /\ HeaderLen \in Nat
      BY <2>7 DEF Offset, HeaderLen
    <3> HIDE DEF HeaderLen
    <3> QED
      BY <2>7, <3>1, <3>2, <3>3
<1>3. \A k \in 0..Len(ms) : Offset(ms, k) \in Nat
  BY <1>1 DEF Offset
<1>4. Offset(ms, 0) = 0
  BY <1>1 DEF Offset
<1>5. \A k \in 0..Len(ms) : Offset(ms, k) <= Offset(ms, Len(ms))
  <2>1. Len(ms) \in 0..Len(ms) /\ \A k \in 0..Len(ms) : k = 0 \/ k \in 1..Len(ms)
    OBVIOUS
  <2> QED
    BY <1>2, <1>3, <1>4, <2>1
<1> QED
  BY <1>2, <1>3, <1>4, <1>5

(* A body is its frames and then its trailers.                             *)
LEMMA BodyTyped ==
  ASSUME NEW ms \in Seq(Messages), NEW status \in Seq(Byte), Len(status) <= 1
  PROVE  /\ BodyOf(ms, status) \in Seq(Byte)
         /\ Len(BodyOf(ms, status)) =
              Offset(ms, Len(ms)) + IF status = <<>> THEN 0 ELSE HeaderLen + 1
<1> DEFINE trailers == IF status = <<>> THEN <<>> ELSE encode_trailers_frame(status[1])
<1>1. /\ trailers \in Seq(Byte)
      /\ status # <<>> => trailers = Frame(TrailersFlag, status) /\ Len(status) = 1 /\ Short(status)
  BY TailIsRead
<1>2. Len(trailers) = IF status = <<>> THEN 0 ELSE HeaderLen + 1
  <2>1. TrailersFlag \in Byte
    BY DEF TrailersFlag, Byte
  <2>2. Len(Frame(TrailersFlag, status)) = HeaderLen + Len(status)
    BY <2>1, FrameParts
  <2> QED
    BY <1>1, <2>2
<1>3. BodyOf(ms, status) = FramesOf(ms) \o trailers
  BY DEF BodyOf
<1> HIDE DEF trailers
<1>4. /\ FramesOf(ms) \in Seq(Byte) /\ UpTo(ms, Len(ms)) = FramesOf(ms)
  BY FramesUpTo
<1>5. Len(BodyOf(ms, status)) = Offset(ms, Len(ms)) + Len(trailers)
  BY <1>1, <1>3, <1>4, ConcatProperties DEF Offset
<1> QED
  BY <1>1, <1>2, <1>3, <1>4, <1>5

(* The reader who is at the start of a frame.                              *)
LEMMA FramesAreSeen ==
  ASSUME NEW ms \in Seq(Messages), NEW status \in Seq(Byte), Len(status) <= 1,
         NEW n \in Nat, n <= Len(BodyOf(ms, status))
  PROVE  \A k \in 1..Len(ms) : n >= Offset(ms, k - 1) => FrameSeen(ms, status, n, k)
<1> DEFINE trailers == IF status = <<>> THEN <<>> ELSE encode_trailers_frame(status[1])
<1>1. trailers \in Seq(Byte)
  BY TailIsRead
<1>2. BodyOf(ms, status) = FramesOf(ms) \o trailers
  BY DEF BodyOf
<1> HIDE DEF trailers
<1> TAKE k \in 1..Len(ms)
<1> DEFINE before == UpTo(ms, k - 1)
           payload == ms[k]
           frame == Frame(0, payload)
           rest == Beyond(ms, k) \o trailers
<1>3. /\ payload \in Seq(Byte) /\ Short(payload) /\ Beyond(ms, k) \in Seq(Byte)
      /\ FramesOf(ms) = (before \o frame) \o Beyond(ms, k)
  BY FramesUpTo
<1>4. before \in Seq(Byte)
  <2>1. k - 1 \in 0..Len(ms)
    OBVIOUS
  <2> QED
    BY <2>1, FramesUpTo
<1>5. Offset(ms, k) = Len(before) + HeaderLen + Len(payload) /\ Offset(ms, k - 1) = Len(before)
  BY Offsets DEF Offset
<1>6. 0 \in Byte
  BY DEF Byte
<1>7. frame \in Seq(Byte) /\ Len(frame) = HeaderLen + Len(payload)
  BY <1>3, <1>6, FrameParts
<1> HIDE DEF before, payload
<1>8. rest \in Seq(Byte)
  BY <1>1, <1>3
<1>9. BodyOf(ms, status) = (before \o frame) \o rest
  <2> DEFINE first == before \o frame
  <2>1. first \in Seq(Byte)
    BY <1>4, <1>7
  <2> HIDE DEF first
  <2>2. (first \o Beyond(ms, k)) \o trailers = first \o (Beyond(ms, k) \o trailers)
    <3> DEFINE after == Beyond(ms, k)
    <3>1. after \in Seq(Byte)
      BY <1>3
    <3> HIDE DEF after
    <3>2. (first \o after) \o trailers = first \o (after \o trailers)
      BY <1>1, <2>1, <3>1, BytesRegroup
    <3> QED
      BY <3>2 DEF after
  <2> QED
    BY <1>2, <1>3, <2>2 DEF first
<1> HIDE DEF rest
<1>a. Len(BodyOf(ms, status)) = Len(before) + (HeaderLen + Len(payload)) + Len(rest)
  <2> HIDE DEF frame
  <2>0. frame \in Seq(Byte)
    BY <1>7
  <2>1. before \o frame \in Seq(Byte) /\ Len(before \o frame) = Len(before) + Len(frame)
    BY <1>4, <2>0, ConcatProperties
  <2>2. Len((before \o frame) \o rest) = Len(before \o frame) + Len(rest)
    BY <1>8, <2>1, ConcatProperties
  <2> QED
    BY <1>7, <1>9, <2>1, <2>2
<1> SUFFICES ASSUME n >= Offset(ms, k - 1) PROVE FrameSeen(ms, status, n, k)
  OBVIOUS
<1>b. Len(before) \in Nat /\ Len(before) <= n
  BY <1>4, <1>5
<1>c. IsRead(0, payload, before, rest, n)
  <2>1. n <= Len(before) + (HeaderLen + Len(payload)) + Len(rest)
    BY <1>a
  <2> QED
    BY <1>3, <1>4, <1>6, <1>8, <1>b, <2>1, FrameRead
<1> QED
  BY <1>5, <1>9, <1>c DEF IsRead, FrameSeen, Left, frame, before, payload

(* The reader who is past the last frame.                                  *)
LEMMA TrailersAreSeen ==
  ASSUME NEW ms \in Seq(Messages), NEW status \in Seq(Byte), Len(status) <= 1,
         NEW n \in Nat, n <= Len(BodyOf(ms, status)), n >= Offset(ms, Len(ms))
  PROVE  LET left == Left(ms, status, n, Len(ms))
         IN /\ Complete(left) <=> status # <<>> /\ n = Len(BodyOf(ms, status))
            /\ Complete(left) => left[1] = TrailersFlag /\ Payload(left) = status
<1> DEFINE trailers == IF status = <<>> THEN <<>> ELSE encode_trailers_frame(status[1])
           before == FramesOf(ms)
           left == Left(ms, status, n, Len(ms))
           body == BodyOf(ms, status)
<1>1. /\ trailers \in Seq(Byte)
      /\ status # <<>> => trailers = Frame(TrailersFlag, status) /\ Len(status) = 1 /\ Short(status)
  BY TailIsRead
<1>2. body = before \o trailers
  BY DEF BodyOf
<1>3. before \in Seq(Byte) /\ Offset(ms, Len(ms)) = Len(before) /\ body \in Seq(Byte)
  BY FramesUpTo, BodyTyped DEF Offset
<1>4. Len(body) = Len(before) + IF status = <<>> THEN 0 ELSE HeaderLen + 1
  BY <1>3, BodyTyped
<1>5. left = From(SubSeq(body, 1, n), Len(before))
  BY <1>3 DEF Left
<1>6. CASE status = <<>>
  <2> HIDE DEF body, before
  <2>1. n = Len(before) /\ n = Len(body) /\ SubSeq(body, 1, n) \in Seq(Byte) /\ Len(SubSeq(body, 1, n)) = n
    BY <1>3, <1>4, <1>6 DEF body
  <2>2. Len(left) = 0
    BY <1>5, <2>1 DEF From
  <2>3. ~Complete(left)
    BY <2>2 DEF Complete, HeaderLen
  <2> QED
    BY <1>6, <2>3 DEF body
<1>7. CASE status # <<>>
  <2>1. trailers = Frame(TrailersFlag, status) /\ Len(status) = 1 /\ Short(status)
    BY <1>1, <1>7
  <2> HIDE DEF trailers
  <2>2. TrailersFlag \in Byte /\ <<>> \in Seq(Byte)
    BY DEF TrailersFlag, Byte
  <2> DEFINE frame == Frame(TrailersFlag, status)
  <2>3. frame \in Seq(Byte)
    BY <2>2, FrameParts
  <2> HIDE DEF frame, before, body, left
  <2>4. (before \o frame) \o <<>> = before \o frame
    BY <1>3, <2>3
  <2>5. Len(before) <= n /\ n <= Len(before) + (HeaderLen + Len(status)) + Len(<<>>)
    BY <1>3, <1>4, <1>7, <2>1 DEF HeaderLen, body
  <2>6. IsRead(TrailersFlag, status, before, <<>>, n)
    BY <1>3, <2>1, <2>2, <2>5, FrameRead, Zenon
  <2>7. left = From(SubSeq((before \o Frame(TrailersFlag, status)) \o <<>>, 1, n), Len(before))
    BY <1>2, <1>5, <2>1, <2>4 DEF frame
  <2>8. /\ Complete(left) <=> n >= Len(before) + HeaderLen + Len(status)
        /\ Complete(left) => left[1] = TrailersFlag /\ Payload(left) = status
    BY <2>6, <2>7 DEF IsRead
  <2>9. n >= Len(before) + HeaderLen + Len(status) <=> n = Len(body)
    BY <1>3, <1>4, <1>7, <2>1 DEF HeaderLen, body
  <2> QED
    BY <1>7, <2>8, <2>9 DEF left, body
<1> QED
  BY <1>6, <1>7

(* A turn of the scan leads from a scan to a scan.                         *)
LEMMA ScanTyped ==
  ASSUME NEW data \in Seq(Byte)
  PROVE  /\ ScanStep(data) \in Steps(Scans, Byte) /\ ScanStart \in Scans
         /\ \A scan \in Scans : \A b \in Byte : ScanStep(data)[scan][b] = ScanFrame(data, scan)
<1>1. ASSUME NEW scan \in Scans PROVE ScanFrame(data, scan) \in Scans
  <2> DEFINE left == From(data, scan.offset)
  <2>1. scan.offset \in Nat /\ scan.frames \in Seq(Seq(Byte)) /\ scan.trailers \in Seq(Seq(Byte))
    BY DEF Scans
  <2>2. left \in Seq(Byte)
    BY <2>1 DEF From
  <2> HIDE DEF left
  <2>3. CASE ~Complete(left) \/ scan.trailers # <<>>
    BY <2>3 DEF ScanFrame, left
  <2>4. CASE Complete(left) /\ scan.trailers = <<>>
    <3>1. FrameLen(left) \in Nat
      <4>1. Len(left) >= 5 /\ Len(left) \in Nat
        BY <2>2, <2>4 DEF Complete, HeaderLen
      <4>2. \A i \in 1..Len(left) : left[i] \in Byte
        BY <2>2
      <4>3. left[2] \in Byte /\ left[3] \in Byte /\ left[4] \in Byte /\ left[5] \in Byte
        BY <4>1, <4>2
      <4>4. PICK a, b, c, d \in Byte : left[2] = a /\ left[3] = b /\ left[4] = c /\ left[5] = d
        BY <4>3
      <4>5. ((a * 256 + b) * 256 + c) * 256 + d \in Nat
        BY DEF Byte
      <4> QED
        BY <4>4, <4>5 DEF FrameLen
    <3>2. Payload(left) \in Seq(Byte)
      <4>1. SubSeq(left, 6, 5 + FrameLen(left)) \in Seq(Byte)
        <5>1. 5 + FrameLen(left) <= Len(left)
          BY <2>2, <2>4, <3>1 DEF Complete, HeaderLen
        <5> HIDE DEF FrameLen
        <5> QED
          BY <2>2, <3>1, <5>1
      <4> QED
        BY <3>1, <4>1 DEF Payload, Slice, HeaderLen
    <3> DEFINE payload == Payload(left)
               longer == Append(scan.frames, payload)
               further == scan.offset + HeaderLen + FrameLen(left)
    <3> HIDE DEF payload
    <3>3. payload \in Seq(Byte)
      BY <3>2 DEF payload
    <3>4. [scan EXCEPT !.trailers = <<payload>>] \in Scans
      <4>1. <<payload>> \in Seq(Seq(Byte))
        BY <3>3
      <4> DEFINE found == <<payload>>
      <4> HIDE DEF found
      <4>2. [scan EXCEPT !.trailers = found] \in Scans
        BY <4>1 DEF Scans, found
      <4> QED
        BY <4>2 DEF found
    <3>5. [scan EXCEPT !.offset = further, !.frames = longer] \in Scans
      <4>1. longer \in Seq(Seq(Byte))
        BY <2>1, <3>3
      <4>2. further \in Nat
        BY <2>1, <3>1 DEF HeaderLen
      <4> HIDE DEF longer, further
      <4> QED
        BY <4>1, <4>2 DEF Scans
    <3> QED
      BY <2>4, <3>4, <3>5 DEF ScanFrame, left, payload
  <2> QED
    BY <2>3, <2>4
<1>2. ScanStart \in Scans
  BY DEF ScanStart, Scans
<1> QED
  BY <1>1, <1>2 DEF ScanStep, Steps

(* How many frames are complete in the first n bytes.                      *)
LEMMA CompleteFrames ==
  ASSUME NEW ms \in Seq(Messages), NEW n \in Nat
  PROVE  \E j \in 0..Len(ms) : /\ \A k \in 0..j : Offset(ms, k) <= n
                               /\ j # Len(ms) => Offset(ms, j + 1) > n
<1>1. Len(ms) \in Nat /\ Offset(ms, 0) = 0 /\ \A k \in 0..Len(ms) : Offset(ms, k) \in Nat
  BY Offsets
<1> DEFINE Beyonds == {k \in 0..Len(ms) : Offset(ms, k) > n}
<1>2. CASE Beyonds = {}
  <2>1. Len(ms) \in 0..Len(ms) /\ \A k \in 0..Len(ms) : Offset(ms, k) <= n
    BY <1>1, <1>2
  <2> QED
    BY <2>1
<1>3. CASE Beyonds # {}
  <2>1. PICK l \in Beyonds : \A k \in Beyonds : l <= k
    <3>1. Beyonds \subseteq Nat
      BY <1>1
    <3> QED
      BY <1>3, <3>1, LeastNumber
  <2>2. l \in 0..Len(ms) /\ l # 0 /\ Offset(ms, l) > n
    BY <1>1, <2>1
  <2>3. l - 1 \in 0..Len(ms) /\ (l - 1) + 1 = l /\ \A k \in 0..(l - 1) : k \in 0..Len(ms) /\ ~(l <= k)
    BY <1>1, <2>2
  <2>4. \A k \in 0..(l - 1) : Offset(ms, k) <= n
    BY <1>1, <2>1, <2>3
  <2> QED
    BY <2>2, <2>3, <2>4
<1> QED
  BY <1>2, <1>3

(* Every frame takes a byte at least.                                      *)
LEMMA OffsetIsLong ==
  ASSUME NEW ms \in Seq(Messages)
  PROVE  \A k \in 0..Len(ms) : k <= Offset(ms, k)
<1>1. Writes(Byte, Seq(Byte), FrameStep, FramePart) /\ \A t : FramesOf(t) = TextOf(FrameStep, t)
  BY FramesAreWritten
<1>2. \A m \in Seq(Byte) : FramePart[m] # <<>>
  <2> TAKE m \in Seq(Byte)
  <2>1. 0 \in Byte /\ FramePart[m] = Frame(0, m)
    BY DEF Byte, FramePart, encode_grpc_frame
  <2>2. Len(Frame(0, m)) = HeaderLen + Len(m)
    BY <2>1, FrameParts
  <2>3. Len(Frame(0, m)) # 0
    BY <2>2 DEF HeaderLen
  <2> QED
    BY <2>1, <2>3
<1>3. \A s \in Seq(Seq(Byte)) : Len(TextOf(FrameStep, s)) >= Len(s)
  BY <1>1, <1>2, WrittenLength
<1>4. \A k \in 0..Len(ms) : SubSeq(ms, 1, k) \in Seq(Seq(Byte)) /\ Len(SubSeq(ms, 1, k)) = k
  BY DEF Messages
<1> QED
  <2> TAKE k \in 0..Len(ms)
  <2> DEFINE part == SubSeq(ms, 1, k)
  <2>1. part \in Seq(Seq(Byte)) /\ Len(part) = k
    BY <1>4
  <2>2. Offset(ms, k) = Len(TextOf(FrameStep, part))
    BY <1>1 DEF Offset, UpTo
  <2> HIDE DEF part
  <2>3. Len(TextOf(FrameStep, part)) >= Len(part)
    BY <1>3, <2>1
  <2>4. Offset(ms, k) \in Nat
    BY Offsets
  <2> QED
    BY <2>1, <2>2, <2>3, <2>4

(* The scan after k of the frames, and the scan at its end.                *)
ScanAt(ms, k) == [offset |-> Offset(ms, k), frames |-> SubSeq(ms, 1, k), trailers |-> <<>>]
Ended(ms, status, n) == status # <<>> /\ n = Len(BodyOf(ms, status))
ScanEnd(ms, status, n, j) ==
  IF Ended(ms, status, n) THEN [ScanAt(ms, j) EXCEPT !.trailers = <<status>>] ELSE ScanAt(ms, j)

(* decode_grpc_frames, of the first n bytes of a body of frames: the       *)
(* messages whose frames are complete, and the trailers when all is there. *)
LEMMA Scanned ==
  ASSUME NEW ms \in Seq(Messages), NEW status \in Seq(Byte), Len(status) <= 1,
         NEW n \in Nat, n <= Len(BodyOf(ms, status))
  PROVE  \E j \in 0..Len(ms) :
           /\ decode_grpc_frames(SubSeq(BodyOf(ms, status), 1, n)) =
                [frames |-> SubSeq(ms, 1, j),
                 trailers |-> IF Ended(ms, status, n) THEN <<status>> ELSE <<>>]
           /\ n = Len(BodyOf(ms, status)) => j = Len(ms)
<1> DEFINE body == BodyOf(ms, status)
           data == SubSeq(body, 1, n)
           f == ScanStep(data)
<1>1. PICK j \in 0..Len(ms) : /\ \A k \in 0..j : Offset(ms, k) <= n
                              /\ j # Len(ms) => Offset(ms, j + 1) > n
  BY CompleteFrames
<1>2. /\ Len(ms) \in Nat /\ Offset(ms, 0) = 0
      /\ \A k \in 0..Len(ms) : Offset(ms, k) \in Nat /\ Offset(ms, k) <= Offset(ms, Len(ms))
      /\ \A k \in 1..Len(ms) : Offset(ms, k) = Offset(ms, k - 1) + HeaderLen + Len(ms[k])
  BY Offsets
<1>3. /\ body \in Seq(Byte)
      /\ Len(body) = Offset(ms, Len(ms)) + IF status = <<>> THEN 0 ELSE HeaderLen + 1
  BY BodyTyped
<1>4. data \in Seq(Byte) /\ Len(data) = n
  <2> HIDE DEF body
  <2> QED
    BY <1>3 DEF body
<1>5. n = Len(body) => j = Len(ms)
  <2> SUFFICES ASSUME j # Len(ms), n = Len(body) PROVE FALSE
    OBVIOUS
  <2>1. j + 1 \in 0..Len(ms)
    BY <1>1, <1>2
  <2> DEFINE next == Offset(ms, j + 1)
             end == Offset(ms, Len(ms))
  <2>2. next > n /\ next <= end
    BY <1>1, <1>2, <2>1
  <2>4. next \in Nat /\ end \in Nat
    BY <1>2, <2>1
  <2> HIDE DEF next, end, body, data, f
  <2>3. end <= n
    <3>1. n = end + IF status = <<>> THEN 0 ELSE HeaderLen + 1
      BY <1>3 DEF end, body
    <3>2. CASE status = <<>>
      BY <2>4, <3>1, <3>2
    <3>3. CASE status # <<>>
      BY <2>4, <3>1, <3>3 DEF HeaderLen
    <3> QED
      BY <3>2, <3>3
  <2> QED
    BY <2>2, <2>3, <2>4
<1> HIDE DEF data
<1>6. ASSUME NEW k \in 1..j PROVE ScanFrame(data, ScanAt(ms, k - 1)) = ScanAt(ms, k)
  <2>1. k \in 1..Len(ms) /\ k - 1 \in 0..j /\ k \in 0..j
    BY <1>1, <1>2
  <2>2. FrameSeen(ms, status, n, k)
    BY <1>1, <2>1, FramesAreSeen
  <2> DEFINE left == From(data, Offset(ms, k - 1))
  <2>3. Complete(left) /\ left[1] = 0 /\ FrameLen(left) = Len(ms[k]) /\ Payload(left) = ms[k]
    BY <1>1, <2>1, <2>2 DEF FrameSeen, Left, data
  <2>4. SubSeq(ms, 1, k) = Append(SubSeq(ms, 1, k - 1), ms[k])
    BY <2>1
  <2> HIDE DEF left
  <2> DEFINE scan == ScanAt(ms, k - 1)
  <2>5. scan.trailers = <<>> /\ scan.offset = Offset(ms, k - 1) /\ scan.frames = SubSeq(ms, 1, k - 1)
    BY DEF ScanAt
  <2>6. ScanFrame(data, scan) =
          [scan EXCEPT !.offset = @ + HeaderLen + Len(ms[k]), !.frames = Append(@, ms[k])]
    <3> HIDE DEF scan
    <3>1. From(data, scan.offset) = left
      BY <2>5 DEF left
    <3>2. left[1] # TrailersFlag
      BY <2>3 DEF TrailersFlag
    <3> QED
      BY <2>3, <2>5, <3>1, <3>2 DEF ScanFrame
  <2> QED
    BY <1>2, <2>1, <2>4, <2>6 DEF ScanAt
<1>7. ScanFrame(data, ScanAt(ms, j)) = ScanEnd(ms, status, n, j)
  <2> DEFINE left == From(data, Offset(ms, j))
  <2>1. CASE j # Len(ms)
    <3>1. j + 1 \in 1..Len(ms) /\ j \in 0..j /\ (j + 1) - 1 = j
      BY <1>1, <1>2, <2>1
    <3>2. FrameSeen(ms, status, n, j + 1)
      BY <1>1, <3>1, FramesAreSeen
    <3>3. Offset(ms, j + 1) \in Nat /\ ~(n >= Offset(ms, j + 1))
      BY <1>1, <1>2, <2>1, <3>1
    <3>4. ~Complete(left)
      BY <3>1, <3>2, <3>3 DEF FrameSeen, Left, data
    <3>5. ~Ended(ms, status, n)
      BY <1>5, <2>1 DEF Ended
    <3> HIDE DEF left
    <3> QED
      BY <3>4, <3>5 DEF ScanFrame, ScanAt, ScanEnd, left
  <2>2. CASE j = Len(ms)
    <3>1. n >= Offset(ms, Len(ms))
      <4>1. j \in 0..j
        BY <1>1
      <4> QED
        BY <1>1, <1>2, <2>2, <4>1
    <3>2. /\ Complete(left) <=> Ended(ms, status, n)
          /\ Complete(left) => left[1] = TrailersFlag /\ Payload(left) = status
      BY <2>2, <3>1, TrailersAreSeen DEF Left, Ended, data
    <3> HIDE DEF left
    <3>3. CASE Complete(left)
      BY <3>2, <3>3 DEF ScanFrame, ScanAt, ScanEnd, left
    <3>4. CASE ~Complete(left)
      BY <3>2, <3>4 DEF ScanFrame, ScanAt, ScanEnd, left
    <3> QED
      BY <3>3, <3>4
  <2> QED
    BY <2>1, <2>2
<1>8. ScanFrame(data, ScanEnd(ms, status, n, j)) = ScanEnd(ms, status, n, j)
  <2>1. CASE Ended(ms, status, n)
    <3>1. ScanEnd(ms, status, n, j).trailers # <<>>
      BY <2>1 DEF ScanEnd, ScanAt
    <3> QED
      BY <3>1 DEF ScanFrame
  <2>2. CASE ~Ended(ms, status, n)
    BY <1>7, <2>2 DEF ScanEnd
  <2> QED
    BY <2>1, <2>2
<1> DEFINE h == [k \in Nat |-> IF k <= j THEN ScanAt(ms, k) ELSE ScanEnd(ms, status, n, j)]
<1>9. \A k \in Nat : h[k] \in Scans
  <2>1. \A k \in 0..j : ScanAt(ms, k) \in Scans
    <3> TAKE k \in 0..j
    <3>1. k \in 0..Len(ms)
      BY <1>1, <1>2
    <3>2. SubSeq(ms, 1, k) \in Seq(Seq(Byte)) /\ Offset(ms, k) \in Nat /\ <<>> \in Seq(Seq(Byte))
      <4>1. SubSeq(ms, 1, k) \in Seq(Messages)
        BY <1>2, <3>1
      <4>2. Seq(Messages) \subseteq Seq(Seq(Byte))
        <5>1. Messages \subseteq Seq(Byte)
          BY DEF Messages
        <5> HIDE DEF Messages
        <5>2. \A A, B : A \subseteq B => Seq(A) \subseteq Seq(B)
          OBVIOUS
        <5> QED
          BY <5>1, <5>2
      <4> QED
        BY <1>2, <3>1, <4>1, <4>2
    <3> QED
      BY <3>2 DEF ScanAt, Scans
  <2>2. ScanEnd(ms, status, n, j) \in Scans
    <3>1. ScanAt(ms, j) \in Scans /\ <<status>> \in Seq(Seq(Byte))
      BY <1>1, <2>1
    <3> QED
      BY <3>1 DEF ScanEnd, Scans
  <2> QED
    BY <1>1, <2>1, <2>2
<1>a. f \in Steps(Scans, Byte) /\ ScanStart \in Scans
      /\ \A scan \in Scans : \A b \in Byte : f[scan][b] = ScanFrame(data, scan)
  BY <1>4, ScanTyped
<1>b. h[0] = ScanStart
  <2>1. SubSeq(ms, 1, 0) = <<>>
    BY SubSeqEmpty
  <2> QED
    BY <1>1, <1>2, <2>1 DEF ScanAt, ScanStart
<1>c. \A k \in 1..Len(data) : f[h[k - 1]][data[k]] = h[k]
  <2> TAKE k \in 1..Len(data)
  <2>1. k - 1 \in Nat /\ k \in Nat /\ j \in Nat /\ data[k] \in Byte
    BY <1>1, <1>4
  <2>2. h[k - 1] \in Scans
    BY <1>9, <2>1
  <2>3. f[h[k - 1]][data[k]] = ScanFrame(data, h[k - 1])
    <3> HIDE DEF f, h
    <3> QED
      BY <1>a, <2>1, <2>2
  <2>4. ScanFrame(data, h[k - 1]) = h[k]
    <3>1. CASE k <= j
      BY <1>6, <2>1, <3>1
    <3>2. CASE k = j + 1
      BY <1>7, <2>1, <3>2
    <3>3. CASE k > j + 1
      BY <1>8, <2>1, <3>3
    <3> QED
      BY <2>1, <3>1, <3>2, <3>3
  <2> QED
    BY <2>3, <2>4
<1>d. Fold(f, ScanStart, data) = h[Len(data)]
  <2> HIDE DEF f, h
  <2> QED
    <3>1. FoldsTo(f, ScanStart, data, h)
      BY <1>b, <1>c DEF FoldsTo
    <3> QED
      BY <1>4, <1>a, <3>1, FoldIs
<1>e. h[n] = ScanEnd(ms, status, n, j)
  <2>1. j <= Offset(ms, j) /\ j \in 0..j /\ Offset(ms, j) \in Nat /\ j \in Nat
    BY <1>1, <1>2, OffsetIsLong
  <2>2. j <= n
    BY <1>1, <2>1
  <2>3. CASE n = j
    <3>1. ~Ended(ms, status, n)
      <4> SUFFICES ASSUME Ended(ms, status, n) PROVE FALSE
        OBVIOUS
      <4>1. n = Offset(ms, Len(ms)) + HeaderLen + 1 /\ Offset(ms, j) <= Offset(ms, Len(ms)) /\ Offset(ms, Len(ms)) \in Nat
        BY <1>1, <1>2, <1>3 DEF Ended, HeaderLen
      <4> QED
        BY <2>1, <2>3, <4>1 DEF HeaderLen
    <3> QED
      BY <2>1, <2>3, <3>1 DEF ScanEnd
  <2>4. CASE n # j
    BY <2>1, <2>2, <2>4
  <2> QED
    BY <2>3, <2>4
<1>f. /\ ScanEnd(ms, status, n, j).frames = SubSeq(ms, 1, j)
      /\ ScanEnd(ms, status, n, j).trailers = IF Ended(ms, status, n) THEN <<status>> ELSE <<>>
  BY DEF ScanEnd, ScanAt
<1>g. decode_grpc_frames(data) = [frames |-> SubSeq(ms, 1, j),
                                  trailers |-> IF Ended(ms, status, n) THEN <<status>> ELSE <<>>]
  <2> HIDE DEF h
  <2> QED
    BY <1>4, <1>d, <1>e, <1>f DEF decode_grpc_frames
<1> QED
  BY <1>1, <1>5, <1>g DEF data

-----------------------------------------------------------------------------
(* The escaped message of a status                                         *)

(* Escaping, byte by byte.                                                 *)
EscapePart == [b \in Byte |-> Escaped(b)]

LEMMA EscapesAreWritten ==
  /\ Writes(Byte, Byte, EscapeStep, EscapePart) /\ \A m : encode_grpc_message(m) = TextOf(EscapeStep, m)
  /\ \A b \in Byte : EscapePart[b] = Escaped(b)
<1>1. ASSUME NEW b \in Byte PROVE Escaped(b) \in Seq(Byte)
  <2>1. CASE b \in 32..126 /\ b # Percent
    BY <2>1 DEF Escaped
  <2>2. CASE ~(b \in 32..126 /\ b # Percent)
    <3>1. Percent \in Byte /\ HexDigit(b \div 16) \in Byte /\ HexDigit(b % 16) \in Byte
      BY SMT DEF Percent, HexDigit, Byte
    <3>2. Hex(b) \in Seq(Byte)
      <4> DEFINE high == HexDigit(b \div 16)
                 low == HexDigit(b % 16)
      <4>1. Hex(b) = <<Percent, high, low>>
        BY DEF Hex
      <4> HIDE DEF high, low
      <4> QED
        BY <3>1, <4>1 DEF high, low
    <3> QED
      BY <2>2, <3>2 DEF Escaped
  <2> QED
    BY <2>1, <2>2
<1>2. EscapePart \in [Byte -> Seq(Byte)] /\ \A b \in Byte : EscapePart[b] = Escaped(b)
  BY <1>1 DEF EscapePart
<1>3. EscapeStep \in [Seq(Byte) -> [Byte -> Seq(Byte)]]
  BY <1>1 DEF EscapeStep
<1>4. \A out \in Seq(Byte) : \A b \in Byte : EscapeStep[out][b] = out \o EscapePart[b]
  BY DEF EscapeStep, EscapePart
<1> QED
  BY <1>2, <1>3, <1>4 DEF Writes, Steps, encode_grpc_message, TextOf

(* An escaped byte is visible ASCII, and starts with `%` or is the byte.   *)
Visible == 32..126

LEMMA EscapedParts ==
  ASSUME NEW b \in Byte
  PROVE  /\ Escaped(b) \in Seq(Visible) /\ Escaped(b) # <<>>
         /\ \/ Escaped(b) = <<b>> /\ b # Percent
            \/ \E high, low \in Byte : /\ Escaped(b) = <<Percent, high, low>>
                                       /\ to_digit(high) < 16 /\ to_digit(low) < 16
                                       /\ to_digit(high) * 16 + to_digit(low) = b
<1>1. CASE b \in 32..126 /\ b # Percent
  <2>1. Escaped(b) = <<b>>
    BY <1>1 DEF Escaped
  <2>2. b \in Visible
    BY <1>1 DEF Visible
  <2>3. <<b>> \in Seq(Visible) /\ <<b>> # <<>>
    BY <2>2
  <2> QED
    BY <1>1, <2>1, <2>3
<1>2. CASE ~(b \in 32..126 /\ b # Percent)
  <2> DEFINE high == HexDigit(b \div 16)
             low == HexDigit(b % 16)
  <2>1. b \div 16 \in 0..15 /\ b % 16 \in 0..15 /\ (b \div 16) * 16 + (b % 16) = b
    <3>0. b \in 0..255
      BY DEF Byte
    <3>1. b \div 16 \in 0..15
      BY <3>0, SMT
    <3>2. b % 16 \in 0..15
      BY <3>0, SMT
    <3>3. (b \div 16) * 16 + (b % 16) = b
      BY <3>0, SMT
    <3> QED
      BY <3>1, <3>2, <3>3
  <2>2. \A n \in 0..15 : HexDigit(n) \in 48..57 \cup 65..70 /\ to_digit(HexDigit(n)) = n
    BY SMT DEF HexDigit, to_digit
  <2>3. high \in Byte /\ low \in Byte /\ high \in Visible /\ low \in Visible /\ Percent \in Visible
    BY <2>1, <2>2 DEF Byte, Percent, Visible
  <2>4. to_digit(high) = b \div 16 /\ to_digit(low) = b % 16
    BY <2>1, <2>2
  <2>5. Escaped(b) = <<Percent, high, low>>
    BY <1>2 DEF Escaped, Hex
  <2> HIDE DEF high, low
  <2>6. Escaped(b) \in Seq(Visible) /\ Escaped(b) # <<>>
    <3>1. <<Percent, high, low>> \in Seq(Visible) /\ <<Percent, high, low>> # <<>>
      BY <2>3
    <3> QED
      BY <2>5, <3>1
  <2>7. to_digit(high) < 16 /\ to_digit(low) < 16 /\ to_digit(high) * 16 + to_digit(low) = b
    <3>1. to_digit(high) \in 0..15 /\ to_digit(low) \in 0..15
      BY <2>1, <2>4
    <3>2. to_digit(high) * 16 + to_digit(low) = b
      BY <2>1, <2>4
    <3> QED
      BY <3>1, <3>2
  <2>8. \E hi, lo \in Byte : /\ Escaped(b) = <<Percent, hi, lo>>
                             /\ to_digit(hi) < 16 /\ to_digit(lo) < 16
                             /\ to_digit(hi) * 16 + to_digit(lo) = b
    BY <2>3, <2>5, <2>7
  <2> QED
    BY <2>6, <2>8
<1> QED
  BY <1>1, <1>2

(* So http::HeaderValue takes an escaped text and gives it back.           *)
LEMMA EscapedIsVisible ==
  \A m \in Seq(Byte) : /\ encode_grpc_message(m) \in Seq(Byte)
                       /\ \A i \in DOMAIN encode_grpc_message(m) : encode_grpc_message(m)[i] \in 32..126
<1>1. /\ Writes(Byte, Byte, EscapeStep, EscapePart) /\ \A m : encode_grpc_message(m) = TextOf(EscapeStep, m)
      /\ \A b \in Byte : EscapePart[b] = Escaped(b)
  BY EscapesAreWritten
<1>2. /\ TextOf(EscapeStep, <<>>) = <<>>
      /\ \A s \in Seq(Byte) : TextOf(EscapeStep, s) \in Seq(Byte)
      /\ \A s \in Seq(Byte) : \A x \in Byte : TextOf(EscapeStep, Append(s, x)) = TextOf(EscapeStep, s) \o EscapePart[x]
  BY <1>1, TextGrows
<1> DEFINE T == {s \in Seq(Byte) : TextOf(EscapeStep, s) \in Seq(Visible)}
<1>3. <<>> \in T
  <2>1. <<>> \in Seq(Byte) /\ <<>> \in Seq(Visible)
    OBVIOUS
  <2> QED
    BY <1>2, <2>1
<1>4. ASSUME NEW s \in Seq(Byte), NEW b \in Byte, s \in T PROVE Append(s, b) \in T
  <2>1. Escaped(b) \in Seq(Visible)
    BY EscapedParts
  <2>2. TextOf(EscapeStep, Append(s, b)) = TextOf(EscapeStep, s) \o EscapePart[b]
    BY <1>2
  <2>3. Append(s, b) \in Seq(Byte) /\ EscapePart[b] = Escaped(b)
    BY <1>1
  <2> DEFINE before == TextOf(EscapeStep, s)
             part == Escaped(b)
  <2>4. before \in Seq(Visible) /\ part \in Seq(Visible)
    BY <1>4, <2>1
  <2> HIDE DEF before, part, T
  <2>5. before \o part \in Seq(Visible)
    BY <2>4
  <2> QED
    BY <2>2, <2>3, <2>5 DEF before, part, T
<1> HIDE DEF T
<1>5. \A s \in Seq(Byte) : s \in T
  BY <1>3, <1>4, EverySequence
<1> TAKE m \in Seq(Byte)
<1>6. encode_grpc_message(m) \in Seq(Byte) /\ encode_grpc_message(m) \in Seq(Visible)
  BY <1>1, <1>2, <1>5 DEF T
<1>7. \A i \in DOMAIN encode_grpc_message(m) : encode_grpc_message(m)[i] \in Visible
  <2> DEFINE text == encode_grpc_message(m)
  <2>1. text \in Seq(Visible)
    BY <1>6
  <2> HIDE DEF text
  <2> QED
    BY <2>1 DEF text
<1> QED
  BY <1>6, <1>7 DEF Visible

(* Reading an escaped text: a hexadecimal digit, and the start of the loop. *)
LEMMA Digits == \A b \in Byte : to_digit(b) \in Nat
  BY SMT DEF to_digit, Byte

UnescapeStart == [at |-> 0, out |-> <<>>]

(* A turn of the loop leads from a place in the text to another.           *)
LEMMA UnescapeTyped ==
  ASSUME NEW m \in Seq(Byte)
  PROVE  /\ UnescapeStep(m) \in Steps(Unescapes, Byte) /\ UnescapeStart \in Unescapes
         /\ \A done \in Unescapes : \A b \in Byte : UnescapeStep(m)[done][b] = UnescapeNext(m, done)
<1>1. ASSUME NEW done \in Unescapes PROVE UnescapeNext(m, done) \in Unescapes
  <2> DEFINE i == done.at + 1
             out == done.out
  <2>1. done.at \in Nat /\ i \in Nat /\ out \in Seq(Byte) /\ Len(m) \in Nat
    BY DEF Unescapes
  <2> HIDE DEF i, out
  <2>2. CASE done.at >= Len(m)
    BY <2>2 DEF UnescapeNext
  <2>3. CASE ~(done.at >= Len(m))
    <3>1. i \in 1..Len(m) /\ m[i] \in Byte
      BY <2>1, <2>3 DEF i
    <3>2. CASE /\ m[i] = Percent /\ i + 1 < Len(m)
               /\ to_digit(m[i + 1]) < 16 /\ to_digit(m[i + 2]) < 16
      <4>1. m[i + 1] \in Byte /\ m[i + 2] \in Byte
        BY <2>1, <3>1, <3>2
      <4>2. \A b \in Byte : to_digit(b) \in Nat
        BY Digits
      <4> DEFINE x == to_digit(m[i + 1]) * 16 + to_digit(m[i + 2])
      <4>3. \A p, q \in Nat : p < 16 /\ q < 16 => p * 16 + q \in Byte
        BY DEF Byte
      <4>4. x \in Byte
        BY <3>2, <4>1, <4>2, <4>3
      <4> HIDE DEF x
      <4>5. Append(out, x) \in Seq(Byte) /\ done.at + 3 \in Nat
        BY <2>1, <4>4
      <4>6. UnescapeNext(m, done) = [at |-> done.at + 3, out |-> Append(out, x)]
        BY <2>3, <3>2 DEF UnescapeNext, i, out, x
      <4> QED
        BY <4>5, <4>6 DEF Unescapes
    <3>3. CASE ~(/\ m[i] = Percent /\ i + 1 < Len(m)
                 /\ to_digit(m[i + 1]) < 16 /\ to_digit(m[i + 2]) < 16)
      <4>1. Append(out, m[i]) \in Seq(Byte)
        BY <2>1, <3>1
      <4>2. UnescapeNext(m, done) = [at |-> i, out |-> Append(out, m[i])]
        BY <2>3, <3>3 DEF UnescapeNext, i, out
      <4> QED
        BY <2>1, <4>1, <4>2 DEF Unescapes
    <3> QED
      BY <3>2, <3>3
  <2> QED
    BY <2>2, <2>3
<1>2. UnescapeStart \in Unescapes
  BY DEF UnescapeStart, Unescapes
<1> QED
  BY <1>1, <1>2 DEF UnescapeStep, Steps

(* If a turn at a time takes one more byte of a text, from a place to the  *)
(* next, the text is what is read.                                         *)
Turns(m, text, at) ==
  /\ at \in [0..Len(text) -> Nat] /\ at[0] = 0 /\ at[Len(text)] >= Len(m) /\ Len(text) <= Len(m)
  /\ \A k \in 1..Len(text) :
       UnescapeNext(m, [at |-> at[k - 1], out |-> SubSeq(text, 1, k - 1)]) =
         [at |-> at[k], out |-> SubSeq(text, 1, k)]

LEMMA UnescapeReads ==
  ASSUME NEW m \in Seq(Byte), NEW text \in Seq(Byte), NEW at, Turns(m, text, at)
  PROVE  Unescape(m) = text
<1> DEFINE n == Len(text)
           Has(k) == [at |-> at[k], out |-> SubSeq(text, 1, k)]
           h == [k \in Nat |-> IF k <= n THEN Has(k) ELSE Has(n)]
           f == UnescapeStep(m)
<1>1. n \in Nat /\ Len(m) \in Nat /\ n <= Len(m)
  BY DEF Turns
<1>2. \A k \in 0..n : at[k] \in Nat /\ SubSeq(text, 1, k) \in Seq(Byte)
  BY DEF Turns
<1>3. \A k \in Nat : h[k] \in Unescapes
  BY <1>1, <1>2 DEF Unescapes
<1>4. h[0] = UnescapeStart
  <2>1. SubSeq(text, 1, 0) = <<>>
    BY SubSeqEmpty
  <2> QED
    BY <1>1, <2>1 DEF Turns, UnescapeStart
<1>5. f \in Steps(Unescapes, Byte) /\ UnescapeStart \in Unescapes
      /\ \A done \in Unescapes : \A b \in Byte : f[done][b] = UnescapeNext(m, done)
  BY UnescapeTyped
<1>6. UnescapeNext(m, Has(n)) = Has(n)
  <2>1. Has(n).at >= Len(m)
    BY DEF Turns
  <2> HIDE DEF Has
  <2> QED
    BY <2>1 DEF UnescapeNext
<1>7. \A k \in 1..Len(m) : f[h[k - 1]][m[k]] = h[k]
  <2> TAKE k \in 1..Len(m)
  <2>1. k - 1 \in Nat /\ k \in Nat /\ m[k] \in Byte
    OBVIOUS
  <2>2. f[h[k - 1]][m[k]] = UnescapeNext(m, h[k - 1])
    <3> HIDE DEF f, h
    <3> QED
      BY <1>3, <1>5, <2>1
  <2>3. UnescapeNext(m, h[k - 1]) = h[k]
    <3>1. CASE k <= n
      <4>1. k \in 1..n
        BY <1>1, <3>1
      <4>2. UnescapeNext(m, Has(k - 1)) = Has(k)
        BY <4>1 DEF Turns
      <4>3. h[k - 1] = Has(k - 1) /\ h[k] = Has(k)
        BY <1>1, <2>1, <3>1
      <4> HIDE DEF h, Has
      <4> QED
        BY <4>2, <4>3
    <3>2. CASE ~(k <= n)
      <4>1. h[k] = Has(n)
        BY <2>1, <3>2
      <4>a. h[k - 1] = Has(n)
        <5>1. CASE k - 1 = n
          BY <1>1, <5>1
        <5>2. CASE k - 1 # n
          <6>1. ~(k - 1 <= n)
            BY <1>1, <2>1, <3>2, <5>2
          <6> QED
            BY <2>1, <6>1
        <5> QED
          BY <5>1, <5>2
      <4> HIDE DEF h, Has
      <4> QED
        BY <1>6, <4>1, <4>a
    <3> QED
      BY <3>1, <3>2
  <2> QED
    BY <2>2, <2>3
<1>8. Fold(f, UnescapeStart, m) = h[Len(m)]
  <2> HIDE DEF f, h
  <2>1. FoldsTo(f, UnescapeStart, m, h)
    BY <1>4, <1>7 DEF FoldsTo
  <2> QED
    BY <1>5, <2>1, FoldIs
<1>9. h[Len(m)] = Has(n)
  <2>1. CASE Len(m) = n
    BY <1>1, <2>1
  <2>2. CASE Len(m) # n
    <3>1. ~(Len(m) <= n)
      BY <1>1, <2>2
    <3> QED
      BY <1>1, <3>1
  <2> QED
    BY <2>1, <2>2
<1>a. Has(n).out = text
  BY SubSeqFull
<1> HIDE DEF h, Has
<1> QED
  BY <1>8, <1>9, <1>a DEF Unescape, UnescapeStart

(* encode_grpc_message and decode_grpc_message's loop: escaping and        *)
(* reading gives back every text.                                          *)
LEMMA EscapedIsRead == ASSUME NEW text \in Seq(Byte) PROVE Unescape(encode_grpc_message(text)) = text
<1> DEFINE m == encode_grpc_message(text)
           before(k) == TextOf(EscapeStep, SubSeq(text, 1, k))
           at == [k \in 0..Len(text) |-> Len(before(k))]
<1>1. /\ Writes(Byte, Byte, EscapeStep, EscapePart) /\ m = TextOf(EscapeStep, text)
      /\ \A b \in Byte : EscapePart[b] = Escaped(b)
  BY EscapesAreWritten
<1>2. TextOf(EscapeStep, <<>>) = <<>> /\ \A s \in Seq(Byte) : TextOf(EscapeStep, s) \in Seq(Byte)
  BY <1>1, TextGrows
<1>3. m \in Seq(Byte) /\ Len(m) \in Nat /\ Len(text) \in Nat
  BY <1>1, <1>2
<1>4. \A k \in 0..Len(text) : before(k) \in Seq(Byte) /\ at[k] = Len(before(k)) /\ at[k] \in Nat
  <2> TAKE k \in 0..Len(text)
  <2> DEFINE part == SubSeq(text, 1, k)
  <2>1. part \in Seq(Byte)
    OBVIOUS
  <2> HIDE DEF part
  <2>2. TextOf(EscapeStep, part) \in Seq(Byte)
    BY <1>2, <2>1
  <2> QED
    BY <2>2 DEF part
<1>5. at[0] = 0
  <2>1. SubSeq(text, 1, 0) = <<>>
    BY SubSeqEmpty
  <2>2. before(0) = <<>>
    BY <1>2, <2>1
  <2>3. 0 \in 0..Len(text) /\ Len(<<>>) = 0
    BY <1>3
  <2> HIDE DEF before
  <2> QED
    BY <2>2, <2>3
<1>6. at[Len(text)] = Len(m)
  <2>1. before(Len(text)) = m
    BY <1>1, SubSeqFull
  <2> QED
    BY <1>3, <1>4, <2>1
<1>7. Len(text) <= Len(m)
  <2>1. \A b \in Byte : EscapePart[b] # <<>>
    <3> TAKE b \in Byte
    <3>1. Escaped(b) # <<>>
      BY EscapedParts
    <3> QED
      BY <1>1, <3>1
  <2>2. \A s \in Seq(Byte) : Len(TextOf(EscapeStep, s)) >= Len(s)
    BY <1>1, <2>1, WrittenLength
  <2>3. Len(TextOf(EscapeStep, text)) >= Len(text)
    BY <2>2
  <2> QED
    BY <1>1, <1>3, <2>3
<1> HIDE DEF m, at
<1>8. ASSUME NEW k \in 1..Len(text)
      PROVE  UnescapeNext(m, [at |-> at[k - 1], out |-> SubSeq(text, 1, k - 1)]) =
               [at |-> at[k], out |-> SubSeq(text, 1, k)]
  <2> DEFINE b == text[k]
             part == Escaped(b)
             front == before(k - 1)
             after == TextOf(EscapeStep, SubSeq(text, k + 1, Len(text)))
             i == at[k - 1] + 1
             done == [at |-> at[k - 1], out |-> SubSeq(text, 1, k - 1)]
  <2>1. k - 1 \in 0..Len(text) /\ k \in 0..Len(text) /\ b \in Byte
    BY <1>3
  <2>2. StandsIn(Byte, EscapeStep, EscapePart, text, k)
    <3>1. \A s \in Seq(Byte) : \A j \in 1..Len(s) : StandsIn(Byte, EscapeStep, EscapePart, s, j)
      BY <1>1, WrittenAt, Zenon
    <3> QED
      BY <3>1
  <2>3. EscapePart[b] = part
    BY <1>1, <2>1
  <2>4. /\ front \in Seq(Byte) /\ part \in Seq(Byte) /\ after \in Seq(Byte)
        /\ before(k) = front \o part /\ m = (front \o part) \o after
    BY <1>1, <2>2, <2>3 DEF StandsIn
  <2>5. at[k - 1] = Len(front) /\ at[k] = Len(before(k)) /\ at[k - 1] \in Nat
    BY <1>4, <2>1
  <2>6. SubSeq(text, 1, k) = Append(SubSeq(text, 1, k - 1), b)
    OBVIOUS
  <2> HIDE DEF b, part, front, after, before
  <2>7. at[k] = at[k - 1] + Len(part) /\ Len(m) = at[k - 1] + Len(part) + Len(after)
        /\ \A j \in 1..Len(part) : m[at[k - 1] + j] = part[j]
    <3> DEFINE first == front \o part
    <3>1. first \in Seq(Byte) /\ Len(first) = at[k - 1] + Len(part) /\ before(k) = first /\ m = first \o after
      BY <2>4, <2>5
    <3>2. \A j \in 1..Len(part) : first[at[k - 1] + j] = part[j] /\ at[k - 1] + j \in 1..Len(first)
      BY <2>4, <2>5
    <3> HIDE DEF first
    <3>3. \A j \in 1..Len(first) : (first \o after)[j] = first[j]
      BY <2>4, <3>1
    <3>4. Len(first \o after) = Len(first) + Len(after)
      BY <2>4, <3>1
    <3> QED
      BY <2>5, <3>1, <3>2, <3>3, <3>4
  <2>8. Len(after) \in Nat
    BY <2>4
  <2>9. CASE part = <<b>> /\ b # Percent
    <3>1. Len(part) = 1 /\ part[1] = b
      BY <2>9
    <3>2. at[k] = i /\ ~(at[k - 1] >= Len(m)) /\ m[i] = b
      BY <2>5, <2>7, <2>8, <3>1
    <3>3. UnescapeNext(m, done) = [at |-> i, out |-> Append(done.out, m[i])]
      BY <2>9, <3>2 DEF UnescapeNext
    <3> QED
      BY <2>6, <3>2, <3>3
  <2>a. CASE \E high, low \in Byte : /\ part = <<Percent, high, low>>
                                     /\ to_digit(high) < 16 /\ to_digit(low) < 16
                                     /\ to_digit(high) * 16 + to_digit(low) = b
    <3>1. PICK high, low \in Byte : /\ part = <<Percent, high, low>>
                                    /\ to_digit(high) < 16 /\ to_digit(low) < 16
                                    /\ to_digit(high) * 16 + to_digit(low) = b
      BY <2>a
    <3>2. Len(part) = 3 /\ part[1] = Percent /\ part[2] = high /\ part[3] = low
      BY <3>1
    <3>3. m[i] = Percent /\ m[i + 1] = high /\ m[i + 2] = low
      <4>1. \A j \in 1..3 : m[at[k - 1] + j] = part[j]
        BY <2>7, <3>2
      <4>2. i = at[k - 1] + 1 /\ i + 1 = at[k - 1] + 2 /\ i + 2 = at[k - 1] + 3
        BY <2>5
      <4> QED
        BY <3>2, <4>1, <4>2
    <3>4. at[k] = at[k - 1] + 3 /\ ~(at[k - 1] >= Len(m)) /\ i + 1 < Len(m)
      BY <2>5, <2>7, <2>8, <3>2
    <3>5. UnescapeNext(m, done) = [at |-> at[k - 1] + 3, out |-> Append(SubSeq(text, 1, k - 1), b)]
      BY <3>1, <3>3, <3>4 DEF UnescapeNext
    <3> QED
      BY <2>6, <3>4, <3>5
  <2> QED
    BY <2>1, <2>9, <2>a, EscapedParts DEF part
<1>9. at \in [0..Len(text) -> Nat]
  BY <1>4 DEF at
<1>a. Turns(m, text, at)
  <2>1. at[Len(text)] >= Len(m)
    BY <1>3, <1>6
  <2>2. \A k \in 1..Len(text) :
          UnescapeNext(m, [at |-> at[k - 1], out |-> SubSeq(text, 1, k - 1)]) =
            [at |-> at[k], out |-> SubSeq(text, 1, k)]
    BY <1>8
  <2> QED
    BY <1>5, <1>7, <1>9, <2>1, <2>2 DEF Turns
<1> QED
  BY <1>3, <1>a, UnescapeReads DEF m

(* A text without `%` is read as it stands.                                *)
LEMMA PlainIsRead == ASSUME NEW m \in Seq(Byte), Plain(m) PROVE Unescape(m) = m
<1> DEFINE at == [k \in 0..Len(m) |-> k]
<1>1. at \in [0..Len(m) -> Nat] /\ at[0] = 0 /\ at[Len(m)] >= Len(m) /\ Len(m) <= Len(m)
  OBVIOUS
<1>2. ASSUME NEW k \in 1..Len(m)
      PROVE  UnescapeNext(m, [at |-> at[k - 1], out |-> SubSeq(m, 1, k - 1)]) =
               [at |-> at[k], out |-> SubSeq(m, 1, k)]
  <2>1. m[k] # Percent
    BY DEF Plain
  <2>2. SubSeq(m, 1, k) = Append(SubSeq(m, 1, k - 1), m[k])
    OBVIOUS
  <2>3. at[k - 1] = k - 1 /\ at[k] = k /\ (k - 1) + 1 = k /\ ~(k - 1 >= Len(m))
    OBVIOUS
  <2> DEFINE done == [at |-> k - 1, out |-> SubSeq(m, 1, k - 1)]
  <2>4. done.at + 1 = k /\ ~(done.at >= Len(m)) /\ done.out = SubSeq(m, 1, k - 1)
    BY <2>3
  <2>5. UnescapeNext(m, done) = [at |-> k, out |-> Append(done.out, m[k])]
    <3> HIDE DEF done
    <3> QED
      BY <2>1, <2>4 DEF UnescapeNext
  <2> QED
    BY <2>2, <2>3, <2>4, <2>5
<1>3. Turns(m, m, at)
  BY <1>1, <1>2 DEF Turns
<1> HIDE DEF at
<1> QED
  BY <1>3, UnescapeReads

(* What the client makes of a message in a header.                         *)
LEMMA MessagesSurvive ==
  ASSUME NEW m \in Seq(Byte), ValidUtf8(m)
  PROVE  /\ ClientMessage(EscapedHeader(m)) = m
         /\ Plain(m) => ClientMessage(RawHeader(m)) = m
<1>1. ClientMessage(EscapedHeader(m)) = m
  <2> DEFINE text == encode_grpc_message(m)
  <2>1. HeaderText(text) = text
    BY EscapedIsVisible DEF HeaderText
  <2>2. Unescape(text) = m
    BY EscapedIsRead
  <2> QED
    BY <2>1, <2>2 DEF ClientMessage, EscapedHeader, decode_grpc_message
<1>2. ASSUME Plain(m) PROVE ClientMessage(RawHeader(m)) = m
  <2>1. HeaderAccepts(m)
    <3>1. \A b \in 32..126 : b >= 32 /\ b # 127
      OBVIOUS
    <3>2. \A i \in DOMAIN m : m[i] \in 32..126
      BY <1>2 DEF Plain
    <3> QED
      BY <3>1, <3>2 DEF HeaderAccepts
  <2>2. HeaderText(m) = m
    BY <1>2 DEF Plain, HeaderText
  <2>3. Unescape(m) = m
    BY <1>2, PlainIsRead
  <2> QED
    BY <2>1, <2>2, <2>3 DEF ClientMessage, RawHeader, decode_grpc_message
<1> QED
  BY <1>1, <1>2

-----------------------------------------------------------------------------
(* Compressed frames and statuses                                          *)

(* A frame that is all there.                                              *)
LEMMA WholeFrame ==
  ASSUME NEW flag \in Byte, NEW payload \in Seq(Byte), Short(payload)
  PROVE  LET frame == Frame(flag, payload)
         IN frame[1] = flag /\ Complete(frame) /\ Payload(frame) = payload /\ ~(Len(frame) < HeaderLen)
<1> DEFINE frame == Frame(flag, payload)
           p == Len(payload)
           taken == SubSeq(frame, 6, 5 + p)
<1>1. /\ frame \in Seq(Byte) /\ Len(frame) = 5 + p /\ frame[1] = flag
      /\ \A i \in 1..p : frame[5 + i] = payload[i]
      /\ FrameLen(frame) = p
  BY FrameParts DEF HeaderLen
<1>2. p \in Nat
  OBVIOUS
<1> HIDE DEF frame
<1>3. Complete(frame) /\ ~(Len(frame) < HeaderLen)
  BY <1>1, <1>2 DEF Complete, HeaderLen
<1>4. Payload(frame) = taken
  BY <1>1 DEF Payload, Slice, HeaderLen
<1>5. taken \in Seq(Byte) /\ Len(taken) = p /\ \A i \in 1..p : taken[i] = frame[5 + i]
  BY <1>1, <1>2
<1> HIDE DEF taken
<1>6. taken = payload
  BY <1>1, <1>5, SeqEqual
<1> QED
  BY <1>1, <1>3, <1>4, <1>6 DEF frame

(* compression.rs: what is agreed is an algorithm the code knows or none.  *)
LEMMA Negotiated ==
  ASSUME NEW accept \in Seq(STRING)
  PROVE  negotiate_compression(accept) \in Algorithms \cup {None}
<1> DEFINE known == {i \in DOMAIN accept : accept[i] \in Algorithms}
<1>1. CASE known = {}
  BY <1>1 DEF negotiate_compression
<1>2. CASE known # {}
  <2>1. known \subseteq Nat
    OBVIOUS
  <2>2. \E i \in known : \A j \in known : i <= j
    BY <1>2, <2>1, LeastNumber
  <2> DEFINE first == CHOOSE i \in known : \A j \in known : i <= j
  <2>3. first \in known
    BY <2>2
  <2>4. accept[first] \in Algorithms
    BY <2>3
  <2> QED
    BY <1>2, <2>4 DEF negotiate_compression
<1> QED
  BY <1>1, <1>2

LEMMA PackedIsRead ==
  ASSUME NEW message \in Messages, NEW accept \in Seq(STRING), NEW encoding,
         \A algo \in Algorithms : Short(compress(message, algo))
  PROVE  LET r == decode_frame_with_decompression(PackedFrame(message, accept), incoming_compression(encoding))
         IN /\ r.ok => r.value = message
            /\ negotiate_compression(accept) \in {None, encoding} => r.ok
<1> DEFINE algo == negotiate_compression(accept)
           theirs == incoming_compression(encoding)
           frame == PackedFrame(message, accept)
           r == decode_frame_with_decompression(frame, theirs)
<1>1. algo \in Algorithms \cup {None} /\ None \notin Algorithms
  BY Negotiated DEF Algorithms, None
<1>2. message \in Seq(Byte) /\ Short(message) /\ 0 \in Byte /\ 1 \in Byte
  BY DEF Messages, Byte
<1>3. theirs = IF encoding \in Algorithms THEN encoding ELSE None
  BY DEF incoming_compression
<1> HIDE DEF algo, theirs
<1>4. CASE algo = None
  <2>1. frame = Frame(0, message)
    BY <1>4 DEF PackedFrame, encode_grpc_frame, algo
  <2> HIDE DEF frame
  <2>2. frame[1] = 0 /\ Complete(frame) /\ Payload(frame) = message /\ ~(Len(frame) < HeaderLen)
    BY <1>2, <2>1, WholeFrame
  <2>3. r = Okay(message, 0)
    BY <2>2 DEF decode_frame_with_decompression
  <2> QED
    BY <2>3 DEF Okay, theirs, frame
<1>5. CASE algo # None
  <2> DEFINE packed == compress(message, algo)
  <2>1. frame = Frame(1, packed) /\ algo \in Algorithms
    BY <1>1, <1>5 DEF PackedFrame, encode_compressed_frame, algo
  <2>2. Magic(algo) \in Byte
    BY DEF Magic, Byte
  <2>3. /\ packed \in Seq(Byte) /\ packed # <<>> /\ packed[1] = Magic(algo) /\ Tail(packed) = message
    BY <1>2, <2>2 DEF compress
  <2>4. Short(packed)
    BY <2>1
  <2> HIDE DEF frame, packed
  <2>5. frame[1] = 1 /\ Complete(frame) /\ Payload(frame) = packed /\ ~(Len(frame) < HeaderLen)
    BY <1>2, <2>1, <2>3, <2>4, WholeFrame
  <2>6. r = IF theirs = None THEN Fails("CompressedButNoAlgorithm") ELSE decompress(packed, theirs)
    BY <2>5 DEF decode_frame_with_decompression
  <2>7. CASE theirs = algo
    <3>1. r = Okay(message, 0)
      BY <1>5, <2>3, <2>6, <2>7 DEF decompress
    <3> QED
      BY <3>1 DEF Okay, theirs, frame
  <2>8. CASE theirs # algo
    <3>1. theirs = None \/ Magic(theirs) # Magic(algo)
      BY <1>3, <2>1, <2>8 DEF Algorithms, Magic
    <3>2. ~r.ok
      BY <2>3, <2>6, <3>1 DEF decompress, Fails
    <3>3. algo # encoding
      BY <1>3, <2>1, <2>8
    <3> QED
      BY <1>5, <3>2, <3>3 DEF theirs, frame, algo
  <2> QED
    BY <2>7, <2>8
<1> QED
  BY <1>4, <1>5

(* The client reads the code and the details of a status however its       *)
(* message travels, and the message when it is escaped or plain.           *)
LEMMA StatusIsRead ==
  ASSUME NEW i \in StatusItems
  PROVE  LET read == ClientStatus(StatusParts(i.status, i.form))
         IN /\ read.code = i.status.code
            /\ i.form = "escaped" \/ Plain(i.status.message) => read.message = i.status.message
            /\ i.form \in {"rich", "framed"} => read.details = i.status.details
<1> DEFINE status == i.status
           m == status.message
           parts == StatusParts(status, i.form)
           read == ClientStatus(parts)
<1>1. /\ i.form \in {"escaped", "dispatch", "rich", "framed"}
      /\ status.code \in 0..16 /\ m \in Seq(Byte) /\ ValidUtf8(m)
  BY DEF StatusItems
<1>2. ClientMessage(EscapedHeader(m)) = m /\ (Plain(m) => ClientMessage(RawHeader(m)) = m)
  BY <1>1, MessagesSurvive
<1>3. parts.code = status.code
  BY <1>1 DEF StatusParts, AsFrame, to_grpc_response_parts
<1>4. parts.message = IF i.form = "escaped" THEN EscapedHeader(m) ELSE RawHeader(m)
  BY <1>1 DEF StatusParts, AsFrame, to_grpc_response_parts
<1>5. i.form \in {"rich", "framed"} =>
        /\ status.details = <<>> => parts.body.shape = "empty"
        /\ status.details # <<>> => parts.body.shape # "empty" /\ parts.body.rich = <<status>>
  BY <1>1 DEF StatusParts, AsFrame, to_grpc_response_parts
<1> HIDE DEF parts
<1>6. read.code = status.code
  BY <1>1, <1>3 DEF ClientStatus, from_i32
<1>7. read.message = ClientMessage(parts.message)
  BY DEF ClientStatus
<1>8. i.form \in {"rich", "framed"} => read.details = status.details
  <2>1. <<status>> # <<>> /\ <<status>>[1] = status
    OBVIOUS
  <2> QED
    BY <1>5, <2>1 DEF ClientStatus, parse_rich_status
<1>9. i.form = "escaped" \/ Plain(m) => read.message = m
  BY <1>2, <1>4, <1>7
<1> QED
  BY <1>6, <1>8, <1>9 DEF parts

-----------------------------------------------------------------------------
(* The exchange                                                            *)

(* What is on the wire is what was written for the item or, of a body of   *)
(* frames, a part of it; what was read is what the reader makes of that.   *)
WireBody == BodyOf(item.messages, item.status)
OnTheWire ==
  /\ item.part = "frames" =>
       \/ wire = Unwritten \/ wire = Written(WireBody)
       \/ \E n \in 0..(Len(WireBody) - 1) : wire = [state |-> "cut", bytes |-> SubSeq(WireBody, 1, n)]
  /\ item.part = "packed" => wire \in {Unwritten, Written(PackedFrame(item.message, item.accept))}
  /\ item.part = "status" => wire \in {Unwritten, Written(StatusParts(item.status, item.form))}
  /\ item.part = "web" => wire \in {Unwritten, Written(GrpcWebCall(item.ct, item.answer).body)}

AsRead ==
  item.part \in TransportParts /\ ~IsUnread =>
  /\ wire.state # "unwritten"
  /\ item.part \in {"frames", "web"} => got = Okay(decode_grpc_frames(wire.bytes), 0)
  /\ item.part = "packed" =>
       got = decode_frame_with_decompression(wire.bytes, incoming_compression(item.encoding))
  /\ item.part = "status" => got = Okay(ClientStatus(wire.bytes), 0)

ItemOK ==
  /\ item.part = "frames" => item \in FrameItems
  /\ item.part = "packed" => item \in PackedItems
  /\ item.part = "status" => item \in StatusItems
  /\ item.part = "web" => item \in WebItems

TransportInv == ItemOK /\ OnTheWire /\ AsRead

(* The invariant is inductive: the item is chosen once, a writer puts what *)
(* belongs to it on the wire, a cut shortens it, and a reader reads that.  *)
LEMMA TransportInit == WireInit => TransportInv
<1> SUFFICES ASSUME WireInit PROVE TransportInv
  OBVIOUS
<1>1. ItemOK
  BY TransportAssumption DEF WireInit, ItemOK
<1>2. wire = Unwritten /\ got = Unread
  BY DEF WireInit
<1>3. OnTheWire
  BY <1>2 DEF OnTheWire
<1>4. AsRead
  BY <1>2 DEF AsRead, IsUnread, Unread
<1> QED
  BY <1>1, <1>3, <1>4 DEF TransportInv

LEMMA TransportStep == TransportInv /\ [TransportNext \/ OtherPart]_wireVars => TransportInv'
<1> SUFFICES ASSUME TransportInv, [TransportNext \/ OtherPart]_wireVars PROVE TransportInv'
  OBVIOUS
<1>1. item' = item
  BY DEF TransportNext, OtherPart, wireVars, WriteFrames, WritePacked, WriteStatus, WriteWeb, Put, Cut,
         ReadFrames, ReadPacking, ReadStatus, Get, Done
<1>2. ItemOK'
  BY <1>1 DEF TransportInv, ItemOK
<1>3. Unwritten.state = "unwritten" /\ \A b : Written(b).state = "written" /\ Written(b).bytes = b
  BY DEF Unwritten, Written
<1>4. CASE WriteFrames \/ WritePacked \/ WriteStatus \/ WriteWeb
  <2>1. got' = got /\ wire.state = "unwritten" /\ item.part \in TransportParts
    BY <1>4 DEF WriteFrames, WritePacked, WriteStatus, WriteWeb, Put, TransportParts
  <2>2. IsUnread'
    BY <2>1 DEF TransportInv, AsRead, IsUnread
  <2>3. OnTheWire'
    <3>1. CASE WriteFrames
      BY <1>1, <3>1 DEF WriteFrames, Put, OnTheWire, WireBody
    <3>2. CASE WritePacked
      BY <1>1, <3>2 DEF WritePacked, Put, OnTheWire
    <3>3. CASE WriteStatus
      BY <1>1, <3>3 DEF WriteStatus, Put, OnTheWire
    <3>4. CASE WriteWeb
      BY <1>1, <3>4 DEF WriteWeb, Put, OnTheWire
    <3> QED
      BY <1>4, <3>1, <3>2, <3>3, <3>4
  <2> QED
    BY <1>2, <2>2, <2>3 DEF TransportInv, AsRead
<1>5. CASE Cut
  <2>1. IsUnread' /\ wire.state = "written"
    BY <1>5 DEF Cut, IsUnread
  <2>2. OnTheWire'
    <3>1. CASE item.part = "frames"
      <4>1. wire = Written(WireBody)
        BY <1>3, <2>1, <3>1 DEF TransportInv, OnTheWire
      <4>2. \E n \in 0..(Len(WireBody) - 1) : wire' = [state |-> "cut", bytes |-> SubSeq(WireBody, 1, n)]
        BY <1>3, <1>5, <4>1 DEF Cut
      <4>3. WireBody' = WireBody
        BY <1>1 DEF WireBody
      <4> QED
        BY <1>1, <3>1, <4>2, <4>3 DEF OnTheWire
    <3>2. CASE item.part # "frames"
      BY <1>1, <1>5, <3>2 DEF Cut, OnTheWire
    <3> QED
      BY <3>1, <3>2
  <2> QED
    BY <1>2, <2>1, <2>2 DEF TransportInv, AsRead
<1>6. CASE ReadFrames \/ ReadPacking \/ ReadStatus
  <2>1. wire' = wire /\ wire.state # "unwritten"
    BY <1>6 DEF ReadFrames, ReadPacking, ReadStatus, Get
  <2>2. OnTheWire'
    BY <1>1, <2>1 DEF TransportInv, OnTheWire, WireBody
  <2>3. AsRead'
    <3>1. CASE ReadFrames
      BY <1>1, <2>1, <3>1 DEF ReadFrames, Get, AsRead
    <3>2. CASE ReadPacking
      BY <1>1, <2>1, <3>2 DEF ReadPacking, Get, AsRead
    <3>3. CASE ReadStatus
      BY <1>1, <2>1, <3>3 DEF ReadStatus, Get, AsRead
    <3> QED
      BY <1>6, <3>1, <3>2, <3>3
  <2> QED
    BY <1>2, <2>2, <2>3 DEF TransportInv
<1>7. CASE OtherPart
  BY <1>1, <1>2, <1>7 DEF OtherPart, TransportParts, TransportInv, OnTheWire, AsRead
<1>8. CASE UNCHANGED wireVars
  BY <1>2, <1>8 DEF wireVars, TransportInv, OnTheWire, WireBody, AsRead, IsUnread
<1> QED
  BY <1>4, <1>5, <1>6, <1>7, <1>8 DEF TransportNext, Done

(* The frames of a body, of which the reader had the first n bytes.        *)
LEMMA PartIsRead ==
  ASSUME NEW ms \in Seq(Messages), NEW status \in Seq(Byte), Len(status) <= 1,
         NEW n \in Nat, n <= Len(BodyOf(ms, status))
  PROVE  LET read == decode_grpc_frames(SubSeq(BodyOf(ms, status), 1, n))
         IN /\ IsPrefix(read.frames, ms)
            /\ read.trailers # <<>> => read.frames = ms
            /\ n = Len(BodyOf(ms, status)) => read = [frames |-> ms, trailers |-> [i \in DOMAIN status |-> <<status[i]>>]]
<1>1. PICK j \in 0..Len(ms) :
        /\ decode_grpc_frames(SubSeq(BodyOf(ms, status), 1, n)) =
             [frames |-> SubSeq(ms, 1, j), trailers |-> IF Ended(ms, status, n) THEN <<status>> ELSE <<>>]
        /\ n = Len(BodyOf(ms, status)) => j = Len(ms)
  BY Scanned
<1>2. IsPrefix(SubSeq(ms, 1, j), ms)
  <2>1. Len(SubSeq(ms, 1, j)) = j /\ SubSeq(ms, 1, j) \in Seq(Messages) /\ j <= Len(ms)
    BY <1>1
  <2>2. SubSeq(SubSeq(ms, 1, j), 1, j) = SubSeq(ms, 1, j)
    BY <2>1, SubSeqFull
  <2> QED
    BY <2>1, <2>2 DEF IsPrefix
<1>3. Ended(ms, status, n) => SubSeq(ms, 1, j) = ms
  BY <1>1, SubSeqFull DEF Ended
<1>4. n = Len(BodyOf(ms, status)) => SubSeq(ms, 1, j) = ms
  BY <1>1, SubSeqFull
<1>5. (IF status # <<>> THEN <<status>> ELSE <<>>) = [i \in DOMAIN status |-> <<status[i]>>]
  <2>1. CASE status = <<>>
    BY <2>1
  <2>2. CASE status # <<>>
    <3>1. Len(status) = 1
      BY <2>2, TailIsRead
    <3>2. status = <<status[1]>> /\ DOMAIN status = 1..1
      BY <3>1
    <3> QED
      BY <2>2, <3>2
  <2> QED
    BY <2>1, <2>2
<1> DEFINE taken == SubSeq(ms, 1, j)
           body == BodyOf(ms, status)
           read == decode_grpc_frames(SubSeq(body, 1, n))
           listed == [i \in DOMAIN status |-> <<status[i]>>]
<1>6. read.frames = taken /\ read.trailers = IF Ended(ms, status, n) THEN <<status>> ELSE <<>>
  BY <1>1
<1>7. n = Len(body) => read = [frames |-> ms, trailers |-> listed]
  <2> SUFFICES ASSUME n = Len(body) PROVE read = [frames |-> ms, trailers |-> listed]
    OBVIOUS
  <2>1. taken = ms
    BY <1>4
  <2>2. (IF Ended(ms, status, n) THEN <<status>> ELSE <<>>) = listed
    BY <1>5 DEF Ended
  <2> HIDE DEF taken, listed
  <2> QED
    BY <1>1, <2>1, <2>2 DEF taken
<1>8. read.trailers # <<>> => read.frames = ms
  BY <1>3, <1>6
<1> QED
  BY <1>2, <1>6, <1>7, <1>8

(* A body that is all there.                                               *)
LEMMA WholeIsRead ==
  ASSUME NEW ms \in Seq(Messages), NEW status \in Seq(Byte), Len(status) <= 1
  PROVE  decode_grpc_frames(BodyOf(ms, status)) =
           [frames |-> ms, trailers |-> [i \in DOMAIN status |-> <<status[i]>>]]
<1> DEFINE body == BodyOf(ms, status)
<1>1. body \in Seq(Byte)
  BY BodyTyped
<1> HIDE DEF body
<1>2. Len(body) \in Nat /\ Len(body) <= Len(body) /\ SubSeq(body, 1, Len(body)) = body
  BY <1>1, SubSeqFull
<1> DEFINE n == Len(body)
<1>3. n \in Nat /\ n <= Len(BodyOf(ms, status))
  BY <1>2 DEF body
<1>4. n = Len(BodyOf(ms, status)) =>
        decode_grpc_frames(SubSeq(BodyOf(ms, status), 1, n)) =
          [frames |-> ms, trailers |-> [i \in DOMAIN status |-> <<status[i]>>]]
  <2> HIDE DEF n
  <2> QED
    BY <1>3, PartIsRead
<1> QED
  BY <1>2, <1>4 DEF body

(* The four parts of TransportFaithful.                                    *)
LEMMA InvFrames == TransportInv => FramesAreAPrefix
<1> SUFFICES ASSUME TransportInv, item.part = "frames", ~IsUnread PROVE FramesAreAPrefix
  BY DEF FramesAreAPrefix, Read
<1> DEFINE ms == item.messages
           status == item.status
           body == BodyOf(ms, status)
           listed == [i \in DOMAIN status |-> <<status[i]>>]
<1>1. ms \in Seq(Messages) /\ status \in Seq(Byte) /\ Len(status) <= 1
  BY DEF TransportInv, ItemOK, FrameItems
<1>2. got = Okay(decode_grpc_frames(wire.bytes), 0) /\ wire.state # "unwritten"
  BY DEF TransportInv, AsRead, TransportParts
<1>3. got.value = decode_grpc_frames(wire.bytes)
  BY <1>2 DEF Okay
<1>4. wire = Written(body) \/ \E n \in 0..(Len(body) - 1) : wire = [state |-> "cut", bytes |-> SubSeq(body, 1, n)]
  BY <1>2 DEF TransportInv, OnTheWire, WireBody, Unwritten
<1>5. body \in Seq(Byte) /\ Len(body) \in Nat
  <2>1. body \in Seq(Byte)
    BY <1>1, BodyTyped
  <2> HIDE DEF body
  <2> QED
    BY <2>1
<1>6. CASE wire = Written(body)
  <2>1. wire.bytes = body
    BY <1>6 DEF Written
  <2>2. got.value = [frames |-> ms, trailers |-> listed]
    BY <1>1, <1>3, <2>1, WholeIsRead
  <2>3. IsPrefix(ms, ms)
    BY <1>1 DEF IsPrefix
  <2> HIDE DEF listed
  <2>4. got.value.frames = ms
    BY <2>2
  <2> QED
    BY <2>2, <2>3, <2>4 DEF FramesAreAPrefix, listed
<1>7. CASE \E n \in 0..(Len(body) - 1) : wire = [state |-> "cut", bytes |-> SubSeq(body, 1, n)]
  <2>1. PICK n \in 0..(Len(body) - 1) : wire = [state |-> "cut", bytes |-> SubSeq(body, 1, n)]
    BY <1>7
  <2>2. n \in Nat /\ n <= Len(body)
    BY <1>5
  <2>3. wire.bytes = SubSeq(body, 1, n) /\ ~Whole
    BY <2>1 DEF Whole
  <2> DEFINE read == decode_grpc_frames(SubSeq(body, 1, n))
  <2>4. IsPrefix(read.frames, ms) /\ (read.trailers # <<>> => read.frames = ms)
    BY <1>1, <2>2, PartIsRead
  <2> QED
    BY <1>3, <2>3, <2>4 DEF FramesAreAPrefix
<1> QED
  BY <1>4, <1>6, <1>7

LEMMA InvPacked == TransportInv => PackedReadOrRefused
<1> SUFFICES ASSUME TransportInv, item.part = "packed", ~IsUnread PROVE PackedReadOrRefused
  BY DEF PackedReadOrRefused, Read
<1>1. /\ item.message \in Messages /\ item.accept \in Seq(STRING)
      /\ \A algo \in Algorithms : Short(compress(item.message, algo))
  BY DEF TransportInv, ItemOK, PackedItems
<1>2. /\ got = decode_frame_with_decompression(wire.bytes, incoming_compression(item.encoding))
      /\ wire.state # "unwritten"
  BY DEF TransportInv, AsRead, TransportParts
<1>3. wire.bytes = PackedFrame(item.message, item.accept)
  BY <1>2 DEF TransportInv, OnTheWire, Unwritten, Written
<1> QED
  BY <1>1, <1>2, <1>3, PackedIsRead DEF PackedReadOrRefused

LEMMA InvStatus == TransportInv => ErrorTextSurvives
<1> SUFFICES ASSUME TransportInv, item.part = "status", ~IsUnread PROVE ErrorTextSurvives
  BY DEF ErrorTextSurvives, Read
<1>1. item \in StatusItems
  BY DEF TransportInv, ItemOK
<1>2. got = Okay(ClientStatus(wire.bytes), 0) /\ wire.state # "unwritten"
  BY DEF TransportInv, AsRead, TransportParts
<1>3. got.value = ClientStatus(StatusParts(item.status, item.form))
  BY <1>2 DEF TransportInv, OnTheWire, Unwritten, Written, Okay
<1> QED
  BY <1>1, <1>3, StatusIsRead DEF ErrorTextSurvives

LEMMA InvWeb == TransportInv => WebStatusFaithful
<1> SUFFICES ASSUME TransportInv, item.part = "web", ~IsUnread, is_grpc_web_request(item.ct)
             PROVE  WebStatusFaithful
  BY DEF WebStatusFaithful, Read
<1> DEFINE answer == item.answer
           ms == IF answer.breaks THEN <<>> ELSE answer.frames
           status == <<IF answer.header = <<>> THEN 0 ELSE answer.status>>
<1>1. /\ answer.header \in Seq(Byte) /\ answer.status \in Byte /\ answer.frames \in Seq(Messages)
      /\ answer.header \in {<<>>, <<answer.status>>} /\ answer.body = FramesOf(answer.frames)
  BY DEF TransportInv, ItemOK, WebItems
<1>2. got = Okay(decode_grpc_frames(wire.bytes), 0) /\ wire.state # "unwritten"
  BY DEF TransportInv, AsRead, TransportParts
<1>3. wire.bytes = GrpcWebCall(item.ct, answer).body
  BY <1>2 DEF TransportInv, OnTheWire, Unwritten, Written
<1>4. ms \in Seq(Messages) /\ status \in Seq(Byte) /\ Len(status) = 1 /\ status # <<>>
  <2>1. <<>> \in Seq(Messages) /\ 0 \in Byte
    BY DEF Byte
  <2> QED
    BY <1>1, <2>1
<1>5. FramesOf(ms) = IF answer.breaks THEN <<>> ELSE answer.body
  <2>1. FramesOf(<<>>) = <<>>
    BY FramesAreWritten, TextGrows
  <2> QED
    BY <1>1, <2>1
<1>6. (IF answer.header = <<>> THEN 0 ELSE answer.header[1]) = status[1]
  <2>1. answer.header # <<>> => answer.header[1] = answer.status
    BY <1>1
  <2> QED
    BY <2>1
<1>7. wire.bytes = BodyOf(ms, status)
  BY <1>3, <1>4, <1>5, <1>6 DEF GrpcWebCall, BodyOf
<1>8. got.value = [frames |-> ms, trailers |-> [i \in DOMAIN status |-> <<status[i]>>]]
  <2> HIDE DEF ms, status
  <2>1. decode_grpc_frames(BodyOf(ms, status)) = [frames |-> ms, trailers |-> [i \in DOMAIN status |-> <<status[i]>>]]
    <3>1. ms \in Seq(Messages) /\ status \in Seq(Byte) /\ Len(status) <= 1
      BY <1>4
    <3> QED
      BY <3>1, WholeIsRead
  <2> QED
    BY <1>2, <1>7, <2>1 DEF Okay
<1>9. [i \in DOMAIN status |-> <<status[i]>>] = <<status>>
  <2>1. DOMAIN status = 1..1
    BY <1>4
  <2>2. status = <<status[1]>>
    OBVIOUS
  <2> QED
    BY <2>1, <2>2
<1>a. got.value.frames = ms /\ got.value.trailers = <<status>>
  <2> HIDE DEF ms, status
  <2> QED
    BY <1>8, <1>9
<1> QED
  BY <1>a DEF WebStatusFaithful

(* What a message travels in gives the reader what the writer put in it,   *)
(* for every message shorter than 4 GiB, every cut and every status:       *)
(* framing.rs, compression.rs, status.rs, error_details.rs, web.rs.        *)
THEOREM TransportIsFaithful == TransportSpec => []TransportFaithful
<1>1. WireInit => TransportInv
  BY TransportInit
<1>2. TransportInv /\ [TransportNext \/ OtherPart]_wireVars => TransportInv'
  BY TransportStep
<1>3. TransportInv => TransportFaithful
  BY InvFrames, InvPacked, InvStatus, InvWeb DEF TransportFaithful
<1> QED
  BY <1>1, <1>2, <1>3, PTL DEF TransportSpec

-----------------------------------------------------------------------------
(* The client and its circuit breaker                                      *)

(* The retry loop, strengthened to be inductive.  While a call is under    *)
(* way its counter is the number of failed attempts logged, all of them    *)
(* retryable; past the loop head the counter is below max_attempts, and at *)
(* the head it is, unless no attempt was made.                             *)
LoopInv ==
  \A c \in Callers :
    /\ \A i \in 1..Len(log[c]) :
         (i < Len(log[c]) \/ pc[c] # "idle") => log[c][i] \in RetryOn \cup {"transport"}
    /\ Len(log[c]) <= max_attempts
    /\ pc[c] # "idle" => Len(log[c]) = attempt[c] /\ result[c] = "none"
    /\ pc[c] \in {"backoff", "send", "flight"} => attempt[c] < max_attempts
    /\ pc[c] = "head" => attempt[c] = 0 \/ attempt[c] < max_attempts
    /\ result[c] \in Outcomes => Len(log[c]) > 0 /\ result[c] = log[c][Len(log[c])]
    /\ result[c] = "exhausted" => log[c] = <<>>

(* The number of attempts is a natural number whatever max_retries is.     *)
LEMMA MaxAttemptsNat == config \in Configs => max_attempts \in Nat
  BY ClientAssumption DEF max_attempts

(* Advancing one counter of a function of counters.                        *)
LEMMA CountUp ==
  ASSUME NEW S, NEW f \in [S -> Nat], NEW s \in S
  PROVE  [f EXCEPT ![s] = @ + 1] \in [S -> Nat]
  OBVIOUS

-----------------------------------------------------------------------------
(* Every variable of the client and of its breaker keeps its type.         *)
THEOREM TypeCorrect == Spec => []TypeOK
<1> USE BreakerAssumption, ClientAssumption
<1>1. Init => TypeOK
  <2> SUFFICES ASSUME Init PROVE TypeOK
    OBVIOUS
  <2>1. BreakerTypeOK
    BY DEF Init, BreakerInit, BreakerTypeOK, Never
  <2>2. log \in [Callers -> Seq(Outcomes)]
    BY DEF Init
  <2> QED
    BY <2>1, <2>2 DEF Init, TypeOK
<1>2. TypeOK /\ [Next]_vars => TypeOK'
  <2> SUFFICES ASSUME TypeOK, [Next]_vars PROVE TypeOK'
    OBVIOUS
  <2> USE DEF TypeOK, BreakerTypeOK, Never, breakerVars, callerVars, Goto
  <2>1. ASSUME NEW c \in Callers, Call(c) PROVE TypeOK'
    BY <2>1 DEF Call
  <2>2. ASSUME NEW c \in Callers, Exhausted(c) PROVE TypeOK'
    BY <2>2 DEF Exhausted, Return
  <2>3. ASSUME NEW c \in Callers, Reject(c) PROVE TypeOK'
    BY <2>3 DEF Reject, Return, DenyRequest
  <2>4. ASSUME NEW c \in Callers, Admit(c) PROVE TypeOK'
    BY <2>4 DEF Admit, AllowRequest
  <2>5. ASSUME NEW c \in Callers, Wake(c) \/ Send(c) \/ Cancel(c) PROVE TypeOK'
    BY <2>5 DEF Wake, Send, Cancel
  <2>6. ASSUME NEW c \in Callers, NEW o \in Outcomes, Fail(c, o) PROVE TypeOK'
    <3>1. BreakerTypeOK'
      BY <2>6 DEF Fail, RecordFailure
    <3>2. log' \in [Callers -> Seq(Outcomes)]
      BY <2>6 DEF Fail
    <3>3. pc' \in [Callers -> {"idle", "head", "backoff", "send", "flight"}]
      BY <2>6 DEF Fail, Return
    <3>4. attempt' \in [Callers -> Nat]
      <4>1. attempt' = attempt \/ attempt' = [attempt EXCEPT ![c] = @ + 1]
        BY <2>6 DEF Fail, Return
      <4>2. attempt \in [Callers -> Nat]
        OBVIOUS
      <4>3. [attempt EXCEPT ![c] = @ + 1] \in [Callers -> Nat]
        BY ONLY <4>2, <2>6, CountUp
      <4> QED
        BY ONLY <4>1, <4>2, <4>3
    <3>5. result' \in [Callers -> Outcomes \cup {"rejected", "exhausted", "none"}]
      BY <2>6 DEF Fail, Return
    <3> QED
      BY <2>6, <3>1, <3>2, <3>3, <3>4, <3>5 DEF Fail
  <2>7. ASSUME NEW c \in Callers, EncodeError(c) \/ AnswerError(c) PROVE TypeOK'
    BY <2>6, <2>7 DEF EncodeError, AnswerError, Outcomes
  <2>8. ASSUME NEW c \in Callers, AnswerOk(c) PROVE TypeOK'
    BY <2>8 DEF AnswerOk, Return, RecordSuccess, Outcomes
  <2>9. CASE Tick
    BY <2>9 DEF Tick, TickBreaker
  <2>10. CASE Weather
    BY <2>10 DEF Weather
  <2>11. CASE UNCHANGED vars
    BY <2>11 DEF vars
  <2> QED
    BY <2>1, <2>2, <2>3, <2>4, <2>5, <2>7, <2>8, <2>9, <2>10, <2>11 DEF Next, Progress
<1> QED
  BY <1>1, <1>2, PTL DEF Spec

(* The breaker is away from Closed exactly after Threshold consecutive     *)
(* failures, whatever the interleaving of callers, late answers and ticks. *)
THEOREM BreakerIsCoherent == Spec => []BreakerCoherent
<1> USE BreakerAssumption
<1>1. Init => BreakerCoherent
  BY DEF Init, BreakerInit, BreakerCoherent
<1>2. TypeOK /\ BreakerCoherent /\ [Next]_vars => BreakerCoherent'
  <2> SUFFICES ASSUME TypeOK, BreakerCoherent, [Next]_vars PROVE BreakerCoherent'
    OBVIOUS
  <2> USE DEF TypeOK, BreakerTypeOK, BreakerCoherent, Never
  <2>1. CASE UNCHANGED breakerVars
    BY <2>1 DEF breakerVars
  <2>2. CASE AllowRequest
    BY <2>2 DEF AllowRequest
  <2>3. CASE RecordFailure
    BY <2>3 DEF RecordFailure
  <2>4. CASE RecordSuccess
    BY <2>4 DEF RecordSuccess
  <2>5. CASE TickBreaker
    BY <2>5 DEF TickBreaker
  <2> HIDE DEF TypeOK, BreakerTypeOK, BreakerCoherent, Never
  <2>6. \/ UNCHANGED breakerVars \/ AllowRequest \/ RecordFailure
        \/ RecordSuccess \/ TickBreaker
    BY DEF Next, Progress, vars, Call, Exhausted, Reject, Admit, Wake, Send, EncodeError,
           AnswerError, AnswerOk, Cancel, Tick, Weather, Fail, DenyRequest
  <2> QED
    BY <2>1, <2>2, <2>3, <2>4, <2>5, <2>6
<1> QED
  BY <1>1, <1>2, TypeCorrect, PTL DEF Spec

-----------------------------------------------------------------------------
(* LoopInv is preserved by the steps of one caller, which leave the other  *)
(* callers' state alone.                                                   *)
LEMMA LoopStep == TypeOK /\ LoopInv /\ [Next]_vars => LoopInv'
<1> SUFFICES ASSUME TypeOK, LoopInv, [Next]_vars PROVE LoopInv'
  OBVIOUS
<1>m. max_attempts \in Nat /\ (UNCHANGED config => max_attempts' = max_attempts)
  BY MaxAttemptsNat DEF TypeOK, max_attempts
<1>n. Outcomes \cap {"rejected", "exhausted", "none"} = {}
  BY ClientAssumption DEF Outcomes
<1>t. /\ pc \in [Callers -> {"idle", "head", "backoff", "send", "flight"}]
      /\ attempt \in [Callers -> Nat]
      /\ log \in [Callers -> Seq(Outcomes)]
      /\ result \in [Callers -> Outcomes \cup {"rejected", "exhausted", "none"}]
  BY DEF TypeOK
<1> USE <1>m, <1>n, <1>t DEF LoopInv, Goto
<1>1. ASSUME NEW c \in Callers, Call(c) PROVE LoopInv'
  BY <1>1 DEF Call
<1>2. ASSUME NEW c \in Callers, Exhausted(c) PROVE LoopInv'
  BY <1>2 DEF Exhausted, Return
<1>3. ASSUME NEW c \in Callers, Reject(c) PROVE LoopInv'
  BY <1>3 DEF Reject, Return
<1>4. ASSUME NEW c \in Callers, Admit(c) PROVE LoopInv'
  BY <1>4 DEF Admit
<1>5. ASSUME NEW c \in Callers, Wake(c) \/ Send(c) \/ Cancel(c) PROVE LoopInv'
  BY <1>5 DEF Wake, Send, Cancel
<1>6. ASSUME NEW c \in Callers, pc[c] \in {"send", "flight"}, NEW o \in Outcomes, Fail(c, o)
      PROVE LoopInv'
  <2>1. UNCHANGED config /\ log' = [log EXCEPT ![c] = Append(@, o)]
    BY <1>6 DEF Fail
  <2>2. CASE /\ RetryAfter(c, o)
             /\ Goto(c, "head")
             /\ attempt' = [attempt EXCEPT ![c] = @ + 1]
             /\ UNCHANGED result
    BY <1>6, <2>1, <2>2 DEF RetryAfter, Retryable
  <2>3. CASE Return(c, o)
    BY <1>6, <2>1, <2>3 DEF Return
  <2> QED
    BY <1>6, <2>2, <2>3 DEF Fail
<1>7. ASSUME NEW c \in Callers, EncodeError(c) \/ AnswerError(c) PROVE LoopInv'
  <2>1. PICK o \in Outcomes : Fail(c, o)
    BY <1>7 DEF EncodeError, AnswerError, Outcomes
  <2>2. pc[c] \in {"send", "flight"}
    BY <1>7 DEF EncodeError, AnswerError
  <2> HIDE DEF LoopInv
  <2> QED
    BY <1>6, <2>1, <2>2
<1>8. ASSUME NEW c \in Callers, AnswerOk(c) PROVE LoopInv'
  BY <1>8 DEF AnswerOk, Return, Outcomes
<1>9. CASE Tick \/ Weather \/ UNCHANGED vars
  BY <1>9 DEF Tick, Weather, vars, callerVars
<1> HIDE DEF LoopInv
<1> QED
  BY <1>1, <1>2, <1>3, <1>4, <1>5, <1>7, <1>8, <1>9 DEF Next, Progress

(* A call makes at most max_retries retries, only after retryable errors,  *)
(* and returns the outcome of its last attempt.                            *)
THEOREM RetriesAreDisciplined == Spec => []RetryDiscipline
<1>1. Init => LoopInv
  <2> SUFFICES ASSUME Init PROVE LoopInv
    OBVIOUS
  <2>1. max_attempts \in Nat
    BY MaxAttemptsNat DEF Init
  <2>2. "none" \notin Outcomes
    BY ClientAssumption DEF Outcomes
  <2> QED
    BY <2>1, <2>2 DEF Init, LoopInv
<1>2. LoopInv => RetryDiscipline
  BY DEF LoopInv, RetryDiscipline
<1> QED
  BY <1>1, <1>2, LoopStep, TypeCorrect, PTL DEF Spec

-----------------------------------------------------------------------------
(* An open breaker is left for HalfOpen by the probe that allow_request    *)
(* admits, and only once the reset timeout has elapsed since the last      *)
(* failure; or for Closed, by record_success for a request that was        *)
(* already in flight when the breaker opened.                              *)
THEOREM OpenIsLeftInTwoWays == Spec => LeaveOpen
<1> DEFINE ToProbe == state' = "HalfOpen" /\ last_failure >= ResetTimeout /\ failures' = failures
           BySuccess == state' = "Closed" /\ \E c \in Callers : result'[c] = "ok" /\ pc[c] = "flight"
<1>1. ASSUME TypeOK, [Next]_vars, state = "Open", state' # "Open"
      PROVE  ToProbe \/ BySuccess
  <2>1. CASE AllowRequest
    BY <1>1, <2>1 DEF AllowRequest, Allowed, ResetElapsed
  <2>2. ASSUME NEW c \in Callers, AnswerOk(c) PROVE ToProbe \/ BySuccess
    BY <1>1, <2>2 DEF AnswerOk, Return, RecordSuccess, TypeOK, breakerVars
  <2>3. ~UNCHANGED breakerVars /\ ~RecordFailure /\ ~TickBreaker
    BY <1>1 DEF breakerVars, RecordFailure, TickBreaker
  <2> HIDE DEF ToProbe, BySuccess
  <2>4. \/ UNCHANGED breakerVars \/ AllowRequest \/ RecordFailure
        \/ TickBreaker \/ \E c \in Callers : AnswerOk(c)
    BY <1>1 DEF Next, Progress, vars, Call, Exhausted, Reject, Admit, Wake, Send, EncodeError,
                AnswerError, Cancel, Tick, Weather, Fail, DenyRequest
  <2> QED
    BY <2>1, <2>2, <2>3, <2>4
<1>2. TypeOK /\ [Next]_vars => [state = "Open" /\ state' # "Open" => ToProbe \/ BySuccess]_vars
  BY <1>1
<1> QED
  BY <1>2, TypeCorrect, PTL DEF Spec, LeaveOpen

-----------------------------------------------------------------------------
(* Varints                                                                 *)

(* Powers of two.                                                          *)
LEMMA TwoIs ==
  /\ Two[0] = 1 /\ \A n \in 0..64 : Two[n] \in Nat \ {0}
  /\ \A n \in 1..64 : Two[n] = 2 * Two[n - 1]
<1> DEFINE S == Nat \ {0}
           N == 64
           base == [n \in 0..N |-> 1]
           step == [n \in 0..N |-> [x \in S |-> 2 * x]]
           less == [n \in 0..N |-> n - 1]
<1>1. /\ N \in Nat /\ 1 \in Nat
      /\ base \in [0..N -> S] /\ step \in [0..N -> [S -> S]] /\ less \in [0..N -> Int]
      /\ \A n \in 0..N : n >= 1 => less[n] \in 0..(n - 1)
  OBVIOUS
<1>2. PICK g \in [0..N -> S] : Recurses(N, 1, base, step, less, g)
  <2>1. Descends(N, 1, less)
    BY <1>1 DEF Descends
  <2> HIDE DEF base, step, less, S, N
  <2> QED
    BY <1>1, <2>1, RecursionExists, Zenon
<1>3. \A n \in 0..64 : g[n] = IF n = 0 THEN 1 ELSE 2 * g[n - 1]
  BY <1>2 DEF Recurses
<1>4. g = [n \in 0..64 |-> IF n = 0 THEN 1 ELSE 2 * g[n - 1]]
  BY <1>3
<1>5. Two = [n \in 0..64 |-> IF n = 0 THEN 1 ELSE 2 * Two[n - 1]]
  BY <1>4, Zenon DEF Two
<1>6. \A n \in 0..64 : Two[n] = IF n = 0 THEN 1 ELSE 2 * Two[n - 1]
  BY <1>5, Zenon
<1> DEFINE T == {n \in 0..64 : Two[n] \in Nat \ {0}}
<1>7. ASSUME NEW n \in 0..64, \A u \in 0..(n - 1) : u \in T PROVE n \in T
  <2>1. CASE n = 0
    BY <1>6, <2>1
  <2>2. CASE n # 0
    <3>1. n - 1 \in 0..(n - 1)
      BY <2>2
    <3>2. Two[n - 1] \in Nat \ {0}
      BY <1>7, <3>1
    <3> QED
      BY <1>6, <2>2, <3>2
  <2> QED
    BY <2>1, <2>2
<1>8. \A n \in 0..64 : n \in T
  <2> HIDE DEF T
  <2> QED
    BY <1>7, FromBelow
<1> QED
  BY <1>6, <1>8

LEMMA WordSize ==
  /\ U64 \in Nat /\ U64 - 1 \in Nat /\ U64 >= 256 /\ WordBits \in 8..64
  /\ \A v \in Words : v \in Nat /\ v < U64
<1>1. WordBits \in 8..64
  BY WordAssumption
<1>2. Two[8] >= 256
  <2>1. \A k \in 0..8 : Two[k] \in Nat
    BY TwoIs
  <2>2. Two[1] >= 2 /\ Two[2] = 2 * Two[1] /\ Two[3] = 2 * Two[2] /\ Two[4] = 2 * Two[3]
    BY TwoIs
  <2>3. Two[5] = 2 * Two[4] /\ Two[6] = 2 * Two[5] /\ Two[7] = 2 * Two[6] /\ Two[8] = 2 * Two[7]
    BY TwoIs
  <2> QED
    BY <2>1, <2>2, <2>3
<1> DEFINE T == {n \in 0..64 : n >= 8 => Two[n] >= 256}
<1>3. ASSUME NEW n \in 0..64, \A u \in 0..(n - 1) : u \in T PROVE n \in T
  <2>1. CASE n <= 8
    BY <1>2, <2>1
  <2>2. CASE n > 8
    <3>1. n - 1 \in 0..(n - 1) /\ n - 1 >= 8
      BY <2>2
    <3>2. n - 1 \in T /\ n - 1 \in 0..64 /\ n \in 1..64
      BY <1>3, <2>2, <3>1
    <3>3. Two[n - 1] >= 256
      BY <3>1, <3>2
    <3>4. Two[n] = 2 * Two[n - 1] /\ Two[n - 1] \in Nat
      BY <3>2, TwoIs
    <3> QED
      BY <3>3, <3>4
  <2> QED
    BY <2>1, <2>2
<1>4. \A n \in 0..64 : n \in T
  <2> DEFINE N == 64
  <2>1. N \in Nat
    OBVIOUS
  <2>2. \A n \in 0..N : (\A u \in 0..(n - 1) : u \in T) => n \in T
    <3> HIDE DEF T
    <3> QED
      BY <1>3
  <2> HIDE DEF T, N
  <2>3. \A n \in 0..N : n \in T
    BY <2>1, <2>2, FromBelow, Zenon
  <2> QED
    BY <2>3 DEF N
<1>5. U64 \in Nat /\ U64 >= 256
  <2>1. WordBits \in 0..64 /\ WordBits >= 8
    BY <1>1
  <2>2. WordBits \in T /\ Two[WordBits] \in Nat
    BY <1>4, <2>1, TwoIs
  <2> QED
    BY <2>1, <2>2 DEF U64
<1> QED
  BY <1>1, <1>5 DEF Words

(* The loop of tw_encode_varint.                                           *)
LEMMA VarintsAre ==
  \A v \in Words :
    /\ Varints[v] \in Seq(Byte)
    /\ v < 128 => Varints[v] = <<v>>
    /\ v >= 128 => /\ v \div 128 \in 0..(v - 1) /\ v \div 128 \in Words
                   /\ Varints[v] = <<128 + (v % 128)>> \o Varints[v \div 128]
<1> DEFINE N == U64 - 1
           S == Seq(Byte)
           base == [v \in 0..N |-> IF v < 128 THEN <<v>> ELSE <<>>]
           step == [v \in 0..N |-> [rest \in S |-> <<128 + (v % 128)>> \o rest]]
           less == [v \in 0..N |-> v \div 128]
<1>0. N \in Nat /\ 128 \in Nat /\ Words = 0..N
  BY WordSize DEF Words
<1> HIDE DEF N
<1>1. \A v \in 0..N : v >= 128 => v \div 128 \in 0..(v - 1) /\ v \div 128 \in 0..N
  BY <1>0
<1>2. /\ base \in [0..N -> S] /\ step \in [0..N -> [S -> S]] /\ less \in [0..N -> Int]
  <2>1. \A v \in 0..N : 128 + (v % 128) \in Byte /\ (v < 128 => v \in Byte)
    BY <1>0 DEF Byte
  <2>2. \A v \in 0..N : base[v] \in S
    <3> TAKE v \in 0..N
    <3>1. CASE v < 128
      BY <2>1, <3>1
    <3>2. CASE ~(v < 128)
      BY <3>2
    <3> QED
      BY <3>1, <3>2
  <2>3. \A v \in 0..N : \A rest \in S : <<128 + (v % 128)>> \o rest \in S
    <3> TAKE v \in 0..N
    <3>1. <<128 + (v % 128)>> \in Seq(Byte)
      BY <2>1
    <3> QED
      BY <3>1
  <2>4. base \in [0..N -> S]
    BY <2>2
  <2>5. step \in [0..N -> [S -> S]]
    BY <2>3
  <2>6. less \in [0..N -> Int]
    BY <1>0
  <2> QED
    BY <2>4, <2>5, <2>6
<1>3. PICK g \in [0..N -> S] : Recurses(N, 128, base, step, less, g)
  <2>1. Descends(N, 128, less)
    BY <1>1 DEF Descends
  <2> HIDE DEF base, step, less, S
  <2> QED
    BY <1>0, <1>2, <2>1, RecursionExists, Zenon
<1>4. \A v \in 0..N : g[v] = IF v < 128 THEN <<v>> ELSE <<128 + (v % 128)>> \o g[v \div 128]
  <2> TAKE v \in 0..N
  <2>1. g[v] = IF v < 128 THEN base[v] ELSE step[v][g[less[v]]]
    BY <1>3 DEF Recurses
  <2>2. v >= 128 => g[v \div 128] \in S
    BY <1>1
  <2> QED
    BY <1>0, <2>1, <2>2
<1>5. g = [v \in Words |-> IF v < 128 THEN <<v>> ELSE <<128 + (v % 128)>> \o g[v \div 128]]
  BY <1>0, <1>4
<1> HIDE DEF S, base, step, less
<1>6. Varints = [v \in Words |-> IF v < 128 THEN <<v>> ELSE <<128 + (v % 128)>> \o Varints[v \div 128]]
  <2> DEFINE All(h) == [v \in Words |-> IF v < 128 THEN <<v>> ELSE <<128 + (v % 128)>> \o h[v \div 128]]
  <2>1. g = All(g) /\ Varints = CHOOSE h : h = All(h)
    BY <1>5, Zenon DEF Varints
  <2> HIDE DEF All
  <2>2. Varints = All(Varints)
    BY <2>1, Zenon
  <2> QED
    BY <2>2 DEF All
<1>7. \A v \in Words : Varints[v] = IF v < 128 THEN <<v>> ELSE <<128 + (v % 128)>> \o Varints[v \div 128]
  BY <1>6, Zenon
<1> DEFINE T == {v \in 0..N : Varints[v] \in Seq(Byte)}
<1>8. ASSUME NEW v \in 0..N, \A u \in 0..(v - 1) : u \in T PROVE v \in T
  <2>0. v \in Words /\ v \in Nat
    BY <1>0
  <2>1. CASE v < 128
    <3>1. v \in Byte
      BY <2>0, <2>1 DEF Byte
    <3>2. Varints[v] = <<v>>
      BY <1>7, <2>0, <2>1
    <3>3. Varints[v] \in Seq(Byte)
      BY <3>1, <3>2
    <3> QED
      BY <3>3
  <2>2. CASE v >= 128
    <3>1. Varints[v \div 128] \in Seq(Byte)
      BY <1>1, <1>8, <2>2
    <3>2. <<128 + (v % 128)>> \in Seq(Byte)
      BY <2>0 DEF Byte
    <3>4. ~(v < 128)
      BY <2>0, <2>2
    <3>3. Varints[v] = <<128 + (v % 128)>> \o Varints[v \div 128]
      BY <1>7, <2>0, <3>4, Zenon
    <3>5. Varints[v] \in Seq(Byte)
      BY <3>1, <3>2, <3>3
    <3> QED
      BY <3>5
  <2> QED
    BY <2>0, <2>1, <2>2
<1>9. \A v \in 0..N : v \in T
  <2> HIDE DEF T
  <2> QED
    BY <1>0, <1>8, FromBelow
<1>10. ASSUME NEW v \in Words
       PROVE  /\ Varints[v] \in Seq(Byte)
              /\ v < 128 => Varints[v] = <<v>>
              /\ v >= 128 => /\ v \div 128 \in 0..(v - 1) /\ v \div 128 \in Words
                             /\ Varints[v] = <<128 + (v % 128)>> \o Varints[v \div 128]
  <2>1. v \in 0..N /\ v \in Nat
    BY <1>0
  <2>a. Varints[v] \in Seq(Byte)
    BY <1>9, <2>1
  <2>2. CASE v < 128
    <3>1. Varints[v] = <<v>>
      BY <1>7, <2>2, Zenon
    <3> QED
      BY <2>1, <2>2, <2>a, <3>1
  <2>3. CASE v >= 128
    <3>1. v \div 128 \in 0..(v - 1) /\ v \div 128 \in Words
      BY <1>0, <1>1, <2>1, <2>3
    <3>2. ~(v < 128)
      BY <2>1, <2>3
    <3>3. Varints[v] = <<128 + (v % 128)>> \o Varints[v \div 128]
      BY <1>7, <3>2, Zenon
    <3> QED
      BY <2>a, <3>1, <3>2, <3>3
  <2> QED
    BY <2>1, <2>2, <2>3
<1> QED
  BY <1>10

LEMMA WordsAre ==
  \A v \in Words : /\ v \in Nat /\ OrOne(v) \in Words /\ v \div 2 \in Words
                   /\ v >= 2 => OrOne(v) >= 2 /\ OrOne(v) \div 2 = v \div 2 /\ v \div 2 \in 0..(v - 1)
                   /\ v < 2 => OrOne(v) = 1
<1>1. U64 \in Nat /\ U64 >= 256 /\ WordBits \in 8..64
  BY WordSize
<1>2. U64 = 2 * Two[WordBits - 1] /\ Two[WordBits - 1] \in Nat
  <2>1. WordBits \in 1..64 /\ WordBits - 1 \in 0..64
    BY <1>1
  <2> QED
    BY <2>1, TwoIs DEF U64
<1>3. PICK h \in Nat : U64 = 2 * h
  BY <1>2
<1> SUFFICES ASSUME NEW v \in Words
             PROVE  /\ v \in Nat /\ OrOne(v) \in Words /\ v \div 2 \in Words
                    /\ v >= 2 => OrOne(v) >= 2 /\ OrOne(v) \div 2 = v \div 2 /\ v \div 2 \in 0..(v - 1)
                    /\ v < 2 => OrOne(v) = 1
  OBVIOUS
<1>4. v \in Nat /\ v < 2 * h /\ Words = 0..(2 * h - 1) /\ h >= 128
  BY <1>1, <1>3 DEF Words
<1>5. OrOne(v) = IF v % 2 = 0 THEN v + 1 ELSE v
  BY DEF OrOne
<1> DEFINE o == OrOne(v)
<1> HIDE DEF o
<1>6. o = IF v % 2 = 0 THEN v + 1 ELSE v
  BY <1>5 DEF o
<1>7. /\ o \in 0..(2 * h - 1) /\ v \div 2 \in 0..(2 * h - 1)
      /\ v >= 2 => o >= 2 /\ o \div 2 = v \div 2 /\ v \div 2 \in 0..(v - 1)
      /\ v < 2 => o = 1
  BY <1>4, <1>6
<1> QED
  BY <1>4, <1>7 DEF o

(* External: the position of the highest bit.                              *)
LEMMA Ilog2Is ==
  \A v \in Words : /\ ilog2[v] \in Nat
                   /\ v < 2 => ilog2[v] = 0
                   /\ v >= 2 => ilog2[v] = 1 + ilog2[v \div 2]
<1> DEFINE N == U64 - 1
           S == Nat
           base == [v \in 0..N |-> 0]
           step == [v \in 0..N |-> [l \in S |-> 1 + l]]
           less == [v \in 0..N |-> v \div 2]
<1>0. N \in Nat /\ 2 \in Nat /\ Words = 0..N
  BY WordSize DEF Words
<1> HIDE DEF N
<1>1. \A v \in 0..N : v >= 2 => v \div 2 \in 0..(v - 1) /\ v \div 2 \in 0..N
  BY <1>0
<1>2. /\ base \in [0..N -> S] /\ step \in [0..N -> [S -> S]] /\ less \in [0..N -> Int]
  BY <1>0
<1>3. PICK g \in [0..N -> S] : Recurses(N, 2, base, step, less, g)
  <2>1. Descends(N, 2, less)
    BY <1>1 DEF Descends
  <2> HIDE DEF base, step, less, S
  <2> QED
    BY <1>0, <1>2, <2>1, RecursionExists, Zenon
<1>4. \A v \in 0..N : g[v] = IF v < 2 THEN 0 ELSE 1 + g[v \div 2]
  <2> TAKE v \in 0..N
  <2>1. g[v] = IF v < 2 THEN base[v] ELSE step[v][g[less[v]]]
    BY <1>3 DEF Recurses
  <2>2. v >= 2 => g[v \div 2] \in S
    BY <1>1
  <2> QED
    BY <1>0, <2>1, <2>2
<1>5. g = [v \in Words |-> IF v < 2 THEN 0 ELSE 1 + g[v \div 2]]
  BY <1>0, <1>4
<1> HIDE DEF S, base, step, less
<1>6. ilog2 = [v \in Words |-> IF v < 2 THEN 0 ELSE 1 + ilog2[v \div 2]]
  BY <1>5, Zenon DEF ilog2
<1>7. \A v \in Words : ilog2[v] = IF v < 2 THEN 0 ELSE 1 + ilog2[v \div 2]
  BY <1>6, Zenon
<1> DEFINE T == {v \in 0..N : ilog2[v] \in Nat}
<1>8. ASSUME NEW v \in 0..N, \A u \in 0..(v - 1) : u \in T PROVE v \in T
  <2>0. v \in Words /\ v \in Nat
    BY <1>0
  <2>1. CASE v < 2
    <3>1. ilog2[v] = 0
      BY <1>7, <2>0, <2>1, Zenon
    <3> QED
      BY <3>1
  <2>2. CASE ~(v < 2)
    <3>1. v \div 2 \in T
      BY <1>1, <1>8, <2>0, <2>2
    <3>2. ilog2[v] = 1 + ilog2[v \div 2]
      BY <1>7, <2>0, <2>2, Zenon
    <3>3. ilog2[v] \in Nat
      BY <3>1, <3>2
    <3> QED
      BY <3>3
  <2> QED
    BY <2>1, <2>2
<1>9. \A v \in 0..N : v \in T
  <2> HIDE DEF T
  <2> QED
    BY <1>0, <1>8, FromBelow
<1>10. ASSUME NEW v \in Words
       PROVE  /\ ilog2[v] \in Nat
              /\ v < 2 => ilog2[v] = 0
              /\ v >= 2 => ilog2[v] = 1 + ilog2[v \div 2]
  <2>1. v \in 0..N /\ v \in Nat
    BY <1>0
  <2>2. ilog2[v] \in Nat
    BY <1>9, <2>1
  <2>3. v < 2 => ilog2[v] = 0
    BY <1>7, Zenon
  <2>4. v >= 2 => ilog2[v] = 1 + ilog2[v \div 2]
    <3> SUFFICES ASSUME v >= 2 PROVE ilog2[v] = 1 + ilog2[v \div 2]
      OBVIOUS
    <3>1. ~(v < 2)
      BY <2>1
    <3> QED
      BY <1>7, <3>1, Zenon
  <2> QED
    BY <2>2, <2>3, <2>4
<1> QED
  BY <1>10

(* A number of n + 1 bits.                                                 *)
LEMMA Ilog2Below == \A n \in 0..63 : \A v \in Words : v < Two[n + 1] => ilog2[v] <= n
<1> DEFINE N == 63
           T == {n \in 0..N : \A v \in Words : v < Two[n + 1] => ilog2[v] <= n}
<1>1. ASSUME NEW n \in 0..N, \A u \in 0..(n - 1) : u \in T PROVE n \in T
  <2> SUFFICES ASSUME NEW v \in Words, v < Two[n + 1] PROVE ilog2[v] <= n
    OBVIOUS
  <2>0. v \in Nat /\ v \div 2 \in Words /\ n \in Nat /\ ilog2[v] \in Nat
    BY WordsAre, Ilog2Is
  <2>1. CASE v < 2
    <3>1. ilog2[v] = 0
      BY <2>1, Ilog2Is
    <3> QED
      BY <2>0, <3>1
  <2>2. CASE v >= 2
    <3>0. n # 0
      <4>1. Two[0 + 1] = 2 * Two[0] /\ Two[0] = 1
        BY TwoIs
      <4> QED
        BY <2>2, <4>1, <2>0
    <3>1. n + 1 \in 1..64 /\ n \in 0..64 /\ n - 1 \in 0..(n - 1) /\ (n + 1) - 1 = n /\ (n - 1) + 1 = n
      BY <3>0
    <3>2. Two[n + 1] = 2 * Two[n] /\ Two[n] \in Nat
      BY <3>1, TwoIs
    <3>3. v \div 2 < Two[n]
      BY <2>0, <3>2
    <3>4. n - 1 \in T
      BY <1>1, <3>1
    <3>5. ilog2[v \div 2] <= n - 1
      BY <2>0, <3>1, <3>3, <3>4
    <3>6. ilog2[v] = 1 + ilog2[v \div 2] /\ ilog2[v \div 2] \in Nat
      BY <2>0, <2>2, Ilog2Is
    <3> QED
      BY <3>5, <3>6
  <2> QED
    BY <2>0, <2>1, <2>2
<1>2. N \in Nat
  OBVIOUS
<1>3. \A n \in 0..N : (\A u \in 0..(n - 1) : u \in T) => n \in T
  <2> HIDE DEF T
  <2> QED
    BY <1>1
<1>4. \A n \in 0..N : n \in T
  <2> HIDE DEF T, N
  <2> QED
    BY <1>2, <1>3, FromBelow, Zenon
<1> QED
  BY <1>4

(* A group of seven bits.                                                  *)
LEMMA Ilog2OfGroups ==
  \A v \in Words : /\ v < 128 => ilog2[v] <= 6
                   /\ v >= 128 => ilog2[v] = 7 + ilog2[v \div 128]
                   /\ ilog2[v] <= WordBits - 1 /\ ilog2[v] \in 0..63
<1>1. ASSUME NEW v \in Words, v < 128 PROVE ilog2[v] <= 6
  <2>1. \A k \in 0..7 : Two[k] \in Nat
    BY TwoIs
  <2>2. Two[0] = 1 /\ Two[1] = 2 * Two[0] /\ Two[2] = 2 * Two[1] /\ Two[3] = 2 * Two[2] /\ Two[4] = 2 * Two[3]
    BY TwoIs
  <2>3. Two[5] = 2 * Two[4] /\ Two[6] = 2 * Two[5] /\ Two[7] = 2 * Two[6]
    BY TwoIs
  <2>4. Two[7] = 128
    BY <2>1, <2>2, <2>3
  <2>5. 6 \in 0..63 /\ 6 + 1 = 7
    OBVIOUS
  <2> QED
    BY <1>1, <2>4, <2>5, Ilog2Below
<1>2. ASSUME NEW v \in Words, v >= 128 PROVE ilog2[v] = 7 + ilog2[v \div 128]
  <2> DEFINE v1 == v \div 2
             v2 == v1 \div 2
             v3 == v2 \div 2
             v4 == v3 \div 2
             v5 == v4 \div 2
             v6 == v5 \div 2
             v7 == v6 \div 2
  <2>0. v \in Nat
    BY WordsAre
  <2>1. v1 \in Words /\ v2 \in Words /\ v3 \in Words /\ v4 \in Words /\ v5 \in Words /\ v6 \in Words
    <3>1. v1 \in Words
      BY WordsAre
    <3>2. v2 \in Words
      BY <3>1, WordsAre
    <3>3. v3 \in Words
      BY <3>2, WordsAre
    <3>4. v4 \in Words
      BY <3>3, WordsAre
    <3>5. v5 \in Words
      BY <3>4, WordsAre
    <3>6. v6 \in Words
      BY <3>5, WordsAre
    <3> QED
      BY <3>1, <3>2, <3>3, <3>4, <3>5, <3>6
  <2>2. v >= 2 /\ v1 >= 2 /\ v2 >= 2 /\ v3 >= 2 /\ v4 >= 2 /\ v5 >= 2 /\ v6 >= 2 /\ v7 = v \div 128
    BY <1>2, <2>0
  <2>a. v7 \in Words
    BY <2>1, WordsAre
  <2> HIDE DEF v1, v2, v3, v4, v5, v6, v7
  <2>3. /\ ilog2[v] = 1 + ilog2[v1] /\ ilog2[v1] = 1 + ilog2[v2] /\ ilog2[v2] = 1 + ilog2[v3]
        /\ ilog2[v3] = 1 + ilog2[v4] /\ ilog2[v4] = 1 + ilog2[v5]
    BY <2>1, <2>2, Ilog2Is DEF v1, v2, v3, v4, v5
  <2>4. ilog2[v5] = 1 + ilog2[v6] /\ ilog2[v6] = 1 + ilog2[v7]
    BY <2>1, <2>2, Ilog2Is DEF v6, v7
  <2>5. ilog2[v7] \in Nat
    BY <2>a, Ilog2Is
  <2>6. ilog2[v] = 7 + ilog2[v7]
    BY <2>3, <2>4, <2>5
  <2> QED
    BY <2>2, <2>6
<1>3. ASSUME NEW v \in Words PROVE ilog2[v] <= WordBits - 1 /\ ilog2[v] \in 0..63
  <2>1. WordBits \in 8..64 /\ v < U64 /\ v \in Nat
    BY WordSize
  <2>2. WordBits - 1 \in 0..63 /\ (WordBits - 1) + 1 = WordBits
    BY <2>1
  <2>3. ilog2[v] <= WordBits - 1
    BY <2>1, <2>2, Ilog2Below DEF U64
  <2>4. ilog2[v] \in Nat
    BY Ilog2Is
  <2> QED
    BY <2>1, <2>3, <2>4
<1> QED
  BY <1>1, <1>2, <1>3

(* The formula of tw_varint_len is the length of what is written, and no   *)
(* varint is longer than what the decoder reads.                           *)
LEMMA VarintLength ==
  \A v \in Words : Len(tw_encode_varint(v)) = tw_varint_len(v) /\ tw_varint_len(v) \in 1..VarintMax
<1> DEFINE N == U64 - 1
           T == {v \in 0..N : Len(Varints[v]) = ilog2[v] \div 7 + 1}
<1>0. N \in Nat /\ Words = 0..N
  BY WordSize DEF Words
<1> HIDE DEF N
<1>1. ASSUME NEW v \in 0..N, \A u \in 0..(v - 1) : u \in T PROVE v \in T
  <2>0. v \in Words /\ v \in Nat /\ ilog2[v] \in Nat
    BY <1>0, Ilog2Is
  <2>1. CASE v < 128
    <3>1. ilog2[v] <= 6 /\ Varints[v] = <<v>>
      BY <2>0, <2>1, Ilog2OfGroups, VarintsAre
    <3>2. Len(Varints[v]) = 1 /\ ilog2[v] \div 7 = 0
      BY <2>0, <3>1
    <3>3. Len(Varints[v]) = ilog2[v] \div 7 + 1
      BY <3>2
    <3> QED
      BY <3>3
  <2>2. CASE v >= 128
    <3> DEFINE w == v \div 128
    <3>1. w \in 0..(v - 1) /\ w \in Words /\ Varints[v] = <<128 + (v % 128)>> \o Varints[w]
      BY <2>0, <2>2, VarintsAre
    <3> HIDE DEF w
    <3>2. w \in T /\ ilog2[w] \in Nat /\ Varints[w] \in Seq(Byte)
      BY <1>1, <3>1, Ilog2Is, VarintsAre
    <3>3. ilog2[v] = 7 + ilog2[w]
      BY <2>0, <2>2, Ilog2OfGroups DEF w
    <3>4. Len(Varints[v]) = 1 + Len(Varints[w])
      <4>1. 128 + (v % 128) \in Byte
        BY <2>0 DEF Byte
      <4>2. <<128 + (v % 128)>> \in Seq(Byte) /\ Len(<<128 + (v % 128)>>) = 1
        BY <4>1
      <4> QED
        BY <3>1, <3>2, <4>2, ConcatProperties
    <3>5. Len(Varints[w]) = ilog2[w] \div 7 + 1
      BY <3>2
    <3>6. Len(Varints[v]) = ilog2[v] \div 7 + 1
      BY <3>2, <3>3, <3>4, <3>5
    <3> QED
      BY <3>6
  <2> QED
    BY <2>0, <2>1, <2>2
<1>2. \A v \in 0..N : v \in T
  <2> HIDE DEF T
  <2> QED
    BY <1>0, <1>1, FromBelow
<1> SUFFICES ASSUME NEW v \in Words
             PROVE  Len(Varints[v]) = tw_varint_len(v) /\ tw_varint_len(v) \in 1..VarintMax
  BY DEF tw_encode_varint
<1>3. ilog2[OrOne(v)] = ilog2[v]
  <2>1. CASE v < 2
    <3>1. OrOne(v) = 1 /\ 1 \in Words
      BY <2>1, WordsAre
    <3> QED
      BY <2>1, <3>1, Ilog2Is
  <2>2. CASE v >= 2
    <3>1. OrOne(v) \in Words /\ OrOne(v) >= 2 /\ OrOne(v) \div 2 = v \div 2
      BY <2>2, WordsAre
    <3> QED
      BY <2>2, <3>1, Ilog2Is
  <2>3. v \in Nat
    BY WordsAre
  <2> QED
    BY <2>1, <2>2, <2>3
<1> DEFINE l == ilog2[v]
<1>4. l \in 0..63 /\ l <= WordBits - 1 /\ Len(Varints[v]) = l \div 7 + 1
  BY <1>0, <1>2, Ilog2OfGroups
<1>5. tw_varint_len(v) = (l * 9 + 73) \div 64
  BY <1>3 DEF tw_varint_len
<1> HIDE DEF l
<1>6. (l * 9 + 73) \div 64 = l \div 7 + 1
  BY <1>4
<1>7. l \div 7 + 1 \in 1..((WordBits + 6) \div 7)
  BY <1>4, WordSize
<1> QED
  BY <1>4, <1>5, <1>6, <1>7 DEF VarintMax

(* The continuation bit is on every byte but the last.                     *)
EndsItself(s) == /\ s \in Seq(Byte) /\ Len(s) >= 1
                 /\ s[Len(s)] < 128
                 /\ \A i \in 1..(Len(s) - 1) : s[i] >= 128

LEMMA VarintsEnd == \A v \in Words : EndsItself(Varints[v])
<1> DEFINE N == U64 - 1
           T == {v \in 0..N : EndsItself(Varints[v])}
<1>0. N \in Nat /\ Words = 0..N
  BY WordSize DEF Words
<1> HIDE DEF N
<1>1. ASSUME NEW v \in 0..N, \A u \in 0..(v - 1) : u \in T PROVE v \in T
  <2>0. v \in Words /\ v \in Nat
    BY <1>0
  <2>1. CASE v < 128
    <3>0. v \in Byte
      BY <2>0, <2>1 DEF Byte
    <3>1. Varints[v] = <<v>>
      BY <2>0, <2>1, VarintsAre
    <3>2. <<v>> \in Seq(Byte) /\ Len(<<v>>) = 1 /\ <<v>>[1] = v
      BY <3>0
    <3>3. EndsItself(<<v>>)
      BY <2>0, <2>1, <3>2 DEF EndsItself
    <3> QED
      BY <3>1, <3>3
  <2>2. CASE v >= 128
    <3> DEFINE w == v \div 128
               b == 128 + (v % 128)
               rest == Varints[w]
    <3>1. w \in 0..(v - 1) /\ w \in Words /\ Varints[v] = <<b>> \o rest
      BY <2>0, <2>2, VarintsAre
    <3>2. b \in Byte /\ b >= 128
      BY <2>0 DEF Byte
    <3> HIDE DEF w, b
    <3>3. EndsItself(rest)
      BY <1>1, <3>1
    <3> HIDE DEF rest
    <3>4. <<b>> \in Seq(Byte) /\ Len(<<b>>) = 1 /\ <<b>>[1] = b
      BY <3>2
    <3> DEFINE first == <<b>>
    <3>5. first \in Seq(Byte) /\ Len(first) = 1 /\ first[1] = b
      BY <3>4
    <3> HIDE DEF first
    <3>6. /\ first \o rest \in Seq(Byte) /\ Len(first \o rest) = 1 + Len(rest) /\ Len(rest) \in Nat
          /\ \A i \in 1..(1 + Len(rest)) : (first \o rest)[i] = IF i <= 1 THEN first[i] ELSE rest[i - 1]
      <4>1. rest \in Seq(Byte)
        BY <3>3 DEF EndsItself
      <4>2. /\ first \o rest \in Seq(Byte) /\ Len(first \o rest) = Len(first) + Len(rest)
            /\ \A i \in 1..(Len(first) + Len(rest)) :
                  (first \o rest)[i] = IF i <= Len(first) THEN first[i] ELSE rest[i - Len(first)]
        BY <3>5, <4>1, ConcatProperties, Zenon
      <4> QED
        BY <3>5, <4>1, <4>2, LenProperties, Zenon
    <3> DEFINE all == first \o rest
    <3> HIDE DEF all
    <3>7. /\ all \in Seq(Byte) /\ Len(all) = 1 + Len(rest) /\ Len(rest) \in Nat
          /\ \A i \in 1..(1 + Len(rest)) : all[i] = IF i <= 1 THEN first[i] ELSE rest[i - 1]
      BY <3>6 DEF all
    <3>8. all[Len(all)] < 128
      <4>1. Len(all) \in 1..(1 + Len(rest)) /\ ~(Len(all) <= 1) /\ Len(all) - 1 = Len(rest)
        BY <3>3, <3>7 DEF EndsItself
      <4> QED
        BY <3>3, <3>7, <4>1 DEF EndsItself
    <3>9. ASSUME NEW i \in 1..(Len(all) - 1) PROVE all[i] >= 128
      <4>1. i \in 1..(1 + Len(rest)) /\ i - 1 < Len(rest)
        BY <3>7
      <4>2. CASE i <= 1
        <5>1. i = 1
          BY <4>2
        <5> QED
          BY <3>2, <3>5, <3>7, <4>1, <5>1
      <4>3. CASE ~(i <= 1)
        <5>1. i - 1 \in 1..(Len(rest) - 1) /\ all[i] = rest[i - 1]
          BY <3>7, <4>1, <4>3
        <5> QED
          BY <3>3, <5>1 DEF EndsItself
      <4> QED
        BY <4>2, <4>3
    <3>10. EndsItself(all)
      BY <3>7, <3>8, <3>9 DEF EndsItself
    <3>11. EndsItself(Varints[v])
      BY <3>1, <3>10 DEF all, first
    <3> QED
      BY <3>11
  <2> QED
    BY <2>0, <2>1, <2>2
<1>2. \A v \in 0..N : v \in T
  <2> HIDE DEF T
  <2> QED
    BY <1>0, <1>1, FromBelow
<1> QED
  BY <1>0, <1>2

(* The groups are added up as they are read.                               *)
LEMMA GroupSteps ==
  /\ GroupStep \in Steps(Partials, Byte) /\ GroupStart \in Partials
  /\ \A p \in Partials : \A b \in Byte :
        GroupStep[p][b] = [value |-> p.value + (b % 128) * p.weight, weight |-> 128 * p.weight]
<1>1. ASSUME NEW p \in Partials, NEW b \in Byte PROVE ReadGroup(p, b) \in Partials
  <2>1. p.value \in Nat /\ p.weight \in Nat /\ b % 128 \in Nat
    BY DEF Partials, Byte
  <2>2. \A x \in Nat : \A y \in Nat : x * y \in Nat
    OBVIOUS
  <2>3. (b % 128) * p.weight \in Nat /\ 128 * p.weight \in Nat
    BY <2>1, <2>2
  <2>4. p.value + (b % 128) * p.weight \in Nat
    BY <2>1, <2>3
  <2> QED
    BY <2>3, <2>4 DEF ReadGroup, Partials
<1>2. GroupStep \in [Partials -> [Byte -> Partials]]
  BY <1>1 DEF GroupStep
<1>3. GroupStart \in Partials
  BY DEF GroupStart, Partials
<1> QED
  BY <1>2, <1>3 DEF GroupStep, Steps, ReadGroup

LEMMA ValueGrows == \A a, q, r, w \in Nat : (a + r * w) + q * (128 * w) = a + (128 * q + r) * w
  OBVIOUS

LEMMA GroupsAdd ==
  \A v \in Words : \A p \in Partials : Fold(GroupStep, p, Varints[v]).value = p.value + v * p.weight
<1> DEFINE N == U64 - 1
           T == {v \in 0..N : \A p \in Partials : Fold(GroupStep, p, Varints[v]).value = p.value + v * p.weight}
<1>0. N \in Nat /\ Words = 0..N
  BY WordSize DEF Words
<1> HIDE DEF N
<1>1. ASSUME NEW v \in 0..N, \A u \in 0..(v - 1) : u \in T PROVE v \in T
  <2> SUFFICES ASSUME NEW p \in Partials
               PROVE  Fold(GroupStep, p, Varints[v]).value = p.value + v * p.weight
    OBVIOUS
  <2>0. v \in Words /\ v \in Nat /\ p.value \in Nat /\ p.weight \in Nat
    BY <1>0 DEF Partials
  <2>e. GroupStep \in Steps(Partials, Byte)
    BY GroupSteps
  <2>f. \A b \in Byte : Fold(GroupStep, p, <<b>>) = GroupStep[p][b]
    <3> HIDE DEF T
    <3> TAKE b \in Byte
    <3>1. <<>> \in Seq(Byte)
      OBVIOUS
    <3>2. Fold(GroupStep, p, Append(<<>>, b)) = GroupStep[Fold(GroupStep, p, <<>>)][b]
      <4> DEFINE none == <<>>
      <4>1. none \in Seq(Byte)
        BY <3>1
      <4> HIDE DEF none
      <4>2. Fold(GroupStep, p, Append(none, b)) = GroupStep[Fold(GroupStep, p, none)][b]
        BY <2>e, <4>1, FoldOfMore
      <4> QED
        BY <4>2 DEF none
    <3>3. Fold(GroupStep, p, <<>>) = p
      BY <2>e, FoldOfNone
    <3>4. Append(<<>>, b) = <<b>>
      OBVIOUS
    <3> QED
      BY <3>2, <3>3, <3>4, Zenon
  <2>1. CASE v < 128
    <3>0. Varints[v] = <<v>>
      BY <2>0, <2>1, VarintsAre
    <3>1. v \in Byte /\ v % 128 = v
      BY <2>0, <2>1 DEF Byte
    <3>2. Fold(GroupStep, p, Varints[v]) = GroupStep[p][v]
      BY <2>f, <3>0, <3>1, Zenon
    <3>a. GroupStep[p][v] = [value |-> p.value + (v % 128) * p.weight, weight |-> 128 * p.weight]
      BY <3>1, GroupSteps, Zenon
    <3>3. GroupStep[p][v].value = p.value + (v % 128) * p.weight
      <4> DEFINE next == GroupStep[p][v]
                 x == p.value + (v % 128) * p.weight
                 y == 128 * p.weight
      <4> HIDE DEF next, x, y
      <4>1. next = [value |-> x, weight |-> y]
        BY <3>a, Zenon DEF next, x, y
      <4>2. next.value = x
        BY <4>1
      <4> QED
        BY <4>2 DEF next, x
    <3> QED
      BY <3>1, <3>2, <3>3
  <2>2. CASE v >= 128
    <3> DEFINE w == v \div 128
               r == v % 128
               b == 128 + r
               next == GroupStep[p][b]
    <3>1. w \in 0..(v - 1) /\ w \in Words /\ Varints[v] = <<b>> \o Varints[w]
      BY <2>0, <2>2, VarintsAre
    <3>2. b \in Byte /\ b % 128 = r /\ v = 128 * w + r /\ w \in Nat /\ r \in Nat
      BY <2>0 DEF Byte
    <3> HIDE DEF w, r, b
    <3>3. next \in Partials /\ next = [value |-> p.value + r * p.weight, weight |-> 128 * p.weight]
      BY <2>e, <3>2, GroupSteps DEF Steps
    <3>4. next.value = p.value + r * p.weight /\ next.weight = 128 * p.weight
      BY <3>3
    <3> HIDE DEF next
    <3>5. Fold(GroupStep, p, <<b>> \o Varints[w]) = Fold(GroupStep, next, Varints[w])
      <4> DEFINE first == <<b>>
      <4>1. first \in Seq(Byte) /\ Varints[w] \in Seq(Byte)
        <5>1. Varints[w] \in Seq(Byte)
          BY <3>1, VarintsAre
        <5>2. <<b>> \in Seq(Byte)
          BY <3>2
        <5> QED
          BY <5>1, <5>2
      <4>2. Fold(GroupStep, p, first) = next
        BY <2>f, <3>2, Zenon DEF next
      <4> HIDE DEF first
      <4>3. Fold(GroupStep, p, first \o Varints[w]) = Fold(GroupStep, Fold(GroupStep, p, first), Varints[w])
        BY <2>e, <4>1, FoldOfBoth
      <4> QED
        BY <4>2, <4>3 DEF first
    <3>6. w \in T
      BY <1>1, <3>1
    <3>7. Fold(GroupStep, next, Varints[w]).value = next.value + w * next.weight
      BY <3>3, <3>6
    <3>8. next.value + w * next.weight = p.value + (128 * w + r) * p.weight
      BY <2>0, <3>2, <3>4, ValueGrows
    <3> QED
      BY <3>1, <3>2, <3>5, <3>7, <3>8
  <2> QED
    BY <2>0, <2>1, <2>2
<1>2. \A v \in 0..N : v \in T
  <2> HIDE DEF T
  <2> QED
    BY <1>0, <1>1, FromBelow
<1> QED
  BY <1>0, <1>2

LEMMA ValueOfVarint == \A v \in Words : ValueOf(Varints[v]) = v
<1> TAKE v \in Words
<1>1. GroupStart \in Partials /\ GroupStart.value = 0 /\ GroupStart.weight = 1
  BY GroupSteps DEF GroupStart
<1>2. Fold(GroupStep, GroupStart, Varints[v]).value = GroupStart.value + v * GroupStart.weight
  BY <1>1, GroupsAdd, Zenon
<1>3. v \in Nat
  BY WordsAre
<1> QED
  BY <1>1, <1>2, <1>3 DEF ValueOf

(* The first byte without the continuation bit.                            *)
LEMMA FirstStop ==
  ASSUME NEW bytes \in Seq(Byte)
  PROVE  /\ Stops(bytes) \subseteq 1..Len(bytes)
         /\ Stops(bytes) # {} => /\ Min(Stops(bytes)) \in Stops(bytes)
                                 /\ \A i \in Stops(bytes) : Min(Stops(bytes)) <= i
         /\ \A i \in Stops(bytes) : (\A j \in 1..(i - 1) : j \notin Stops(bytes)) => Min(Stops(bytes)) = i
<1> DEFINE S == Stops(bytes)
<1>1. S \subseteq 1..Len(bytes) /\ S \subseteq Nat
  <2>1. Len(bytes) \in Nat
    OBVIOUS
  <2> QED
    BY <2>1 DEF Stops
<1> HIDE DEF S
<1>2. S # {} => \E k \in S : \A l \in S : k <= l
  BY <1>1, LeastNumber
<1>3. S # {} => Min(S) \in S /\ \A i \in S : Min(S) <= i
  BY <1>2 DEF Min
<1>4. ASSUME NEW i \in S, \A j \in 1..(i - 1) : j \notin S PROVE Min(S) = i
  <2> DEFINE m == Min(S)
  <2>1. m \in S /\ m <= i
    BY <1>3, Zenon
  <2> HIDE DEF m
  <2>2. m \in 1..Len(bytes) /\ m \in Nat /\ i \in Nat
    BY <1>1, <2>1
  <2>3. m = i
    <3> SUFFICES ASSUME m # i PROVE FALSE
      OBVIOUS
    <3>1. m \in 1..(i - 1)
      BY <2>1, <2>2
    <3> QED
      BY <1>4, <2>1, <3>1
  <2> QED
    BY <2>3 DEF m
<1> QED
  BY <1>1, <1>3, <1>4 DEF S

(* What follows a varint is not read.                                      *)
LEMMA ReadsToTheStop ==
  ASSUME NEW s, EndsItself(s), NEW rest \in Seq(Byte)
  PROVE  /\ Stops(s \o rest) # {} /\ Min(Stops(s \o rest)) = Len(s)
         /\ Slice(s \o rest, 0, Len(s)) = s
<1> DEFINE all == s \o rest
<1>1. s \in Seq(Byte) /\ Len(s) \in Nat /\ Len(s) >= 1 /\ Len(rest) \in Nat
  BY DEF EndsItself
<1>2. /\ all \in Seq(Byte) /\ Len(all) = Len(s) + Len(rest)
      /\ \A i \in 1..(Len(s) + Len(rest)) : all[i] = IF i <= Len(s) THEN s[i] ELSE rest[i - Len(s)]
  BY <1>1, ConcatProperties, Zenon
<1> HIDE DEF all
<1>3. ASSUME NEW i \in 1..Len(s) PROVE all[i] = s[i] /\ i \in 1..Len(all)
  <2>1. i \in 1..(Len(s) + Len(rest)) /\ i <= Len(s)
    BY <1>1
  <2> QED
    BY <1>2, <2>1
<1>4. Len(s) \in Stops(all)
  <2>1. Len(s) \in 1..Len(s)
    BY <1>1
  <2> QED
    BY <1>3, <2>1 DEF EndsItself, Stops
<1>5. ASSUME NEW j \in 1..(Len(s) - 1) PROVE j \notin Stops(all)
  <2>1. j \in 1..Len(s) /\ s[j] >= 128 /\ s[j] \in Byte
    BY <1>1 DEF EndsItself
  <2>2. all[j] = s[j]
    BY <1>3, <2>1
  <2>3. \A x \in Byte : x >= 128 => ~(x < 128)
    BY DEF Byte
  <2>4. ~(all[j] < 128)
    BY <2>1, <2>2, <2>3, Zenon
  <2> QED
    BY <2>4, Zenon DEF Stops
<1>6. Min(Stops(all)) = Len(s)
  BY <1>2, <1>4, <1>5, FirstStop
<1>7. Slice(all, 0, Len(s)) = s
  <2> DEFINE part == SubSeq(all, 0 + 1, 0 + Len(s))
  <2>1. part = SubSeq(all, 1, Len(s))
    BY <1>1
  <2>2. part \in Seq(Byte) /\ Len(part) = Len(s) /\ \A i \in 1..Len(s) : part[i] = all[i]
    BY <1>1, <1>2, <2>1
  <2> HIDE DEF part
  <2>3. part = s
    BY <1>1, <1>3, <2>2, SeqEqual
  <2> QED
    BY <2>3 DEF Slice, part
<1> QED
  BY <1>4, <1>6, <1>7 DEF all

(* Every word is read back as it was written, whatever follows; its length *)
(* is the one tw_varint_len computes; and a varint that was cut anywhere is*)
(* refused (tw_encode_varint, tw_varint_len, tw_decode_varint).            *)
THEOREM VarintsReadBack ==
  \A v \in Words :
    LET written == tw_encode_varint(v)
    IN /\ Len(written) = tw_varint_len(v)
       /\ \A rest \in Seq(Byte) : tw_decode_varint(written \o rest) = Okay(v, tw_varint_len(v))
       /\ \A n \in 0..(Len(written) - 1) :
             tw_decode_varint(SubSeq(written, 1, n)) = Fails("UnexpectedEof")
<1> SUFFICES ASSUME NEW v \in Words
             PROVE  LET written == Varints[v]
                    IN /\ Len(written) = tw_varint_len(v)
                       /\ \A rest \in Seq(Byte) : tw_decode_varint(written \o rest) = Okay(v, tw_varint_len(v))
                       /\ \A n \in 0..(Len(written) - 1) :
                             tw_decode_varint(SubSeq(written, 1, n)) = Fails("UnexpectedEof")
  BY DEF tw_encode_varint
<1> DEFINE s == Varints[v]
<1>1. Len(s) = tw_varint_len(v) /\ Len(s) \in 1..VarintMax
  BY VarintLength DEF tw_encode_varint
<1>2. EndsItself(s) /\ ValueOf(s) = v /\ v % U64 = v
  <2>1. v \in Nat /\ v < U64 /\ U64 \in Nat
    BY WordSize
  <2>2. v % U64 = v
    BY <2>1
  <2> QED
    BY <2>2, VarintsEnd, ValueOfVarint
<1>3. VarintMax \in Nat
  BY WordSize DEF VarintMax
<1> HIDE DEF s
<1>4. ASSUME NEW rest \in Seq(Byte) PROVE tw_decode_varint(s \o rest) = Okay(v, Len(s))
  <2> DEFINE all == s \o rest
  <2>1. Stops(all) # {} /\ Min(Stops(all)) = Len(s) /\ Slice(all, 0, Len(s)) = s
    BY <1>2, ReadsToTheStop
  <2>2. ~(Len(s) > VarintMax)
    BY <1>1, <1>3
  <2> HIDE DEF all
  <2>3. tw_decode_varint(all) = Okay(ValueOf(Slice(all, 0, Len(s))) % U64, Len(s))
    BY <2>1, <2>2, Zenon DEF tw_decode_varint
  <2> QED
    BY <1>2, <2>1, <2>3 DEF all
<1>5. ASSUME NEW n \in 0..(Len(s) - 1) PROVE tw_decode_varint(SubSeq(s, 1, n)) = Fails("UnexpectedEof")
  <2> DEFINE cut == SubSeq(s, 1, n)
  <2>0. s \in Seq(Byte) /\ Len(s) \in Nat
    BY <1>2 DEF EndsItself
  <2>1. cut \in Seq(Byte) /\ Len(cut) = n /\ \A i \in 1..n : cut[i] = s[i]
    BY <2>0
  <2> HIDE DEF cut
  <2>2. Stops(cut) = {}
    <3> SUFFICES ASSUME NEW i \in Stops(cut) PROVE FALSE
      OBVIOUS
    <3>1. i \in 1..n /\ cut[i] < 128 /\ i \in 1..(Len(s) - 1)
      BY <2>0, <2>1 DEF Stops
    <3>2. s[i] >= 128 /\ s[i] < 128 /\ s[i] \in Byte
      BY <1>2, <2>0, <2>1, <3>1 DEF EndsItself
    <3>3. \A x \in Byte : x >= 128 => ~(x < 128)
      BY DEF Byte
    <3> QED
      BY <3>2, <3>3, Zenon
  <2>3. ~(Len(cut) > VarintMax)
    BY <1>1, <1>3, <2>1
  <2> QED
    BY <2>2, <2>3 DEF tw_decode_varint, cut
<1> QED
  BY <1>1, <1>4, <1>5 DEF s

(* Whatever bytes arrive, what is read is a word, and the bytes it took are*)
(* among those that are there and no more than a varint has.               *)
LEMMA DecodedIsAWord ==
  ASSUME NEW bytes \in Seq(Byte), tw_decode_varint(bytes).ok
  PROVE  LET r == tw_decode_varint(bytes)
         IN r.value \in Words /\ r.used \in 1..Len(bytes) /\ r.used <= VarintMax
<1> DEFINE S == Stops(bytes)
           m == Min(S)
           part == Slice(bytes, 0, m)
<1>1. ~(S = {} \/ m > VarintMax)
  BY DEF tw_decode_varint, Fails
<1>2. tw_decode_varint(bytes) = Okay(ValueOf(part) % U64, m)
  BY <1>1, Zenon DEF tw_decode_varint
<1>3. m \in 1..Len(bytes)
  BY <1>1, FirstStop
<1>4. part \in Seq(Byte)
  <2>1. Len(bytes) \in Nat /\ m \in Nat /\ m <= Len(bytes)
    BY <1>3
  <2> HIDE DEF m
  <2>2. SubSeq(bytes, 0 + 1, 0 + m) = SubSeq(bytes, 1, m)
    BY <2>1
  <2>3. SubSeq(bytes, 1, m) \in Seq(Byte)
    BY <2>1
  <2> QED
    BY <2>2, <2>3 DEF Slice
<1> HIDE DEF m, part, S
<1>5. ValueOf(part) \in Nat
  <2>1. Fold(GroupStep, GroupStart, part) \in Partials
    BY <1>4, GroupSteps, FoldTyped
  <2> QED
    BY <2>1 DEF ValueOf, Partials
<1> DEFINE x == ValueOf(part)
<1> HIDE DEF x
<1>6. x % U64 \in Words
  <2>1. x \in Nat /\ U64 \in Nat /\ U64 >= 256
    BY <1>5, WordSize DEF x
  <2>2. x % U64 \in 0..(U64 - 1)
    BY <2>1
  <2> QED
    BY <2>2 DEF Words
<1>7. VarintMax \in Nat /\ m \in Nat
  BY <1>3, WordSize DEF VarintMax
<1>8. m <= VarintMax
  BY <1>1, <1>7
<1> QED
  BY <1>2, <1>3, <1>6, <1>8 DEF Okay, x

(* Signed numbers of a word survive tw_zigzag_encode and tw_zigzag_decode, *)
(* and every word is the encoding of one.                                  *)
THEOREM ZigzagReadsBack ==
  /\ \A v \in (-(U64 \div 2))..(U64 \div 2 - 1) :
        tw_zigzag_encode(v) \in Words /\ tw_zigzag_decode(tw_zigzag_encode(v)) = v
  /\ \A w \in Words : /\ tw_zigzag_decode(w) \in (-(U64 \div 2))..(U64 \div 2 - 1)
                      /\ tw_zigzag_encode(tw_zigzag_decode(w)) = w
<1>1. PICK h \in Nat : U64 = 2 * h /\ h >= 128
  <2>1. WordBits \in 1..64 /\ WordBits - 1 \in 0..64 /\ U64 >= 256
    BY WordSize
  <2>2. U64 = 2 * Two[WordBits - 1] /\ Two[WordBits - 1] \in Nat
    BY <2>1, TwoIs DEF U64
  <2> QED
    BY <2>1, <2>2
<1>2. U64 \div 2 = h /\ Words = 0..(2 * h - 1)
  BY <1>1 DEF Words
<1>3. ASSUME NEW v \in (-h)..(h - 1)
      PROVE  tw_zigzag_encode(v) \in 0..(2 * h - 1) /\ tw_zigzag_decode(tw_zigzag_encode(v)) = v
  BY <1>1 DEF tw_zigzag_encode, tw_zigzag_decode
<1>4. ASSUME NEW w \in 0..(2 * h - 1)
      PROVE  tw_zigzag_decode(w) \in (-h)..(h - 1) /\ tw_zigzag_encode(tw_zigzag_decode(w)) = w
  BY <1>1 DEF tw_zigzag_encode, tw_zigzag_decode
<1> QED
  BY <1>2, <1>3, <1>4

(* What a decoder skips of a field it does not know lies within the bytes  *)
(* it has, and after a value of its own making it is at the end of it      *)
(* (tw_skip_wire_value).                                                   *)
THEOREM SkippingIsExact ==
  /\ \A bytes \in Seq(Byte), wt \in 0..7 :
        LET r == tw_skip_wire_value(bytes, wt) IN r.ok => wt \in {0, 1, 2, 5} /\ r.used \in 0..Len(bytes)
  /\ \A v \in Words, rest \in Seq(Byte) :
        LET r == tw_skip_wire_value(tw_encode_varint(v) \o rest, 0) IN r.ok /\ r.used = tw_varint_len(v)
  /\ \A data, rest \in Seq(Byte) :
        Len(data) + VarintMax < U64 =>
          LET length == tw_encode_varint(Len(data))
              r == tw_skip_wire_value(length \o (data \o rest), 2)
          IN r.ok /\ r.used = Len(length \o data)
<1>1. ASSUME NEW bytes \in Seq(Byte), NEW wt \in 0..7, tw_skip_wire_value(bytes, wt).ok
      PROVE  wt \in {0, 1, 2, 5} /\ tw_skip_wire_value(bytes, wt).used \in 0..Len(bytes)
  <2> DEFINE d == tw_decode_varint(bytes)
             r == tw_skip_wire_value(bytes, wt)
             Skip(n) == IF Len(bytes) < n THEN Fails("UnexpectedEof") ELSE Okay(<<>>, n)
  <2>0. Len(bytes) \in Nat
    OBVIOUS
  <2>s. \A n \in Nat : Skip(n).ok => Skip(n).used \in 0..Len(bytes)
    BY <2>0 DEF Okay, Fails
  <2>1. CASE wt = 0
    <3>1. r = d
      BY <2>1 DEF tw_skip_wire_value
    <3>2. d.used \in 1..Len(bytes)
      BY <1>1, <3>1, DecodedIsAWord
    <3> HIDE DEF d, r
    <3>3. r.used \in 0..Len(bytes)
      BY <2>0, <3>1, <3>2
    <3> QED
      BY <2>1, <3>3 DEF r
  <2>2. CASE wt = 1
    <3>1. r = Skip(8)
      BY <2>2 DEF tw_skip_wire_value
    <3> QED
      BY <1>1, <2>2, <2>s, <3>1
  <2>3. CASE wt = 5
    <3>1. r = Skip(4)
      BY <2>3 DEF tw_skip_wire_value
    <3> QED
      BY <1>1, <2>3, <2>s, <3>1
  <2>4. CASE wt = 2
    <3>1. r = IF d.ok THEN Skip((d.used + d.value) % U64) ELSE d
      BY <2>4 DEF tw_skip_wire_value, Bind
    <3>2. d.ok
      BY <1>1, <3>1
    <3>3. d.used \in Nat /\ d.value \in Nat
      BY <2>0, <3>2, DecodedIsAWord, WordSize
    <3> DEFINE n == (d.used + d.value) % U64
    <3> HIDE DEF d
    <3>4. n \in Nat
      BY <3>3, WordSize
    <3>5. r = Skip(n)
      BY <3>1, <3>2
    <3> HIDE DEF n
    <3> QED
      BY <1>1, <2>4, <2>s, <3>4, <3>5
  <2>5. CASE wt \notin {0, 1, 2, 5}
    <3>1. r = Fails("UnknownWireType")
      BY <2>5 DEF tw_skip_wire_value
    <3>2. ~r.ok
      BY <3>1 DEF Fails
    <3> QED
      BY <1>1, <3>2
  <2> QED
    BY <2>1, <2>2, <2>3, <2>4, <2>5
<1>2. ASSUME NEW v \in Words, NEW rest \in Seq(Byte)
      PROVE  LET r == tw_skip_wire_value(tw_encode_varint(v) \o rest, 0) IN r.ok /\ r.used = tw_varint_len(v)
  <2> DEFINE all == tw_encode_varint(v) \o rest
  <2>1. tw_decode_varint(all) = Okay(v, tw_varint_len(v))
    BY VarintsReadBack, Zenon
  <2>2. tw_skip_wire_value(all, 0) = tw_decode_varint(all)
    BY DEF tw_skip_wire_value
  <2> HIDE DEF all
  <2> QED
    BY <2>1, <2>2 DEF Okay, all
<1>3. ASSUME NEW data \in Seq(Byte), NEW rest \in Seq(Byte), Len(data) + VarintMax < U64
      PROVE  LET length == tw_encode_varint(Len(data))
                 r == tw_skip_wire_value(length \o (data \o rest), 2)
             IN r.ok /\ r.used = Len(length \o data)
  <2> DEFINE k == Len(data)
             length == tw_encode_varint(k)
             all == length \o (data \o rest)
             used == tw_varint_len(k)
  <2>1. k \in Nat /\ k \in Words /\ VarintMax \in Nat /\ U64 \in Nat
    <3>1. VarintMax \in Nat /\ U64 \in Nat /\ k \in Nat
      BY WordSize DEF VarintMax
    <3> QED
      BY <1>3, <3>1 DEF Words
  <2>2. used \in 1..VarintMax /\ Len(length) = used /\ length \in Seq(Byte)
    BY <2>1, VarintLength, VarintsAre DEF tw_encode_varint
  <2>3. data \o rest \in Seq(Byte) /\ Len(data \o rest) = k + Len(rest) /\ Len(rest) \in Nat
    BY ConcatProperties
  <2>4. tw_decode_varint(all) = Okay(k, used)
    BY <2>1, <2>3, VarintsReadBack, Zenon
  <2> HIDE DEF k, length, used
  <2>5. Len(all) = used + (k + Len(rest)) /\ Len(length \o data) = used + k
    <3>1. Len(data) = k
      BY DEF k
    <3> QED
      BY <2>2, <2>3, <3>1, ConcatProperties
  <2>6. (used + k) % U64 = used + k
    <3>1. used \in Nat /\ used <= VarintMax
      BY <2>1, <2>2
    <3>2. k + VarintMax < U64
      BY <1>3 DEF k
    <3>3. used + k \in Nat /\ used + k < U64
      BY <2>1, <3>1, <3>2
    <3> DEFINE n == used + k
    <3> HIDE DEF n
    <3>4. n \in Nat /\ n < U64
      BY <3>3 DEF n
    <3>5. n % U64 = n
      BY <2>1, <3>4
    <3> QED
      BY <3>5 DEF n
  <2> HIDE DEF all
  <2>7. tw_skip_wire_value(all, 2) = IF Len(all) < used + k THEN Fails("UnexpectedEof") ELSE Okay(<<>>, used + k)
    <3>1. tw_decode_varint(all).ok /\ tw_decode_varint(all).used = used /\ tw_decode_varint(all).value = k
      BY <2>4 DEF Okay
    <3> QED
      BY <2>6, <3>1 DEF tw_skip_wire_value, Bind
  <2>8. ~(Len(all) < used + k)
    <3>1. used \in Nat
      BY <2>1, <2>2
    <3> QED
      BY <2>1, <2>3, <2>5, <3>1
  <2>9. tw_skip_wire_value(all, 2) = Okay(<<>>, Len(length \o data))
    BY <2>5, <2>7, <2>8
  <2> QED
    BY <2>9 DEF Okay, all, length, k
<1> QED
  BY <1>1, <1>2, <1>3
=============================================================================
