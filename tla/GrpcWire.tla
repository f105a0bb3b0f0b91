------------------------------ MODULE GrpcWire ------------------------------
(***************************************************************************)
(* What goes around a message on a gRPC connection (typeway-grpc/src):     *)
(* length-prefix frames, compressed frames, the grpc-message header, rich  *)
(* statuses and the gRPC-Web translation.                                  *)
(***************************************************************************)
EXTENDS Bytes, Folding

None == "none"

-----------------------------------------------------------------------------
(* framing.rs.  A length is four bytes, the highest one first.             *)
HeaderLen == 5
TrailersFlag == 128

to_be_bytes(n) ==
  <<(n \div 16777216) % 256, (n \div 65536) % 256, (n \div 256) % 256, n % 256>>
Frame(flag, payload) == <<flag>> \o to_be_bytes(Len(payload)) \o payload
FrameLen(data) == ((data[2] * 256 + data[3]) * 256 + data[4]) * 256 + data[5]
Payload(data) == Slice(data, HeaderLen, FrameLen(data))
Complete(data) == Len(data) >= HeaderLen /\ Len(data) >= HeaderLen + FrameLen(data)

(* A length that fits its four bytes: less than 4 GiB.                     *)
Short(bytes) == Len(bytes) \div 16777216 < 256

encode_grpc_frame(message) == Frame(0, message)

decode_grpc_frame(data) ==
  IF Len(data) < HeaderLen THEN Fails("TooShort")
  ELSE IF data[1] # 0 THEN Fails("CompressedNotSupported")
  ELSE IF ~Complete(data) THEN Fails("Incomplete")
  ELSE Okay(Payload(data), 0)

(* Where a scan of `data` is, and what it has found.                       *)
Scans == [offset : Nat, frames : Seq(Seq(Byte)), trailers : Seq(Seq(Byte))]

(* Mutant: what is left of an incomplete frame counts as one.              *)
ScanFrame_KeepTail(data, scan) ==
  LET left == From(data, scan.offset)
  IN IF scan.trailers # <<>> \/ Len(left) < HeaderLen THEN scan
     ELSE IF ~Complete(left)
     THEN [scan EXCEPT !.offset = Len(data), !.frames = Append(@, From(left, HeaderLen))]
     ELSE IF left[1] = TrailersFlag THEN [scan EXCEPT !.trailers = <<Payload(left)>>]
     ELSE [scan EXCEPT !.offset = @ + HeaderLen + FrameLen(left), !.frames = Append(@, Payload(left))]

(* One turn of the loop: a complete frame is taken, an incomplete one and  *)
(* trailers end it; the compression flag is not looked at.                 *)
ScanFrame(data, scan) ==
  LET left == From(data, scan.offset)
  IN IF scan.trailers # <<>> \/ ~Complete(left) THEN scan
     ELSE IF left[1] = TrailersFlag THEN [scan EXCEPT !.trailers = <<Payload(left)>>]
     ELSE [scan EXCEPT !.offset = @ + HeaderLen + FrameLen(left), !.frames = Append(@, Payload(left))]

(* A turn takes a byte at least, so that there are no more turns than      *)
(* bytes.                                                                  *)
ScanStep(data) == [scan \in Scans |-> [b \in Byte |-> ScanFrame(data, scan)]]
ScanStart == [offset |-> 0, frames |-> <<>>, trailers |-> <<>>]
decode_grpc_frames(data) ==
  LET end == Fold(ScanStep(data), ScanStart, data)
  IN [frames |-> end.frames, trailers |-> end.trailers]

-----------------------------------------------------------------------------
(* compression.rs                                                          *)
Algorithms == {"gzip", "deflate"}

incoming_compression(encoding) == IF encoding \in Algorithms THEN encoding ELSE None

(* The first listed algorithm the code knows.                              *)
negotiate_compression(accept) ==
  LET known == {i \in DOMAIN accept : accept[i] \in Algorithms}
  IN IF known = {} THEN None ELSE accept[CHOOSE i \in known : \A j \in known : i <= j]

(* External: flate2.  A compressed text starts with its algorithm's magic  *)
(* byte, and a text of the other algorithm does not decompress.            *)
Magic(algo) == IF algo = "gzip" THEN 31 ELSE 120
compress(data, algo) == <<Magic(algo)>> \o data
decompress(data, algo) ==
  IF data = <<>> \/ data[1] # Magic(algo) THEN Fails("Io") ELSE Okay(Tail(data), 0)

encode_compressed_frame(message, algo) == Frame(1, compress(message, algo))

(* Mutant: the flag is taken for the negotiated algorithm.                 *)
decode_frame_with_decompression_Always(data, algo) ==
  IF ~Complete(data) THEN Fails("FrameIncomplete")
  ELSE IF algo = None THEN Okay(Payload(data), 0) ELSE decompress(Payload(data), algo)

decode_frame_with_decompression(data, algo) ==
  IF Len(data) < HeaderLen THEN Fails("FrameTooShort")
  ELSE IF ~Complete(data) THEN Fails("FrameIncomplete")
  ELSE IF data[1] # 1 THEN Okay(Payload(data), 0)
  ELSE IF algo = None THEN Fails("CompressedButNoAlgorithm")
  ELSE decompress(Payload(data), algo)

-----------------------------------------------------------------------------
(* status.rs.  A text is its bytes: 37 is `%`.                             *)
Percent == 37
HexDigit(n) == IF n < 10 THEN 48 + n ELSE 55 + n
to_digit(b) ==
  CASE b \in 48..57 -> b - 48
    [] b \in 65..70 -> b - 55
    [] b \in 97..102 -> b - 87
    [] OTHER -> 16

Hex(b) == <<Percent, HexDigit(b \div 16), HexDigit(b % 16)>>

(* Mutant: a percent sign is left as it is.                                *)
Escaped_Raw(b) == IF b \in 32..126 THEN <<b>> ELSE Hex(b)

Escaped(b) == IF b \in 32..126 /\ b # Percent THEN <<b>> ELSE Hex(b)

EscapeStep == [out \in Seq(Byte) |-> [b \in Byte |-> out \o Escaped(b)]]
encode_grpc_message(m) == Fold(EscapeStep, <<>>, m)

(* One turn of the loop, at the byte after `at`.                           *)
Unescapes == [at : Nat, out : Seq(Byte)]
UnescapeNext(m, done) ==
  LET i == done.at + 1
  IN IF done.at >= Len(m) THEN done
     ELSE IF m[i] = Percent /\ i + 1 < Len(m) /\ to_digit(m[i + 1]) < 16 /\ to_digit(m[i + 2]) < 16
     THEN [at |-> done.at + 3, out |-> Append(done.out, to_digit(m[i + 1]) * 16 + to_digit(m[i + 2]))]
     ELSE [at |-> i, out |-> Append(done.out, m[i])]
UnescapeStep(m) == [done \in Unescapes |-> [b \in Byte |-> UnescapeNext(m, done)]]
Unescape(m) == Fold(UnescapeStep(m), [at |-> 0, out |-> <<>>], m).out

decode_grpc_message(m) == IF ValidUtf8(Unescape(m)) THEN Unescape(m) ELSE m

from_i32(code) == IF code \in 0..16 THEN code ELSE 2

(* External: http::HeaderValue, which takes no control characters and      *)
(* whose to_str takes visible ASCII only.                                  *)
HeaderAccepts(m) == \A i \in DOMAIN m : m[i] >= 32 /\ m[i] # 127
HeaderText(m) == IF \A i \in DOMAIN m : m[i] \in 32..126 THEN m ELSE <<>>

(* The message of an error three ways: in the trailers (trailer_body.rs),  *)
(* in the headers of GrpcStatus::to_headers, and in the headers the        *)
(* dispatch writes (grpc_error_response), which are not escaped.           *)
EscapedHeader(m) == encode_grpc_message(m)
RawHeader(m) == IF HeaderAccepts(m) THEN m ELSE <<>>

(* client.rs: a missing or unreadable header is the empty message.         *)
ClientMessage(header) == decode_grpc_message(HeaderText(header))

-----------------------------------------------------------------------------
(* error_details.rs.  A rich status travels as headers and, with details,  *)
(* as a JSON body; the client tries the body framed and as it is.          *)
with_detail(status, detail) == [status EXCEPT !.details = Append(@, detail)]

to_grpc_response_parts(status) ==
  [code |-> status.code, message |-> RawHeader(status.message),
   body |-> IF status.details = <<>> THEN [shape |-> "empty", rich |-> <<>>]
            ELSE [shape |-> "json", rich |-> <<status>>]]

AsFrame(parts) ==
  [parts EXCEPT !.body.shape = IF @ = "json" THEN "framed" ELSE @]

parse_rich_status(body) == body.rich

ClientStatus(parts) ==
  [code |-> from_i32(parts.code), message |-> ClientMessage(parts.message),
   details |-> IF parts.body.shape = "empty" \/ parse_rich_status(parts.body) = <<>> THEN <<>>
               ELSE parse_rich_status(parts.body)[1].details]

-----------------------------------------------------------------------------
(* web.rs.  An answer of the inner service has a status in its headers or  *)
(* none, the frames of its body, a status in its trailers, and a body that *)
(* may break.                                                              *)
WebTypes == {"application/grpc-web", "application/grpc-web+json", "application/grpc-web-text"}
is_grpc_web_request(ct) == ct \in WebTypes
is_json(ct) == ct = "application/grpc-web+json"
RewrittenType(ct) == IF is_json(ct) THEN "application/grpc+json" ELSE "application/grpc"

(* The text of the trailers, one byte for the status.                      *)
encode_trailers_frame(status) == Frame(TrailersFlag, <<status>>)

(* Mutant: the trailers go in front of the data.                           *)
GrpcWebCall_TrailersFirst(ct, answer) ==
  [ct |-> ct, header |-> <<>>,
   body |-> encode_trailers_frame(IF answer.header = <<>> THEN 0 ELSE answer.header[1]) \o answer.body]

(* GrpcWebService::call: the header status moves into a trailers frame, a  *)
(* missing one counts as 0, and HTTP trailers are lost with the collected  *)
(* body, as is a body that breaks.                                         *)
GrpcWebCall(ct, answer) ==
  IF ~is_grpc_web_request(ct)
  THEN [ct |-> answer.ct, header |-> answer.header, body |-> answer.body]
  ELSE [ct |-> IF is_json(ct) THEN "application/grpc-web+json" ELSE "application/grpc-web",
        header |-> <<>>,
        body |-> (IF answer.breaks THEN <<>> ELSE answer.body)
                 \o encode_trailers_frame(IF answer.header = <<>> THEN 0 ELSE answer.header[1])]
=============================================================================
