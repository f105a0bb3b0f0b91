------------------------------ MODULE Transport ------------------------------
(***************************************************************************)
(* A writer puts something on the wire, the connection may break in the    *)
(* middle of it, a reader takes it off: what GrpcWire puts around a        *)
(* message, whatever the message is.                                       *)
(*                                                                         *)
(* What is exchanged is an item, chosen once, of one of these parts:       *)
(*   frames   messages and perhaps trailers, as frames of a body;          *)
(*   packed   a frame compressed by one side, read with what was agreed;   *)
(*   status   an error status, its message in one of three forms;          *)
(*   web      an answer of the dispatch through the gRPC-Web layer.        *)
(* WireExchange adds the parts in which the message itself is translated.  *)
(***************************************************************************)
EXTENDS GrpcWire, SequencesExt

(* A sequence of sets of items, each of one kind of value.                 *)
CONSTANT Families

Messages == {m \in Seq(Byte) : Short(m)}
FramesOf(messages) ==
  Fold([out \in Seq(Byte) |-> [m \in Seq(Byte) |-> out \o encode_grpc_frame(m)]], <<>>, messages)

FrameItems == {i \in [part : {"frames"}, messages : Seq(Messages), status : Seq(Byte)] : Len(i.status) <= 1}
PackedItems ==
  {i \in [part : {"packed"}, message : Messages, accept : Seq(STRING), encoding : STRING] :
     \A algo \in Algorithms : Short(compress(i.message, algo))}
StatusItems ==
  [part : {"status"}, form : {"escaped", "dispatch", "rich", "framed"},
   status : [code : 0..16, message : {m \in Seq(Byte) : ValidUtf8(m)}, details : Seq(STRING)]]
WebItems ==
  {i \in [part : {"web"}, ct : STRING,
          answer : [ct : STRING, header : Seq(Byte), status : Byte, frames : Seq(Messages),
                    breaks : BOOLEAN, body : Seq(Byte)]] :
     i.answer.header \in {<<>>, <<i.answer.status>>} /\ i.answer.body = FramesOf(i.answer.frames)}

(* Messages are bytes and shorter than 4 GiB, compressed or not; texts are *)
(* strings of Rust; the answer of a dispatch is made of frames, and a      *)
(* status in its headers is the status it has.                             *)
ASSUME TransportAssumption ==
  \A n \in DOMAIN Families : \A i \in Families[n] :
    /\ i.part = "frames" => i \in FrameItems
    /\ i.part = "packed" => i \in PackedItems
    /\ i.part = "status" => i \in StatusItems
    /\ i.part = "web" => i \in WebItems

VARIABLES
  item,   (* what is exchanged                                             *)
  wire,   (* what the reader can have of it                                *)
  got     (* what the reader made of that                                  *)

wireVars == <<item, wire, got>>

Unread == [ok |-> FALSE, value |-> <<>>, used |-> 0, error |-> "unread"]
IsUnread == got.error = "unread"
Unwritten == [state |-> "unwritten", bytes |-> <<>>]
Written(bytes) == [state |-> "written", bytes |-> bytes]

WireInit == (\E i \in DOMAIN Families : item \in Families[i]) /\ wire = Unwritten /\ got = Unread

Put(part, r) ==
  /\ item.part = part /\ wire.state = "unwritten"
  /\ wire' = Written(r)
  /\ UNCHANGED <<item, got>>

Get(part, r) ==
  /\ item.part = part /\ wire.state \in {"written", "cut"} /\ IsUnread
  /\ got' = r
  /\ UNCHANGED <<item, wire>>

-----------------------------------------------------------------------------
(* Writing                                                                 *)

BodyOf(messages, status) ==
  FramesOf(messages) \o (IF status = <<>> THEN <<>> ELSE encode_trailers_frame(status[1]))
WriteFrames == item.part = "frames" /\ Put("frames", BodyOf(item.messages, item.status))

PackedFrame(message, accept) ==
  LET algo == negotiate_compression(accept)
  IN IF algo = None THEN encode_grpc_frame(message) ELSE encode_compressed_frame(message, algo)
WritePacked == item.part = "packed" /\ Put("packed", PackedFrame(item.message, item.accept))

StatusParts(status, form) ==
  LET parts == to_grpc_response_parts(status)
      bare == [parts EXCEPT !.body = [shape |-> "empty", rich |-> <<>>]]
  IN CASE form = "rich" -> parts
       [] form = "framed" -> AsFrame(parts)
       [] form = "dispatch" -> bare
       [] OTHER -> [bare EXCEPT !.message = EscapedHeader(status.message)]
WriteStatus == item.part = "status" /\ Put("status", StatusParts(item.status, item.form))

WriteWeb == item.part = "web" /\ Put("web", GrpcWebCall(item.ct, item.answer).body)

(* The connection breaks: the reader has a prefix of what was written.     *)
Cut ==
  /\ item.part \in {"message", "frames"} /\ wire.state = "written" /\ IsUnread
  /\ \E n \in 0..(Len(wire.bytes) - 1) :
       wire' = [state |-> "cut", bytes |-> SubSeq(wire.bytes, 1, n)]
  /\ UNCHANGED <<item, got>>

-----------------------------------------------------------------------------
(* Reading                                                                 *)

ReadFrames == item.part \in {"frames", "web"}
              /\ Get(item.part, Okay(decode_grpc_frames(wire.bytes), 0))
ReadPacking == item.part = "packed"
               /\ Get("packed", decode_frame_with_decompression(wire.bytes, incoming_compression(item.encoding)))
ReadStatus == item.part = "status" /\ Get("status", Okay(ClientStatus(wire.bytes), 0))

Done == ~IsUnread /\ UNCHANGED wireVars

TransportNext ==
  \/ WriteFrames \/ WritePacked \/ WriteStatus \/ WriteWeb \/ Cut
  \/ ReadFrames \/ ReadPacking \/ ReadStatus \/ Done

(* Items of the other parts are exchanged in steps of their own.           *)
TransportParts == {"frames", "packed", "status", "web"}
OtherPart == item.part \notin TransportParts /\ UNCHANGED item
TransportSpec == WireInit /\ [][TransportNext \/ OtherPart]_wireVars

-----------------------------------------------------------------------------
(* Properties                                                              *)

Read(part) == item.part = part /\ ~IsUnread
Whole == wire.state = "written"

(* A body of frames gives back its messages and its trailers, and a body   *)
(* cut off gives the first of its messages: decode_grpc_frames stops at    *)
(* the first frame that is not complete.                                   *)
FramesAreAPrefix ==
  Read("frames") =>
  /\ IsPrefix(got.value.frames, item.messages)
  /\ Whole => got.value = [frames |-> item.messages,
                           trailers |-> [i \in DOMAIN item.status |-> <<item.status[i]>>]]
  /\ got.value.trailers # <<>> => got.value.frames = item.messages

(* A frame is read as the message or refused, by the flag of the frame and *)
(* not by the header alone; with the algorithm in the header it is read.   *)
PackedReadOrRefused ==
  Read("packed") =>
  /\ got.ok => got.value = item.message
  /\ negotiate_compression(item.accept) \in {None, item.encoding} => got.ok

(* The client has the code, the message and the details of the status. The *)
(* message the dispatch puts in a header unescaped is changed by the       *)
(* client's unescaping or lost when it is not visible ASCII.               *)
Plain(m) == \A i \in DOMAIN m : m[i] \in 32..126 /\ m[i] # Percent
ErrorTextSurvives ==
  Read("status") =>
  /\ got.value.code = item.status.code
  /\ item.form = "escaped" \/ Plain(item.status.message) => got.value.message = item.status.message
  /\ item.form \in {"rich", "framed"} => got.value.details = item.status.details

(* A browser reads the data frames and then the status the dispatch put in *)
(* the headers.  (A status that is only in the HTTP trailers, as that of a *)
(* stream, is read as 0.)                                                  *)
WebStatusFaithful ==
  Read("web") /\ is_grpc_web_request(item.ct) =>
  /\ got.value.frames = IF item.answer.breaks THEN <<>> ELSE item.answer.frames
  /\ got.value.trailers = <<<<IF item.answer.header = <<>> THEN 0 ELSE item.answer.status>>>>

(* What a message travels in changes neither the message nor the status,   *)
(* whether it is cut, compressed, escaped or translated (framing.rs,       *)
(* compression.rs, status.rs, error_details.rs, web.rs).                   *)
TransportFaithful ==
  FramesAreAPrefix /\ PackedReadOrRefused /\ ErrorTextSurvives /\ WebStatusFaithful
=============================================================================
