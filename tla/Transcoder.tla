----------------------------- MODULE Transcoder -----------------------------
(***************************************************************************)
(* typeway-grpc/src/transcode.rs and the BinaryCodec of codec.rs: the JSON *)
(* of a service's handlers to the protobuf bytes of its methods and back.  *)
(* A service is                                                            *)
(* [methods |-> path -> [request, response], messages |-> name -> fields]. *)
(***************************************************************************)
EXTENDS ProtoCodec

EmptyType == "google.protobuf.Empty"
is_scalar(pt) == wire_type_for(pt) # 2 \/ pt \in {"string", "bytes", EmptyType}

(* Nested messages by name, to the depth of the type (a message that       *)
(* contains itself has no end, here as in the code).                       *)
RECURSIVE field_specs_to_defs(_, _)
field_specs_to_defs(fields, messages) ==
  [i \in DOMAIN fields |->
     [fields[i] EXCEPT !.nested =
        IF ~is_scalar(fields[i].proto_type) /\ ~fields[i].is_map /\ fields[i].proto_type \in DOMAIN messages
        THEN <<field_specs_to_defs(messages[fields[i].proto_type], messages)>> ELSE <<>>]]

message_fields(svc, name) ==
  IF name = EmptyType THEN Okay(<<>>, 0)
  ELSE IF name \notin DOMAIN svc.messages THEN Fails("MessageNotFound")
  ELSE Okay(field_specs_to_defs(svc.messages[name], svc.messages), 0)

encode_message(svc, name, json) ==
  LET fields == message_fields(svc, name)
  IN IF name = EmptyType THEN Okay(<<>>, 0)
     ELSE IF ~fields.ok THEN fields ELSE json_to_proto_binary(json, fields.value)

decode_message(svc, name, bytes) ==
  LET fields == message_fields(svc, name)
  IN IF ~fields.ok THEN fields ELSE proto_binary_to_json(bytes, fields.value)

(* The codec of one method and direction; a request is `{}` whenever its   *)
(* bytes are empty.                                                        *)
CodecEncode(svc, path, direction, json) ==
  IF path \notin DOMAIN svc.methods THEN Fails("MethodNotFound")
  ELSE encode_message(svc, svc.methods[path][direction], json)

CodecDecode(svc, path, direction, bytes) ==
  IF path \notin DOMAIN svc.methods THEN Fails("MethodNotFound")
  ELSE IF direction = "request" /\ (svc.methods[path].request = EmptyType \/ bytes = <<>>)
  THEN Okay(Obj(Empty), 0)
  ELSE decode_message(svc, svc.methods[path][direction], bytes)
=============================================================================
