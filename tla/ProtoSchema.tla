---------------------------- MODULE ProtoSchema ----------------------------
(***************************************************************************)
(* From an API to a .proto file and back: typeway-grpc's mapping.rs,       *)
(* proto_gen.rs, spec.rs and service.rs with the ToProtoType derive of     *)
(* typeway-macros write it, proto_parse.rs reads it line by line,          *)
(* validate.rs and diff.rs judge what was read, codegen.rs makes Rust of   *)
(* it.                                                                     *)
(*                                                                         *)
(* A file is the sequence of its trimmed lines, and a line is the record   *)
(* of what the parser can tell about it: its first word `l` and the words  *)
(* that follow.  A Rust type is a record of its shape.                     *)
(***************************************************************************)
EXTENDS ProtoCodec

EmptyName == "google.protobuf.Empty"

(* Rust types.                                                             *)
Scalar(name) == [shape |-> "scalar", name |-> name]   (* u32, String, Vec<u8>, () *)
Struct(name, fields) == [shape |-> "struct", name |-> name, fields |-> fields]
SimpleEnum(name, variants) == [shape |-> "enum", name |-> name, variants |-> variants]
OneofEnum(name, fields) == [shape |-> "oneof", name |-> name, fields |-> fields]
VecOf(t) == [shape |-> "vec", of |-> t]
OptionOf(t) == [shape |-> "option", of |-> t]         (* Box and Arc are alike    *)
MapOf(k, v) == [shape |-> "map", key |-> k, value |-> v]

RECURSIVE proto_type_name(_)
proto_type_name(t) ==
  CASE t.shape \in {"vec", "option"} -> proto_type_name(t.of)
    [] t.shape = "map" -> "map"
    [] OTHER -> t.name
RECURSIVE is_message(_)
is_message(t) ==
  IF t.shape \in {"vec", "option"} THEN is_message(t.of) ELSE t.shape \in {"struct", "enum", "oneof"}
is_repeated(t) == t.shape = "vec"

(* Fields of messages: ProtoField, ParsedField and FieldSpec.              *)
Field(name, type, tag, repeated, optional, map) ==
  [name |-> name, proto_type |-> type, tag |-> tag, repeated |-> repeated,
   optional |-> optional, map |-> map]
Plain1(name, type, tag) == Field(name, type, tag, FALSE, FALSE, <<>>)

(* Lines.                                                                  *)
Header(l, name) == [l |-> l, name |-> name]
Close == [l |-> "close"]
Blank == [l |-> "blank"]
Other == [l |-> "other"]                              (* option, reserved         *)
Comment(method, path) == [l |-> "comment", method |-> method, path |-> path]
VariantLine(name, tag) == [l |-> "variant", name |-> name, tag |-> tag]
RpcLine(name, input, output) == [l |-> "rpc", name |-> name, input |-> input, output |-> output]
Side(stream, type) == [stream |-> stream, type |-> type]

(* ProtoField::to_proto_line: `map<K, V>`, `repeated`, `optional` or bare. *)
to_proto_line(f) ==
  [l |-> "field", field |-> IF f.map # <<>> THEN [f EXCEPT !.repeated = FALSE, !.optional = FALSE]
                            ELSE IF f.repeated THEN [f EXCEPT !.optional = FALSE] ELSE f]

(* Mutant: the closing line is forgotten.                                  *)
build_message_Open(name, fields) ==
  <<Header("message", name)>> \o [i \in DOMAIN fields |-> to_proto_line(fields[i])]

build_message(name, fields) ==
  <<Header("message", name)>> \o [i \in DOMAIN fields |-> to_proto_line(fields[i])] \o <<Close>>

TagOr(f, default) == IF f.tag = <<>> THEN default ELSE f.tag[1]

(* derive(ToProtoType) on a struct: the fields, whose tag is the attribute *)
(* or the position.                                                        *)
DerivedField(f, i) ==
  LET t == f.ty
      inner == IF t.shape \in {"vec", "option"} THEN t.of ELSE t
  IN IF t.shape = "map"
     THEN Field(f.name, "map", TagOr(f, i), FALSE, FALSE,
                <<proto_type_name(t.key), proto_type_name(t.value)>>)
     ELSE Field(f.name, proto_type_name(inner), TagOr(f, i), t.shape = "vec", t.shape = "option", <<>>)
proto_fields(t) ==
  IF t.shape = "struct" THEN [i \in DOMAIN t.fields |-> DerivedField(t.fields[i], i)] ELSE <<>>

(* message_definition of a message type.                                   *)
RECURSIVE message_definition(_)
message_definition(t) ==
  CASE t.shape = "struct" -> build_message(t.name, proto_fields(t))
    [] t.shape = "enum" ->
         <<Header("enum", t.name)>>
         \o [i \in DOMAIN t.variants |-> VariantLine(t.variants[i].name, TagOr(t.variants[i], i - 1))]
         \o <<Close>>
    [] t.shape = "oneof" ->
         <<Header("message", t.name), Header("oneof", t.name)>>
         \o [i \in DOMAIN t.fields |->
               to_proto_line(Plain1(t.fields[i].name, proto_type_name(t.fields[i].ty), TagOr(t.fields[i], i)))]
         \o <<Close, Close>>
    [] OTHER -> message_definition(t.of)

-----------------------------------------------------------------------------
(* proto_gen.rs                                                            *)

(* An endpoint is [method, path, req, res, wrap]: a path is a sequence of  *)
(* literal words and captures, `req` holds the body type or nothing.  A    *)
(* literal is the singular Pascal-case word it becomes and whether an s    *)
(* follows it.                                                             *)
Word(stem, plural) == [kind |-> "lit", stem |-> stem, plural |-> plural]
Capture1 == [kind |-> "cap", stem |-> "", plural |-> FALSE]
IsLit(s) == s.kind = "lit"

Prefix(method, path) ==
  CASE method = "GET" -> IF path # <<>> /\ ~IsLit(Last(path)) THEN "Get" ELSE "List"
    [] method = "POST" -> "Create"
    [] method \in {"PUT", "PATCH"} -> "Update"
    [] method = "DELETE" -> "Delete"
    [] method = "HEAD" -> "Head"
    [] OTHER -> "Options"
path_to_rpc_name(method, path) ==
  LET words == SelectSeq(path, IsLit)
  IN Prefix(method, path) \o (IF words = <<>> THEN "Resource" ELSE Last(words).stem)

captures_from_pattern(path) ==
  LET caps == SelectSeq(path, LAMBDA s : ~IsLit(s))
  IN [i \in DOMAIN caps |-> Plain1("param" \o ToString(i), "string", i)]

(* Mutant: body fields keep the tags of their struct.                      *)
RequestFields_SameTags(e) ==
  LET caps == captures_from_pattern(e.path)
  IN IF e.req = <<>> THEN caps ELSE caps \o proto_fields(e.req[1])

(* The request message's fields: the captures, then the fields of the body *)
(* re-tagged behind them, or one field `body` when it has none.            *)
RequestFields(e) ==
  LET caps == captures_from_pattern(e.path)
      body == IF e.req = <<>> THEN Scalar(EmptyName) ELSE e.req[1]
      inner == proto_fields(body)
  IN IF proto_type_name(body) = EmptyName THEN caps
     ELSE IF is_message(body) /\ inner # <<>>
     THEN caps \o [i \in DOMAIN inner |-> [inner[i] EXCEPT !.tag = @ + Len(caps)]]
     ELSE caps \o <<Field("body", proto_type_name(body), Len(caps) + 1, is_repeated(body), FALSE, <<>>)>>

build_response_message(t, rpc_name) ==
  LET name == proto_type_name(t)
      wrapped == rpc_name \o "Response"
  IN IF is_message(t) THEN [name |-> name, definition |-> message_definition(t)]
     ELSE IF name = EmptyName THEN [name |-> name, definition |-> <<>>]
     ELSE [name |-> wrapped,
           definition |-> build_message(wrapped, <<Field("value", name, 1, is_repeated(t), FALSE, <<>>)>>)]

(* EndpointToRpc::to_rpc, for an endpoint and its streaming wrapper.       *)
to_rpc(e) ==
  LET name == path_to_rpc_name(e.method, e.path)
      fields == RequestFields(e)
      none == e.req = <<>> /\ fields = <<>>
      req == name \o "Request"
  IN [name |-> name, http_method |-> e.method, path_pattern |-> e.path,
      request |-> IF none THEN <<>> ELSE <<[name |-> req, definition |-> build_message(req, fields)]>>,
      response |-> build_response_message(e.res, name),
      server_streaming |-> e.wrap \in {"server", "bidi"},
      client_streaming |-> e.wrap \in {"client", "bidi"}]
collect_rpcs(api) == [i \in DOMAIN api |-> to_rpc(api[i])]

RequestType(rpc) == IF rpc.request = <<>> THEN EmptyName ELSE rpc.request[1].name

(* generate_proto_file: every definition once, in the order they are met.  *)
Distinct(s) == SelectSeq([i \in DOMAIN s |-> <<i, s[i]>>], LAMBDA p : \A j \in 1..(p[1] - 1) : s[j] # p[2])
generate_proto_file(service, package, rpcs) ==
  LET Rpc(r) == <<Comment(r.http_method, r.path_pattern),
                  RpcLine(r.name, Side(r.client_streaming, RequestType(r)),
                          Side(r.server_streaming, r.response.name))>>
      defs == FlattenSeq([i \in DOMAIN rpcs |->
                [j \in DOMAIN rpcs[i].request |-> rpcs[i].request[j].definition]
                \o <<rpcs[i].response.definition>>])
      once == Distinct(defs)
  IN <<[l |-> "syntax", value |-> "proto3"], Blank, Header("package", package), Blank,
       Header("service", service)>>
     \o FlattenSeq([i \in DOMAIN rpcs |-> Rpc(rpcs[i])]) \o <<Close, Blank>>
     \o FlattenSeq([i \in DOMAIN once |-> once[i][2] \o <<Blank>>])

-----------------------------------------------------------------------------
(* spec.rs and service.rs: what the server keeps of the same API.          *)

(* Mutant: a line that begins with `repeated` is not understood.           *)
parse_message_spec_Singular(definition) ==
  LET fields == SelectSeq(definition, LAMBDA x : x.l = "field" /\ ~x.field.repeated)
  IN [i \in DOMAIN fields |-> fields[i].field]

(* parse_message_spec: every field line of the definition.                 *)
parse_message_spec(definition) ==
  LET fields == SelectSeq(definition, LAMBDA x : x.l = "field")
  IN [i \in DOMAIN fields |-> fields[i].field]

(* grpc_spec: a later method of the same name replaces an earlier one, a   *)
(* message is described once, where it is met first.                       *)
grpc_spec(rpcs) ==
  LET names == {rpcs[i].name : i \in DOMAIN rpcs}
      defs == FlattenSeq([i \in DOMAIN rpcs |-> rpcs[i].request \o <<rpcs[i].response>>])
      known == SelectSeq(defs, LAMBDA d : d.name # EmptyName)
  IN [methods |-> [n \in names |->
        LET r == rpcs[Max({i \in DOMAIN rpcs : rpcs[i].name = n})]
        IN [rest_path |-> r.path_pattern, http_method |-> r.http_method,
            request |-> RequestType(r), response |-> r.response.name,
            server_streaming |-> r.server_streaming, client_streaming |-> r.client_streaming]],
      messages |-> [n \in {known[i].name : i \in DOMAIN known} |->
        parse_message_spec(known[Min({i \in DOMAIN known : known[i].name = n})].definition)]]

(* service_descriptor and find_method: the first method of the name.       *)
find_method(rpcs, name) == rpcs[Min({i \in DOMAIN rpcs : rpcs[i].name = name})]

(* field_specs_to_defs, for messages whose fields are scalars.             *)
ToDefs(fields) ==
  [i \in DOMAIN fields |->
     [name |-> fields[i].name, proto_type |-> fields[i].proto_type, tag |-> fields[i].tag,
      repeated |-> fields[i].repeated, is_map |-> FALSE, nested |-> <<>>]]

-----------------------------------------------------------------------------
(* proto_parse.rs                                                          *)

Block(items, next) == [ok |-> TRUE, items |-> items, next |-> next]
Unclosed == [ok |-> FALSE, items |-> <<>>, next |-> 0]

(* The line that ends an enum or service block: the first `}`.             *)
CloseAfter(lines, start) ==
  LET ends == {i \in (start + 1)..Len(lines) : lines[i].l = "close"}
  IN IF ends = {} THEN 0 ELSE Min(ends)

parse_enum_block(lines, start) ==
  LET end == CloseAfter(lines, start)
      body == SelectSeq(SubSeq(lines, start + 1, end - 1), LAMBDA x : x.l = "variant")
  IN IF end = 0 THEN Unclosed
     ELSE Block(<<[name |-> lines[start].name,
                   variants |-> [i \in DOMAIN body |-> [name |-> body[i].name, tag |-> body[i].tag]]]>>, end + 1)

(* Mutant: the comment of the first rpc is never taken.                    *)
parse_service_Sticky(lines, start) ==
  LET end == CloseAfter(lines, start)
      Of(l) == SetToSortSeq({i \in (start + 1)..(end - 1) : lines[i].l = l}, <)
      rpcs == Of("rpc")
      c == lines[Of("comment")[1]]
  IN IF end = 0 THEN Unclosed
     ELSE Block(<<[name |-> lines[start].name,
                   methods |-> [k \in DOMAIN rpcs |->
                     [name |-> lines[rpcs[k]].name, input |-> lines[rpcs[k]].input,
                      output |-> lines[rpcs[k]].output,
                      comment |-> <<[method |-> c.method, path |-> c.path]>>]]]>>, end + 1)

(* An rpc has the comment of the last line before it that is not blank.    *)
parse_service(lines, start) ==
  LET end == CloseAfter(lines, start)
      rpcs == {i \in (start + 1)..(end - 1) : lines[i].l = "rpc"}
      Pending(i) == LET before == {j \in (start + 1)..(i - 1) : lines[j].l # "blank"}
                    IN IF before = {} \/ lines[Max(before)].l # "comment" THEN <<>>
                       ELSE <<[method |-> lines[Max(before)].method, path |-> lines[Max(before)].path]>>
      Method(i) == [name |-> lines[i].name, input |-> lines[i].input, output |-> lines[i].output,
                    comment |-> Pending(i)]
      ordered == SetToSortSeq(rpcs, <)
  IN IF end = 0 THEN Unclosed
     ELSE Block(<<[name |-> lines[start].name, methods |-> [k \in DOMAIN ordered |-> Method(ordered[k])]]>>, end + 1)

(* Mutant: the fields of a nested message are added to the outer one.      *)
RECURSIVE MessageBlock_Flat(_, _, _, _, _)
MessageBlock_Flat(lines, i, name, fields, nested) ==
  IF i > Len(lines) THEN Unclosed
  ELSE CASE lines[i].l = "close" -> Block(<<[name |-> name, fields |-> fields]>> \o nested, i + 1)
         [] lines[i].l = "field" ->
              MessageBlock_Flat(lines, i + 1, name, Append(fields, lines[i].field), nested)
         [] OTHER -> MessageBlock_Flat(lines, i + 1, name, fields, nested)

(* parse_message_block from the line after the header: a nested message is *)
(* parsed where it stands, any other line that is not a field is skipped,  *)
(* and the first `}` ends the message, that of an enum or a oneof inside   *)
(* it too.                                                                 *)
RECURSIVE MessageBlock(_, _, _, _, _)
MessageBlock(lines, i, name, fields, nested) ==
  IF i > Len(lines) THEN Unclosed
  ELSE LET x == lines[i]
       IN CASE x.l = "close" -> Block(<<[name |-> name, fields |-> fields]>> \o nested, i + 1)
            [] x.l = "message" ->
                 LET inner == MessageBlock(lines, i + 1, name \o "." \o x.name, <<>>, <<>>)
                 IN IF inner.ok THEN MessageBlock(lines, inner.next, name, fields, nested \o inner.items)
                    ELSE inner
            [] x.l = "field" -> MessageBlock(lines, i + 1, name, Append(fields, x.field), nested)
            [] OTHER -> MessageBlock(lines, i + 1, name, fields, nested)

NoFile == [syntax |-> "", package |-> "", imports |-> <<>>, services |-> <<>>, messages |-> <<>>,
           enums |-> <<>>]

(* parse_proto: blocks by their first word, unknown lines skipped.         *)
RECURSIVE ParseFrom(_, _, _)
ParseFrom(lines, i, file) ==
  IF i > Len(lines) THEN Okay(file, 0)
  ELSE LET x == lines[i]
           With(b, new) == IF b.ok THEN ParseFrom(lines, b.next, new) ELSE Fails("unclosed")
       IN CASE x.l = "syntax" -> ParseFrom(lines, i + 1, [file EXCEPT !.syntax = x.value])
            [] x.l = "package" -> ParseFrom(lines, i + 1, [file EXCEPT !.package = x.name])
            [] x.l = "import" -> ParseFrom(lines, i + 1, [file EXCEPT !.imports = Append(@, x.name)])
            [] x.l = "service" -> LET b == parse_service(lines, i)
                                  IN With(b, [file EXCEPT !.services = @ \o b.items])
            [] x.l = "message" -> LET b == MessageBlock(lines, i + 1, x.name, <<>>, <<>>)
                                  IN With(b, [file EXCEPT !.messages = @ \o b.items])
            [] x.l = "enum" -> LET b == parse_enum_block(lines, i)
                               IN With(b, [file EXCEPT !.enums = @ \o b.items])
            [] OTHER -> ParseFrom(lines, i + 1, file)
parse_proto(lines) == ParseFrom(lines, 1, NoFile)

Walked(ok, seen, messages) == [ok |-> ok, seen |-> seen, messages |-> messages]

(* Mutant: only the files on the way to this one are remembered.           *)
RECURSIVE Resolve_PerBranch(_, _, _, _)
Resolve_PerBranch(disk, imports, seen, messages) ==
  IF imports = <<>> THEN Walked(TRUE, seen, messages)
  ELSE LET p == Head(imports)
       IN IF p \in seen \/ p \notin DOMAIN disk THEN Resolve_PerBranch(disk, Tail(imports), seen, messages)
          ELSE LET f == parse_proto(disk[p])
                   inner == IF f.ok THEN Resolve_PerBranch(disk, f.value.imports, seen \union {p}, f.value.messages)
                            ELSE Walked(FALSE, seen, <<>>)
               IN IF inner.ok THEN Resolve_PerBranch(disk, Tail(imports), seen, messages \o inner.messages)
                  ELSE inner

(* parse_proto_recursive: the imports of a file, in order.  `seen` is      *)
(* shared by the whole walk, a file that is not found is passed over, and  *)
(* one that does not parse fails the walk.  (The well-known types are      *)
(* files that are not found.)                                              *)
RECURSIVE Resolve(_, _, _, _)
Resolve(disk, imports, seen, messages) ==
  IF imports = <<>> THEN Walked(TRUE, seen, messages)
  ELSE LET p == Head(imports)
       IN IF p \in seen \/ p \notin DOMAIN disk
          THEN Resolve(disk, Tail(imports), seen \union {p}, messages)
          ELSE LET f == parse_proto(disk[p])
                   inner == IF f.ok THEN Resolve(disk, f.value.imports, seen \union {p}, f.value.messages)
                            ELSE Walked(FALSE, seen, <<>>)
               IN IF inner.ok THEN Resolve(disk, Tail(imports), inner.seen, messages \o inner.messages)
                  ELSE inner
parse_proto_with_imports(disk, root) ==
  LET f == parse_proto(disk[root])
  IN IF f.ok THEN Resolve(disk, f.value.imports, {}, f.value.messages) ELSE Walked(FALSE, {}, <<>>)

-----------------------------------------------------------------------------
(* validate.rs                                                             *)

MaxTag == 536870911
ReservedTags == 19000..19999
ReservedWords == {"syntax", "import", "package", "option", "message", "enum", "service", "rpc",
                  "returns", "stream", "repeated", "optional", "map", "oneof", "reserved",
                  "extensions", "extend"}
ValidScalars == {"double", "float", "int32", "int64", "uint32", "uint64", "sint32", "sint64",
                 "fixed32", "fixed64", "sfixed32", "sfixed64", "bool", "string", "bytes"}
(* The other type names that begin with a small letter.                    *)
SmallNames == {"map", "google.protobuf.Any"}

Defect(message, field, error) == [message |-> message, field |-> field, error |-> error]

validate_message(m) ==
  LET If(i, cond, error) == IF cond THEN {Defect(m.name, m.fields[i].name, error)} ELSE {}
  IN UNION {LET f == m.fields[i]
            IN If(i, \E j \in 1..(i - 1) : m.fields[j].tag = f.tag, "duplicate tag")
               \union If(i, f.tag = 0 \/ f.tag > MaxTag \/ f.tag \in ReservedTags, "tag range")
               \union If(i, f.name \in ReservedWords, "reserved word")
               \union If(i, f.map = <<>> /\ f.proto_type \in SmallNames, "type") : i \in DOMAIN m.fields}

(* validate_proto_file: enums do not count as messages.                    *)
validate_proto_file(file) ==
  LET names == {file.messages[i].name : i \in DOMAIN file.messages} \union {EmptyName}
      Rpcs(s) == UNION {LET m == s.methods[i]
                        IN {Defect(s.name, m.name, "not defined") :
                              t \in {m.input.type, m.output.type} \ names} : i \in DOMAIN s.methods}
  IN (IF file.syntax = "proto3" THEN {} ELSE {Defect("", "", "syntax")})
     \union UNION {validate_message(file.messages[i]) : i \in DOMAIN file.messages}
     \union UNION {Rpcs(file.services[i]) : i \in DOMAIN file.services}

-----------------------------------------------------------------------------
(* diff.rs: the changes that are Breaking, by where they are.              *)

Named(s, name) == {i \in DOMAIN s : s[i].name = name}
FirstOf(s, set) == s[Min(set)]

(* Mutant: fields are told apart by their names.                           *)
FieldBreaks_ByName(old, new) ==
  {f \in Range(old.fields) : \A j \in DOMAIN new.fields : new.fields[j].name # f.name}

(* A field is the one with its tag; a removed one or another type breaks,  *)
(* another name does not, and repeated or optional is not looked at.       *)
FieldBreaks(old, new) ==
  {f \in Range(old.fields) :
     LET same == {j \in DOMAIN new.fields : new.fields[j].tag = f.tag}
     IN same = {} \/ LET n == FirstOf(new.fields, same)
                     IN n.proto_type # f.proto_type \/ n.map # f.map}

diff_messages(old, new) ==
  UNION {LET m == old.messages[i]
             same == Named(new.messages, m.name)
         IN IF same = {} THEN {<<m.name, "removed">>}
            ELSE {<<m.name, f.name>> : f \in FieldBreaks(m, FirstOf(new.messages, same))}
         : i \in DOMAIN old.messages}

diff_services(old, new) ==
  UNION {LET s == old.services[i]
             same == Named(new.services, s.name)
             Breaks(m, ms) == Named(ms, m.name) = {}
                              \/ FirstOf(ms, Named(ms, m.name)).input # m.input
                              \/ FirstOf(ms, Named(ms, m.name)).output # m.output
         IN IF same = {} THEN {<<s.name, "removed">>}
            ELSE {<<s.name, m.name>> :
                    m \in {n \in Range(s.methods) : Breaks(n, FirstOf(new.services, same).methods)}}
         : i \in DOMAIN old.services}

diff_protos(old, new) == diff_services(old, new) \union diff_messages(old, new)

-----------------------------------------------------------------------------
(* codegen.rs                                                              *)

(* proto_type_to_rust and the proto type the derive gives the Rust type.   *)
proto_type_to_rust(pt) ==
  CASE pt \in {"sint32", "sfixed32"} -> "int32"
    [] pt \in {"sint64", "sfixed64"} -> "int64"
    [] pt = "fixed32" -> "uint32"
    [] pt = "fixed64" -> "uint64"
    [] OTHER -> pt

RustType(f) ==
  IF f.map # <<>> THEN MapOf(Scalar(proto_type_to_rust(f.map[1])), Scalar(proto_type_to_rust(f.map[2])))
  ELSE LET t == Scalar(proto_type_to_rust(f.proto_type))
       IN IF f.repeated THEN VecOf(t) ELSE IF f.optional THEN OptionOf(t) ELSE t

(* Mutant: the struct is written without the tags of its fields.           *)
generate_struct_NoTags(m, with_codec) ==
  Struct(m.name, [i \in DOMAIN m.fields |-> [name |-> m.fields[i].name, ty |-> RustType(m.fields[i]), tag |-> <<>>]])

(* generate_struct_impl and generate_enum_impl: `#[proto(tag = N)]` is     *)
(* written with TypewayCodec only.                                         *)
AttributeTag(tag, with_codec) == IF with_codec THEN <<tag>> ELSE <<>>
generate_struct(m, with_codec) ==
  Struct(m.name, [i \in DOMAIN m.fields |->
                    [name |-> m.fields[i].name, ty |-> RustType(m.fields[i]),
                     tag |-> AttributeTag(m.fields[i].tag, with_codec)]])
generate_enum(e, with_codec) ==
  SimpleEnum(e.name, [i \in DOMAIN e.variants |->
                        [name |-> e.variants[i].name, tag |-> AttributeTag(e.variants[i].tag, with_codec)]])

(* The type of one side of an rpc.  The parser leaves `stream ` in front   *)
(* of the name, and it stays there, so that nothing is found by the name.  *)
(* Of the others a message of one repeated field becomes a Vec.            *)
request_type_name(side) == side
response_type_name(side, file) ==
  LET found == Named(file.messages, side.type)
      fields == FirstOf(file.messages, found).fields
  IN IF ~side.stream /\ found # {} /\ Len(fields) = 1 /\ fields[1].repeated
     THEN VecOf(Scalar(fields[1].proto_type))
     ELSE side

(* generate_endpoint_type: the method and path of the comment, GET / when  *)
(* there is none; HEAD and OPTIONS become GET, DELETE answers nothing.     *)
generate_endpoint_type(m, file) ==
  LET c == IF m.comment = <<>> THEN [method |-> "GET", path |-> <<>>] ELSE m.comment[1]
      method == IF c.method \in {"HEAD", "OPTIONS"} THEN "GET" ELSE c.method
  IN [method |-> method, path |-> c.path,
      request |-> IF method \in {"POST", "PUT", "PATCH"} THEN <<request_type_name(m.input)>> ELSE <<>>,
      response |-> IF method = "DELETE" THEN Side(FALSE, EmptyName) ELSE response_type_name(m.output, file)]

(* generate_typeway_from_proto, and the same _with_codec.                  *)
generate_typeway_from_proto(file, with_codec) ==
  [with_codec |-> with_codec,
   structs |-> [i \in DOMAIN file.messages |-> generate_struct(file.messages[i], with_codec)],
   enums |-> [i \in DOMAIN file.enums |-> generate_enum(file.enums[i], with_codec)],
   endpoints |-> FlattenSeq([i \in DOMAIN file.services |->
                   [j \in DOMAIN file.services[i].methods |->
                      generate_endpoint_type(file.services[i].methods[j], file)]])]
=============================================================================
