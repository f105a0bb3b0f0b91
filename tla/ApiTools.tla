------------------------------ MODULE ApiTools ------------------------------
(***************************************************************************)
(* What is derived from an API type, against each other: the .proto file   *)
(* of ProtoSchema and its readers, the document of OpenApi, the versions   *)
(* and HasEndpoint of typeway-core's versioning.rs with the routes they    *)
(* are about, and the content negotiation of typeway-server's negotiate.rs.*)
(*                                                                         *)
(* A task is chosen once: files are written, then parsed, then judged.     *)
(*   api       an API whose .proto file is generated;                      *)
(*   hand      a file with one message written by a person;                *)
(*   diff      two versions of a message, and JSON sent by the old one;    *)
(*   imports   files that import each other, named by their numbers;       *)
(*   versions  an API, its changelog and the API resolved from it, and a   *)
(*             request to an endpoint of the old one;                      *)
(*   openapi   an API and the docs of its handlers, and a request;         *)
(*   schema    a type and the sample of it serde writes;                   *)
(*   accept    an Accept header, the formats of an answer and whether its  *)
(*             value can be rendered.                                      *)
(***************************************************************************)
EXTENDS OpenApi

CONSTANTS
  Tasks,       (* a sequence of sets of tasks                              *)
  ParsesAs(_, _) (* ParsesAs(T, s): T::from_str(s) succeeds                *)

P == INSTANCE Paths WITH Parses <- ParsesAs

VARIABLES task, text, files, verdict

toolVars == <<task, text, files, verdict>>

ToolsInit == (\E i \in DOMAIN Tasks : task \in Tasks[i]) /\ text = <<>> /\ files = <<>> /\ verdict = <<>>

-----------------------------------------------------------------------------
(* versioning.rs                                                           *)

(* Mutant: the endpoint is looked for by method and path.                  *)
HasEndpoint_ByPath(api, e) == \E i \in DOMAIN api : api[i].method = e.method /\ api[i].path = e.path

(* HasEndpoint<E, Idx>: the very type is an element of the tuple.          *)
HasEndpoint(api, e) == \E i \in DOMAIN api : api[i] = e

(* ApiChangelog: how many changes of each kind the list has.               *)
Changelog(changes) ==
  [k \in {"added", "removed", "replaced", "deprecated"} |->
     Cardinality({i \in DOMAIN changes : changes[i].kind = k})]

(* The API an author writes down as the result of the changes.             *)
Applied(api, c) ==
  CASE c.kind = "added" -> IF c.first THEN <<c.new>> \o api ELSE Append(api, c.new)
    [] c.kind = "removed" -> SelectSeq(api, LAMBDA e : e # c.old)
    [] c.kind = "replaced" -> [i \in DOMAIN api |-> IF api[i] = c.old THEN c.new ELSE api[i]]
    [] OTHER -> api
Resolved(base, changes) == FoldLeft(Applied, base, changes)

-----------------------------------------------------------------------------
(* The routes of an API, registered in order.                              *)

Pattern(e) ==
  [i \in DOMAIN e.path |->
     LET s == e.path[i]
     IN CASE s.kind = "lit" -> P!Lit(PathText(s))
          [] s.kind = "cap" -> P!Capture(s.stem)
          [] OTHER -> P!CaptureRest(s.stem)]
Shape(e) == P!to_matchit_pattern(Pattern(e))

(* add_route: into the trie of the method unless that refuses the pattern. *)
RECURSIVE InTrie(_, _)
InTrie(api, i) ==
  \A j \in 1..(i - 1) :
    api[j].method = api[i].method /\ InTrie(api, j) => ~P!Conflict(Shape(api[j]), Shape(api[i]))

(* Mutant: a pattern the trie refuses is not kept anywhere.                *)
Lookup_TrieOnly(api, method, path) ==
  LET mine == {i \in DOMAIN api : api[i].method = method}
      trie == {i \in mine : InTrie(api, i)}
      hits == {i \in trie : P!ShapeMatches(Shape(api[i]), path)}
      Accepts(i) == P!Extract(Pattern(api[i]), P!Segments(path))
      hit == {i \in hits : Accepts(i) /\ \A j \in hits \ {i} : P!Precedes(Shape(api[i]), Shape(api[j]))}
  IN IF hit # {} THEN <<api[Min(hit)]>> ELSE <<>>

(* lookup_in_bucket: what the trie finds if it accepts the path, otherwise *)
(* the first of the others that does.                                      *)
Lookup(api, method, path) ==
  LET mine == {i \in DOMAIN api : api[i].method = method}
      trie == {i \in mine : InTrie(api, i)}
      hits == {i \in trie : P!ShapeMatches(Shape(api[i]), path)}
      Accepts(i) == P!Extract(Pattern(api[i]), P!Segments(path))
      hit == {i \in hits : Accepts(i) /\ \A j \in hits \ {i} : P!Precedes(Shape(api[i]), Shape(api[j]))}
      linear == {i \in mine \ trie : Accepts(i)}
  IN IF hit # {} THEN <<api[Min(hit)]>> ELSE IF linear # {} THEN <<api[Min(linear)]>> ELSE <<>>

-----------------------------------------------------------------------------
(* negotiate.rs                                                            *)

(* Mutant: the header is taken in the order it is written.                 *)
parse_accept_Unsorted(accept) == accept

(* parse_accept: the entries by falling quality, equal ones in their order.*)
parse_accept(accept) ==
  LET order == SetToSortSeq(DOMAIN accept,
                 LAMBDA i, j : accept[i].q > accept[j].q \/ (accept[i].q = accept[j].q /\ i < j))
  IN [k \in DOMAIN order |-> accept[order[k]]]

Star == "*"
media_type_matches(range, format) ==
  range \in {<<Star, Star>>, format, <<format[1], Star>>}

(* best_match: the first format the first entry that knows one knows, the  *)
(* first format of all when there is none.                                 *)
best_match(accept, supported) ==
  LET entries == parse_accept(accept)
      Known(e) == {i \in DOMAIN supported : media_type_matches(e.range, supported[i])}
      hits == {k \in DOMAIN entries : Known(entries[k]) # {}}
  IN IF hits = {} THEN 1 ELSE Min(Known(entries[Min(hits)]))

(* NegotiatedResponse::into_response; a tuple of one format never looks at *)
(* the header.                                                             *)
negotiate_and_render(accept, supported, renders) ==
  LET i == IF Len(supported) = 1 THEN 1 ELSE best_match(accept, supported)
  IN IF supported[i] \in renders THEN [status |-> 200, content_type |-> supported[i]]
     ELSE [status |-> 500, content_type |-> <<>>]

-----------------------------------------------------------------------------
(* Steps.                                                                  *)

(* A message written by hand: fields, nested messages, and blocks of enums *)
(* and oneofs.                                                             *)
RECURSIVE Render(_)
Render(m) ==
  LET Item(x) == CASE x.l = "message" -> Render(x)
                   [] x.l \in {"enum", "oneof"} -> <<Header(x.l, x.name)>> \o x.items \o <<Close>>
                   [] OTHER -> <<x>>
  IN <<Header("message", m.name)>> \o FlattenSeq([i \in DOMAIN m.items |-> Item(m.items[i])]) \o <<Close>>

Generated(api) == generate_proto_file("S", "p", collect_rpcs(api))

Write(part, lines) ==
  /\ task.part = part /\ text = <<>>
  /\ text' = lines
  /\ UNCHANGED <<task, files, verdict>>

to_proto == task.part = "api" /\ Write("api", <<Generated(task.api)>>)
WriteByHand == task.part = "hand" /\ Write("hand", <<Render(task.message)>>)
WriteVersions ==
  task.part = "diff" /\ Write("diff", <<build_message("M", task.old), build_message("M", task.new)>>)
to_proto_both ==
  task.part = "versions"
  /\ Write("versions", <<Generated(task.old), Generated(Resolved(task.old, task.changes))>>)
WriteDisk ==
  task.part = "imports"
  /\ Write("imports", [i \in DOMAIN task.imports |->
             [j \in DOMAIN task.imports[i] |-> Header("import", task.imports[i][j])]
             \o build_message("M" \o ToString(i), <<>>)])

with_openapi == task.part = "openapi" /\ Write("openapi", <<with_openapi_docs(task.api, task.docs)>>)

Parse ==
  /\ text # <<>> /\ task.part \notin {"imports", "openapi"} /\ files = <<>>
  /\ files' = [i \in DOMAIN text |-> parse_proto(text[i])]
  /\ UNCHANGED <<task, text, verdict>>

Decide(part, v) ==
  /\ task.part = part /\ verdict = <<>>
  /\ verdict' = <<v>>
  /\ UNCHANGED <<task, text, files>>

ParseImports == task.part = "imports" /\ text # <<>> /\ Decide("imports", parse_proto_with_imports(text, 1))
to_proto_validated ==
  task.part = "api" /\ files # <<>>
  /\ Decide("api", [by |-> "validate", defects |-> validate_proto_file(files[1].value)])
Diff == task.part \in {"diff", "versions"} /\ files # <<>>
        /\ Decide(task.part, diff_protos(files[1].value, files[2].value))
Codegen ==
  task.part \in {"hand", "api"} /\ files # <<>>
  /\ \E with_codec \in BOOLEAN :
       Decide(task.part, [by |-> "codegen", code |-> generate_typeway_from_proto(files[1].value, with_codec)])
GenerateApis ==
  task.part = "openapi" /\ text # <<>>
  /\ Decide("openapi", [v3 |-> openapi3_to_typeway(text[1]), v2 |-> swagger_to_typeway(to_swagger2(text[1]))])
DeriveSchema == task.part = "schema" /\ Decide("schema", schema(task.type))
Negotiate == task.part = "accept"
             /\ Decide("accept", negotiate_and_render(task.accept, task.formats, task.renders))

Judged == verdict # <<>> /\ UNCHANGED toolVars

ToolsNext ==
  \/ to_proto \/ WriteByHand \/ WriteVersions \/ to_proto_both \/ WriteDisk \/ Parse
  \/ with_openapi \/ ParseImports \/ to_proto_validated \/ Diff \/ Codegen \/ GenerateApis
  \/ DeriveSchema \/ Negotiate \/ Judged

ToolsSpec == ToolsInit /\ [][ToolsNext]_toolVars

-----------------------------------------------------------------------------
(* Properties                                                              *)

Decided(part) == task.part = part /\ verdict # <<>>
Of(part) == task.part = part /\ files # <<>>
DistinctRpcs(api) == \A i, j \in DOMAIN api : i # j =>
  path_to_rpc_name(api[i].method, api[i].path) # path_to_rpc_name(api[j].method, api[j].path)

(* The type invariant: no file of the project's own making fails to parse, *)
(* and nothing is judged before it was parsed.                             *)
ToolsTypeOK ==
  /\ task.part \in {"api", "hand", "diff", "imports", "versions", "openapi", "schema", "accept", "none"}
  /\ Len(verdict) <= 1
  /\ \A i \in DOMAIN files : files[i].ok
  /\ verdict # <<>> /\ task.part \in {"api", "hand", "diff", "versions"} => files # <<>>

(* The parser reads back what the generator wrote: every endpoint's rpc in *)
(* its order with its HTTP method and path, and every message with its     *)
(* fields, the fields of a oneof too.                                      *)
GeneratedReadsBack ==
  Of("api") =>
  LET rpcs == collect_rpcs(task.api)
      methods == files[1].value.services[1].methods
      found == files[1].value.messages
  IN /\ Len(methods) = Len(rpcs)
     /\ \A i \in DOMAIN rpcs :
          /\ methods[i].name = rpcs[i].name
          /\ methods[i].comment = <<[method |-> rpcs[i].http_method, path |-> rpcs[i].path_pattern]>>
          /\ methods[i].input = Side(rpcs[i].client_streaming, RequestType(rpcs[i]))
          /\ \A m \in Range(rpcs[i].request \o <<rpcs[i].response>>) :
               m.name # EmptyName /\ m.definition[1].l = "message" =>
               \E j \in DOMAIN found : found[j].name = m.name /\ found[j].fields = parse_message_spec(m.definition)

(* A client made from the .proto file and the server's own description     *)
(* agree on every method, and the dispatch finds the endpoint the method   *)
(* was made of, as long as no two endpoints have the same rpc name (PUT    *)
(* and PATCH of a path do, and so do /posts and /users/{}/posts).          *)
ClientAndServerAgree ==
  Of("api") /\ DistinctRpcs(task.api) =>
  LET rpcs == collect_rpcs(task.api)
      spec == grpc_spec(rpcs)
      file == files[1].value
  IN \A i \in DOMAIN rpcs :
       LET m == spec.methods[rpcs[i].name]
           Fields(n) == IF n = EmptyName THEN <<>>
                        ELSE LET s == Named(file.messages, n) IN IF s = {} THEN <<>> ELSE FirstOf(file.messages, s).fields
           Mine(n) == IF n = EmptyName THEN <<>> ELSE spec.messages[n]
       IN /\ find_method(rpcs, rpcs[i].name) = rpcs[i]
          /\ m.request = file.services[1].methods[i].input.type
          /\ m.response = file.services[1].methods[i].output.type
          /\ Fields(m.request) = Mine(m.request) /\ Fields(m.response) = Mine(m.response)

(* A generated file is valid: the captures and the re-tagged fields of the *)
(* body never share a tag.  What validate_proto still reports is an enum   *)
(* used as a message of an rpc, a map that became a plain field, and a tag *)
(* that was wrong before or was moved into the reserved range.             *)
WellTagged(t) ==
  LET fs == proto_fields(t)
  IN \A i, j \in DOMAIN fs : fs[i].tag \in 1..18000 /\ (i # j => fs[i].tag # fs[j].tag)
GeneratedIsValid ==
  Decided("api") /\ verdict[1].by = "validate"
    /\ (\A i \in DOMAIN task.api : \A t \in Range(task.api[i].req) \union {task.api[i].res} :
          WellTagged(IF t.shape \in {"vec", "option"} THEN t.of ELSE t)) =>
  \A d \in verdict[1].defects :
    \/ d.error = "type"
    \/ d.error = "not defined"
       /\ \E i \in DOMAIN task.api : LET r == task.api[i].res
                                     IN r.shape = "enum" \/ (r.shape # "struct" /\ is_message(r))

(* A message written by hand is read with its fields and those of its      *)
(* oneofs in order.  It is cut off after the first enum or oneof inside    *)
(* it, so the rest of its fields are lost without an error; nothing is     *)
(* lost when the block comes last.                                         *)
FieldsOf(items) ==
  FlattenSeq([i \in DOMAIN items |->
    CASE items[i].l = "field" -> <<items[i].field>>
      [] items[i].l = "oneof" -> [j \in DOMAIN items[i].items |-> items[i].items[j].field]
      [] OTHER -> <<>>])
WrittenIsParsed ==
  Of("hand") =>
  LET m == files[1].value.messages[1]
      items == task.message.items
      early == \E i \in 1..(Len(items) - 1) : items[i].l \in {"enum", "oneof"}
  IN /\ m.name = task.message.name
     /\ IsPrefix(m.fields, FieldsOf(items))
     /\ ~early => /\ m.fields = FieldsOf(items)
                  /\ \A i \in DOMAIN items : items[i].l = "message" =>
                       \E j \in DOMAIN files[1].value.messages :
                         files[1].value.messages[j].name = m.name \o "." \o items[i].name

(* The code written with TypewayCodec has the wire format of the file it   *)
(* is made of: structs and enums have its tags, whatever the order of the  *)
(* fields.  (Zigzag and fixed integers become plain ones: those fields are *)
(* written as another wire format than the file says.)  From the file of   *)
(* an API comes an API with its methods and paths in their order, HEAD and *)
(* OPTIONS as GET, and with its bodies where the method has one.           *)
SameWire(pt) == proto_type_to_rust(pt) = pt
KeepsWire(file, code) ==
  /\ \A i \in DOMAIN file.messages :
       LET m == file.messages[i]
       IN (\A j \in DOMAIN m.fields : SameWire(m.fields[j].proto_type)) =>
          proto_fields(code.structs[i]) = m.fields
  /\ \A i \in DOMAIN file.enums :
       message_definition(code.enums[i]) =
         <<Header("enum", file.enums[i].name)>>
         \o [j \in DOMAIN file.enums[i].variants |->
               VariantLine(file.enums[i].variants[j].name, file.enums[i].variants[j].tag)]
         \o <<Close>>
KeepsApi(rpcs, endpoints) ==
  /\ Len(endpoints) = Len(rpcs)
  /\ \A i \in DOMAIN rpcs :
       LET m == rpcs[i].http_method
           e == endpoints[i]
       IN /\ e.method = IF m \in {"HEAD", "OPTIONS"} THEN "GET" ELSE m
          /\ e.path = rpcs[i].path_pattern
          /\ m \in {"POST", "PUT", "PATCH"} =>
               e.request = <<Side(rpcs[i].client_streaming, RequestType(rpcs[i]))>>
CodegenKeepsWire ==
  task.part \in {"hand", "api"} /\ verdict # <<>> /\ verdict[1].by = "codegen" =>
  LET code == verdict[1].code
  IN /\ code.with_codec => KeepsWire(files[1].value, code)
     /\ task.part = "api" => KeepsApi(collect_rpcs(task.api), code.endpoints)

(* Every file reachable through imports is read exactly once, through      *)
(* diamonds and cycles; only the first file is read again when it is       *)
(* itself imported, and its messages are then there twice.                 *)
RECURSIVE Reach(_, _)
Reach(imports, set) ==
  LET next == set \union {f \in UNION {Range(imports[i]) : i \in set} : f \in DOMAIN imports}
  IN IF next = set THEN set ELSE Reach(imports, next)
ImportsOnce ==
  Decided("imports") =>
  LET reached == Reach(task.imports, {1})
      Count(i) == Cardinality({k \in DOMAIN verdict[1].messages : verdict[1].messages[k].name = "M" \o ToString(i)})
      again == \E i \in reached : 1 \in Range(task.imports[i])
  IN /\ verdict[1].ok
     /\ \A i \in DOMAIN task.imports : Count(i) = IF i \notin reached THEN 0 ELSE IF i = 1 /\ again THEN 2 ELSE 1

(* What diff calls compatible is: a message of the old version, read by    *)
(* the new one, has every field under its new name, unless the field       *)
(* became repeated or stopped being so, which diff does not look at.       *)
DiffIsSound ==
  Decided("diff") /\ verdict[1] = {}
    /\ (\A f \in Range(task.old), g \in Range(task.new) : f.tag = g.tag => f.repeated = g.repeated) =>
  LET sent == json_to_proto_binary(task.json, ToDefs(task.old))
      read == proto_binary_to_json(sent.value, ToDefs(task.new))
  IN sent.ok =>
     /\ read.ok
     /\ \A f \in Range(task.old), g \in Range(task.new) :
          f.tag = g.tag /\ f.name \in DOMAIN task.json.v /\ ~is_proto3_default(task.json.v[f.name], f.proto_type)
            /\ ~Same(task.json.v[f.name], Arr(<<>>)) =>
          g.name \in DOMAIN read.value.v /\ Same(read.value.v[g.name], task.json.v[f.name])

(* Every old endpoint is still in the API: what a call that infers the     *)
(* witness of HasEndpoint proves.  (assert_api_compatible! proves nothing: *)
(* it only assumes the bound, in functions nobody calls.)                  *)
Includes(new, old) == \A i \in DOMAIN old : HasEndpoint(new, old[i])

(* The two notions of compatibility agree: an API that has every old       *)
(* endpoint (HasEndpoint), as one whose changes only add and deprecate     *)
(* always does, has a .proto file diff finds nothing Breaking in, as long  *)
(* as the rpc names are distinct.                                          *)
VersionsAgree ==
  Decided("versions") =>
  LET new == Resolved(task.old, task.changes)
      log == Changelog(task.changes)
  IN /\ log["removed"] = 0 /\ log["replaced"] = 0 =>
          Includes(new, task.old) /\ Len(new) = Len(task.old) + log["added"]
     /\ Includes(new, task.old) /\ DistinctRpcs(new) => verdict[1] = {}

(* In a compatible API a request only one endpoint accepts still reaches   *)
(* that endpoint, however the endpoints are ordered, unless a new one has  *)
(* a pattern of the shape of its path.  (Where two endpoints accept a path *)
(* a new endpoint of another shape can move one of them out of the trie,   *)
(* and the other one answers from then on.)                                *)
CompatibleStillServed ==
  Decided("versions") =>
  LET new == Resolved(task.old, task.changes)
      before == Lookup(task.old, task.method, task.path)
      accept == {e \in Range(task.old) : e.method = task.method /\ P!Extract(Pattern(e), P!Segments(task.path))}
      Shadows(i) == /\ new[i] \notin Range(task.old)
                    /\ new[i].method = task.method
                    /\ P!ShapeMatches(Shape(new[i]), task.path)
  IN Includes(new, task.old) /\ before # <<>> /\ Cardinality(accept) = 1
       /\ (\A i \in DOMAIN new : ~Shadows(i)) =>
     Lookup(new, task.method, task.path) = before

(* The document tells of the endpoint the router serves: what a request    *)
(* reaches is described at its pattern and method with its body, answer    *)
(* and security, as long as no other endpoint has the same method and      *)
(* pattern (the router then serves the first, the document shows the       *)
(* last).  No capture is named twice, a bearer scheme is declared if an    *)
(* operation needs it, and the document itself is served unless the API    *)
(* has that very path.                                                     *)
DocumentedAsServed ==
  task.part = "openapi" /\ text # <<>> =>
  LET api == task.api
      spec == text[1]
      served == Lookup(WithDocRoutes(api), task.method, task.path)
      Twin(e, f) == e # f /\ e.method = f.method /\ SpecPattern(e.path) = SpecPattern(f.path)
  IN /\ served # <<>> /\ served[1] \in Range(api) /\ (\A f \in Range(api) : ~Twin(served[1], f)) =>
          \E i \in DOMAIN spec.paths :
            /\ spec.paths[i].pattern = SpecPattern(served[1].path)
            /\ task.method \in DOMAIN spec.paths[i].item
            /\ LET op == spec.paths[i].item[task.method]
                   mine == to_operation(served[1])
               IN /\ op = [mine EXCEPT !.operation_id = op.operation_id, !.summary = op.summary, !.tags = op.tags]
                  /\ IsInjective(op.parameters)
                  /\ Range(op.security) \subseteq spec.schemes
     /\ task.method = "GET" /\ task.path = <<"docs">>
          /\ (\A e \in Range(api) : SpecPattern(e.path) # <<"docs">>) =>
          served = <<DocRoute("docs")>>

(* Handler docs never share an operation and none gets lost while there    *)
(* are operations left.  Given in the order of the API they land each on   *)
(* its own endpoint, if that is also the order of the document, where the  *)
(* operations of a path stand together and GET comes before POST.          *)
DocsLandOnce ==
  task.part = "openapi" /\ text # <<>> =>
  LET paths == text[1].paths
      ops == Operations(paths)
      Ids(k) == OpAt(paths, ops[k]).operation_id
      ids == {task.docs[i].operation_id : i \in DOMAIN task.docs}
      Place(k) == <<paths[ops[k][1]].pattern, ops[k][2]>>
  IN /\ \A j, k \in DOMAIN ops : Ids(j) # <<>> /\ Ids(j) = Ids(k) => j = k
     /\ Cardinality(ids) <= Len(ops) => \A id \in ids : \E k \in DOMAIN ops : Ids(k) = <<id>>
     /\ Cardinality(ids) = Len(task.docs) /\ Len(ops) = Len(task.api)
          /\ (\A k \in DOMAIN ops : Place(k) = <<SpecPattern(task.api[k].path), task.api[k].method>>) =>
          \A k \in DOMAIN ops : Ids(k) = IF k \in DOMAIN task.docs THEN <<task.docs[k].operation_id>> ELSE <<>>

(* The two generators agree on what they make of one API: the same         *)
(* methods, paths and types, but for enums with data, where one takes the  *)
(* first variant and the other any value; and no endpoint is lost.         *)
RECURSIVE Inside(_)
Inside(t) == IF t.shape \in {"vec", "option"} THEN Inside(t.of) ELSE t
CodegensAgree ==
  Decided("openapi") =>
  LET api == Range(task.api)
      IsSum(t) == Inside(t).shape = "tagged"
      Places(set) == {<<g.method, [i \in DOMAIN g.path |-> g.path[i].text]>> : g \in set}
      Place(e) == <<e.method, [i \in DOMAIN e.path |-> IF e.path[i].kind = "lit" THEN PathText(e.path[i]) ELSE "String"]>>
  IN /\ Places(verdict[1].v3) = Places(verdict[1].v2)
     /\ (\A e \in api : ~IsSum(e.res) /\ (has_body(e) => ~IsSum(e.req[1]))) => verdict[1].v3 = verdict[1].v2
     /\ \A e \in api : e.method \in {"GET", "POST", "PUT", "PATCH", "DELETE"} => Place(e) \in Places(verdict[1].v3)

(* The answer of an endpoint can be read by the type generated for it from *)
(* the document, unless it holds a null, a u32 no i32 is (both are int32   *)
(* in the document), or is an enum with data.                              *)
GeneratedReads ==
  Decided("openapi") =>
  LET api == Range(task.api)
      Twin(e, f) == e # f /\ SpecPattern(e.path) = SpecPattern(f.path)
      Risky(t) == Inside(t).shape = "tagged" \/ Inside(t) = Scalar("uint32")
  IN \A e \in api : (\A f \in api : ~Twin(e, f)) /\ ~Risky(e.res) =>
       \A k \in 0..3 : ~HasNull(to_value(e.res, k)) =>
         \A g \in verdict[1].v3 \union verdict[1].v2 :
           [i \in DOMAIN g.path |-> IF g.path[i].cap THEN "{}" ELSE g.path[i].text] = SpecPattern(e.path) =>
           Reads(g.res, to_value(e.res, k))

(* The schema of a type admits the JSON serde writes for it, for every way *)
(* of tagging an enum, unless that holds a null (None, a unit variant      *)
(* without a tag) or is a tuple variant of unlike fields.                  *)
Unlike(t) == t.shape = "tagged"
  /\ \E v \in Range(t.variants) : v.kind = "tuple" /\ \E f, g \in Range(v.fields) : f.ty # g.ty
SchemaAdmits ==
  Decided("schema") /\ ~Unlike(Inside(task.type)) =>
  LET json == to_value(task.type, task.k) IN ~HasNull(json) => Admits(verdict[1], json)

(* The format of the answer is one the client likes best of those there    *)
(* are, whatever the order of the header; without a match it is the first. *)
AcceptHonoured ==
  Decided("accept") /\ verdict[1].status = 200 =>
  LET formats == task.formats
      Liked(f) == {task.accept[k].q : k \in {l \in DOMAIN task.accept : media_type_matches(task.accept[l].range, f)}}
      known == {i \in DOMAIN formats : Liked(formats[i]) # {}}
      chosen == verdict[1].content_type
  IN IF known = {} \/ Len(formats) = 1 THEN chosen = formats[1]
     ELSE /\ Liked(chosen) # {}
          /\ \A i \in known : Max(Liked(formats[i])) <= Max(Liked(chosen))
=============================================================================
