------------------------------ MODULE OpenApi ------------------------------
(***************************************************************************)
(* typeway-openapi: the OpenAPI document of an API (derive.rs, spec.rs and *)
(* the TypewaySchema derive of typeway-macros), its Swagger 2.0 form       *)
(* (swagger_output.rs), the documentation of handlers put into it, and the *)
(* APIs codegen_v3.rs and codegen_v2.rs make of either document.           *)
(*                                                                         *)
(* An endpoint has, beside its method, path, body and answer, the wrappers *)
(* around it.  The pattern of a path is the sequence of its parts, where   *)
(* every capture is "{}".  An absent option is <<>>.                       *)
(***************************************************************************)
EXTENDS ProtoSchema

(* An enum with data: how serde tags it, and its variants.                 *)
TaggedEnum(tagging, variants) == [shape |-> "tagged", tagging |-> tagging, variants |-> variants]
Variant(name, kind, fields) == [name |-> name, kind |-> kind, fields |-> fields]

Schema(type, format) == [type |-> type, format |-> format, items |-> <<>>, props |-> <<>>,
                         values |-> <<>>, one_of |-> <<>>]
array(items) == [Schema("array", "") EXCEPT !.items = <<items>>]
object_with_properties(props) == [Schema("object", "") EXCEPT !.props = props]
string_enum(names) == [Schema("string", "") EXCEPT !.values = names]
one_of(variants) == [Schema("", "") EXCEPT !.one_of = variants]
Prop(name, schema) == <<name, schema>>

ScalarSchema(name) ==
  CASE name \in {"uint32", "int32"} -> Schema("integer", "int32")
    [] name \in {"uint64", "int64"} -> Schema("integer", "int64")
    [] name \in {"float", "double"} -> Schema("number", "")
    [] name = "bool" -> Schema("boolean", "")
    [] name = "string" -> Schema("string", "")
    [] OTHER -> Schema("object", "")                 (* (), Value               *)

(* Mutant: an adjacently tagged variant is described as an internal one.   *)
build_variant_schema_NoContent(tagging, v, types) ==
  LET named == [i \in DOMAIN types |-> Prop(v.fields[i].name, types[i])]
      tag == Prop("tag", string_enum(<<v.name>>))
      payload == CASE v.kind = "unit" -> Schema("object", "")
                   [] v.kind = "newtype" -> types[1]
                   [] v.kind = "tuple" -> array(types[1])
                   [] OTHER -> object_with_properties(named)
  IN CASE tagging = "untagged" -> payload
       [] tagging \in {"adjacent", "internal"} /\ v.kind = "unit" -> object_with_properties(<<tag>>)
       [] tagging = "adjacent" -> object_with_properties(<<tag, Prop(v.name, payload)>>)
       [] tagging = "internal" /\ v.kind = "named" -> object_with_properties(<<tag>> \o named)
       [] tagging = "internal" -> payload
       [] v.kind = "unit" -> payload
       [] OTHER -> object_with_properties(<<Prop(v.name, payload)>>)

(* build_variant_schema and bare_payload_schema: what is said of a variant *)
(* whose fields have the schemas `types`.  A tuple variant is an array of  *)
(* what its first field is.                                                *)
build_variant_schema(tagging, v, types) ==
  LET named == [i \in DOMAIN types |-> Prop(v.fields[i].name, types[i])]
      tag == Prop("tag", string_enum(<<v.name>>))
      payload == CASE v.kind = "unit" -> Schema("object", "")
                   [] v.kind = "newtype" -> types[1]
                   [] v.kind = "tuple" -> array(types[1])
                   [] OTHER -> object_with_properties(named)
  IN CASE tagging = "untagged" -> payload
       [] tagging \in {"adjacent", "internal"} /\ v.kind = "unit" -> object_with_properties(<<tag>>)
       [] tagging = "adjacent" -> object_with_properties(<<tag, Prop("content", payload)>>)
       [] tagging = "internal" /\ v.kind = "named" -> object_with_properties(<<tag>> \o named)
       [] tagging = "internal" -> payload
       [] v.kind = "unit" -> string_enum(<<v.name>>)
       [] OTHER -> object_with_properties(<<Prop(v.name, payload)>>)

(* ToSchema::schema.                                                       *)
RECURSIVE schema(_)
schema(t) ==
  CASE t.shape = "scalar" -> ScalarSchema(t.name)
    [] t.shape = "vec" -> array(schema(t.of))
    [] t.shape = "option" -> schema(t.of)
    [] t.shape = "map" -> Schema("object", "")
    [] t.shape = "enum" -> string_enum([i \in DOMAIN t.variants |-> t.variants[i].name])
    [] t.shape = "tagged" ->
         one_of([i \in DOMAIN t.variants |->
           build_variant_schema(t.tagging, t.variants[i],
             [j \in DOMAIN t.variants[i].fields |-> schema(t.variants[i].fields[j].ty)])])
    [] OTHER -> object_with_properties([i \in DOMAIN t.fields |-> Prop(t.fields[i].name, schema(t.fields[i].ty))])

-----------------------------------------------------------------------------
(* The document                                                            *)

PathText(s) == s.stem \o (IF s.plural THEN "s" ELSE "")
SpecPattern(path) == [i \in DOMAIN path |-> IF path[i].kind = "lit" THEN PathText(path[i]) ELSE "{}"]

(* PathParameters::parameters: named by the number of captures after it;   *)
(* the pattern has no names to assign.                                     *)
parameters(path) ==
  LET caps == SelectSeq(path, LAMBDA s : s.kind = "cap")
  IN [i \in DOMAIN caps |-> Len(caps) - i]

has_body(e) == e.method \in {"POST", "PUT", "PATCH"} /\ e.req # <<>>

(* EndpointToOperation of an endpoint and of the wrappers around it.       *)
to_operation(e) ==
  [parameters |-> parameters(e.path),
   request_body |-> IF has_body(e) THEN <<schema(e.req[1])>> ELSE <<>>,
   response |-> schema(e.res),
   operation_id |-> <<>>, summary |-> <<>>, tags |-> <<>>,
   deprecated |-> "Deprecated" \in e.wraps,
   security |-> IF "Protected" \in e.wraps THEN <<"bearerAuth">> ELSE <<>>]

SpecMethods == <<"GET", "POST", "PUT", "DELETE", "PATCH", "HEAD", "OPTIONS">>

(* Mutant: a path met before gets a fresh item.                            *)
collect_into_Fresh(paths, e) ==
  LET at == {i \in DOMAIN paths : paths[i].pattern = SpecPattern(e.path)}
      item == [m \in {e.method} |-> to_operation(e)]
  IN IF at = {} THEN Append(paths, [pattern |-> SpecPattern(e.path), item |-> item])
     ELSE [paths EXCEPT ![Min(at)].item = item]

(* collect_into: the item of the pattern, made when it is not there, gets  *)
(* the operation, in place of one that has the same method.                *)
collect_into(paths, e) ==
  LET at == {i \in DOMAIN paths : paths[i].pattern = SpecPattern(e.path)}
      item == [m \in {e.method} |-> to_operation(e)]
  IN IF at = {} THEN Append(paths, [pattern |-> SpecPattern(e.path), item |-> item])
     ELSE [paths EXCEPT ![Min(at)].item = item @@ @]

(* all_operations_mut over the paths in order: where the operations are.   *)
Operations(paths) ==
  FlattenSeq([i \in DOMAIN paths |->
    LET ms == SelectSeq(SpecMethods, LAMBDA m : m \in DOMAIN paths[i].item)
    IN [k \in DOMAIN ms |-> <<i, ms[k]>>]])
OpAt(paths, at) == paths[at[1]].item[at[2]]

auto_tag_operations(paths) ==
  [i \in DOMAIN paths |->
     LET lits == SelectSeq(paths[i].pattern, LAMBDA s : s # "{}")
     IN [paths[i] EXCEPT !.item = [m \in DOMAIN @ |->
           IF @[m].tags = <<>> /\ lits # <<>> THEN [@[m] EXCEPT !.tags = <<lits[1]>>] ELSE @[m]]]]

(* to_spec, with collect_security_schemes.                                 *)
to_spec(api) ==
  LET paths == auto_tag_operations(FoldLeft(collect_into, <<>>, api))
  IN [paths |-> paths,
      schemes |-> {s \in {"bearerAuth"} : \E at \in Range(Operations(paths)) : s \in Range(OpAt(paths, at).security)}]

(* Mutant: the identifiers already given are not looked at.                *)
Target_FirstFree(paths, doc) ==
  LET ops == Operations(paths)
      free == {k \in DOMAIN ops : OpAt(paths, ops[k]).operation_id = <<>> /\ OpAt(paths, ops[k]).summary = <<>>}
  IN IF free = {} THEN <<>> ELSE <<ops[Min(free)]>>

(* The operation a doc is for: one with its identifier, otherwise the      *)
(* first that has neither an identifier nor a summary.                     *)
Target(paths, doc) ==
  LET ops == Operations(paths)
      same == {k \in DOMAIN ops : OpAt(paths, ops[k]).operation_id = <<doc.operation_id>>}
      free == {k \in DOMAIN ops : OpAt(paths, ops[k]).operation_id = <<>> /\ OpAt(paths, ops[k]).summary = <<>>}
      hits == IF same # {} THEN same ELSE free
  IN IF hits = {} THEN <<>> ELSE <<ops[Min(hits)]>>

(* apply_handler_docs, apply_doc_to_operation.                             *)
apply_doc(paths, doc) ==
  LET at == Target(paths, doc)
  IN IF at = <<>> THEN paths
     ELSE [paths EXCEPT ![at[1][1]].item[at[1][2]] =
             [@ EXCEPT !.operation_id = <<doc.operation_id>>,
                       !.summary = IF doc.summary = "" THEN @ ELSE <<doc.summary>>,
                       !.tags = IF doc.tags = <<>> THEN @ ELSE doc.tags]]
apply_handler_docs(spec, docs) == [spec EXCEPT !.paths = FoldLeft(apply_doc, @, docs)]

(* with_openapi_docs: the document, and the two routes after the API's.    *)
with_openapi_docs(api, docs) == apply_handler_docs(to_spec(api), docs)
DocRoute(name) == [method |-> "GET", path |-> <<Word(name, FALSE)>>, req |-> <<>>, res |-> Scalar(name), wraps |-> {}]
WithDocRoutes(api) == api \o <<DocRoute("openapi.json"), DocRoute("docs")>>

-----------------------------------------------------------------------------
(* Swagger 2.0                                                             *)

(* sanitize_for_swagger2: a oneOf becomes an object (its variants are kept *)
(* where no reader looks).                                                 *)
RECURSIVE sanitize_for_swagger2(_)
sanitize_for_swagger2(s) ==
  [s EXCEPT !.items = [i \in DOMAIN @ |-> sanitize_for_swagger2(@[i])],
            !.props = [i \in DOMAIN @ |-> Prop(@[i][1], sanitize_for_swagger2(@[i][2]))],
            !.type = IF s.one_of # <<>> /\ @ = "" THEN "object" ELSE @,
            !.one_of = <<>>]

(* convert_operation: the parameters, then the body as one more of them;   *)
(* the security of the operation is not carried over.                      *)
convert_operation(op) ==
  [parameters |-> [i \in DOMAIN op.parameters |-> [in |-> "path", schema |-> <<>>]]
                  \o [i \in DOMAIN op.request_body |->
                        [in |-> "body", schema |-> <<sanitize_for_swagger2(op.request_body[i])>>]],
   response |-> sanitize_for_swagger2(op.response)]
to_swagger2(spec) ==
  [i \in DOMAIN spec.paths |->
     [spec.paths[i] EXCEPT !.item = [m \in DOMAIN @ |-> convert_operation(@[m])]]]

-----------------------------------------------------------------------------
(* Code from a document                                                    *)

Value == Scalar("Value")

(* Mutant: every integer is an i32.                                        *)
openapi_type_to_rust_Narrow(type, format) ==
  CASE type = "string" -> Scalar("String")
    [] type = "integer" -> Scalar("i32")
    [] type = "number" -> Scalar("f64")
    [] type = "boolean" -> Scalar("bool")
    [] OTHER -> Value

openapi_type_to_rust(type, format) ==
  CASE type = "string" -> Scalar("String")
    [] type = "integer" -> Scalar(IF format = "int32" THEN "i32" ELSE "i64")
    [] type = "number" -> Scalar("f64")
    [] type = "boolean" -> Scalar("bool")
    [] OTHER -> Value

RECURSIVE schema_ref_to_rust(_)
schema_ref_to_rust(s) ==
  CASE s.type = "array" -> VecOf(IF s.items # <<>> THEN schema_ref_to_rust(s.items[1]) ELSE Value)
    [] s.type # "" -> openapi_type_to_rust(s.type, s.format)
    [] OTHER -> Value

(* As above, but without a type the first of a oneOf stands for it.        *)
RECURSIVE schema_ref_to_rust_v3(_)
schema_ref_to_rust_v3(s) ==
  CASE s.type = "array" -> VecOf(IF s.items # <<>> THEN schema_ref_to_rust_v3(s.items[1]) ELSE Value)
    [] s.type = "object" -> Value
    [] s.type # "" -> openapi_type_to_rust(s.type, s.format)
    [] s.one_of # <<>> -> schema_ref_to_rust_v3(s.one_of[1])
    [] OTHER -> Value

(* path_to_macro_args and endpoint_type: captures are Strings, a method    *)
(* without an endpoint type of its own becomes GET.                        *)
endpoint_type(method, pattern, body, response) ==
  [method |-> IF method \in {"GET", "HEAD", "OPTIONS"} THEN "GET" ELSE method,
   path |-> [i \in DOMAIN pattern |-> IF pattern[i] = "{}" THEN [cap |-> TRUE, text |-> "String"]
                                      ELSE [cap |-> FALSE, text |-> pattern[i]]],
   req |-> IF method \notin {"POST", "PUT", "PATCH"} THEN <<>> ELSE IF body = <<>> THEN <<Value>> ELSE body,
   res |-> response]

(* Mutant: only the first parameter can be the body.                       *)
find_body_type_v2_First(op) ==
  IF op.parameters # <<>> /\ op.parameters[1].in = "body"
  THEN <<schema_ref_to_rust(op.parameters[1].schema[1])>> ELSE <<>>

find_body_type_v2(op) ==
  LET bodies == SelectSeq(op.parameters, LAMBDA p : p.in = "body" /\ p.schema # <<>>)
  IN IF bodies = <<>> THEN <<>> ELSE <<schema_ref_to_rust(bodies[1].schema[1])>>

(* The endpoints of the generated API.  (The code writes them by the names *)
(* of their paths and methods, not in the order of the document.)          *)
Generate(paths, Body(_), Answer(_)) ==
  UNION {{endpoint_type(m, paths[i].pattern, Body(paths[i].item[m]), Answer(paths[i].item[m])) :
            m \in DOMAIN paths[i].item} : i \in DOMAIN paths}
openapi3_to_typeway(spec) ==
  Generate(spec.paths,
           LAMBDA op : [i \in DOMAIN op.request_body |-> schema_ref_to_rust_v3(op.request_body[i])],
           LAMBDA op : schema_ref_to_rust_v3(op.response))
swagger_to_typeway(paths) ==
  Generate(paths, find_body_type_v2, LAMBDA op : schema_ref_to_rust(op.response))

-----------------------------------------------------------------------------
(* JSON outside the project: what serde writes for a type, what a schema   *)
(* admits, and what a generated type reads.                                *)

Name(s) == Str(<<s>>)
BigInt == 2 ^ (IntBits - 1) + 1           (* more than an i32 holds           *)

(* The k-th sample of a type.                                              *)
RECURSIVE to_value(_, _)
to_value(t, k) ==
  CASE t.shape = "scalar" ->
         CASE t.name \in {"uint32", "uint64", "int64"} -> Num(IF k % 2 = 0 THEN 1 ELSE BigInt)
           [] t.name \in {"int32", "float", "double"} -> Num(k)
           [] t.name = "bool" -> Bln(TRUE)
           [] t.name = "string" -> Name("text")
           [] OTHER -> Null
    [] t.shape = "vec" -> Arr([i \in 1..2 |-> to_value(t.of, k + i - 1)])
    [] t.shape = "option" -> IF k % 3 = 0 THEN Null ELSE to_value(t.of, k)
    [] t.shape = "map" -> Obj([key |-> to_value(t.value, k)])
    [] t.shape = "enum" -> Name(t.variants[(k % Len(t.variants)) + 1].name)
    [] t.shape = "tagged" ->
         LET v == t.variants[(k % Len(t.variants)) + 1]
             vals == [i \in DOMAIN v.fields |-> to_value(v.fields[i].ty, k)]
             named == [n \in {v.fields[i].name : i \in DOMAIN v.fields} |->
                         vals[CHOOSE i \in DOMAIN v.fields : v.fields[i].name = n]]
             payload == CASE v.kind = "unit" -> Null
                          [] v.kind = "newtype" -> vals[1]
                          [] v.kind = "tuple" -> Arr(vals)
                          [] OTHER -> Obj(named)
             tag == [x \in {"tag"} |-> Name(v.name)]
         IN CASE t.tagging = "untagged" -> payload
              [] t.tagging = "adjacent" -> Obj(IF v.kind = "unit" THEN tag ELSE tag @@ [x \in {"content"} |-> payload])
              [] t.tagging = "internal" -> Obj(IF v.kind = "unit" THEN tag ELSE tag @@ payload.v)
              [] v.kind = "unit" -> Name(v.name)
              [] OTHER -> Obj([x \in {v.name} |-> payload])
    [] OTHER -> Obj([n \in {t.fields[i].name : i \in DOMAIN t.fields} |->
                       to_value(t.fields[CHOOSE i \in DOMAIN t.fields : t.fields[i].name = n].ty, k)])

RECURSIVE HasNull(_)
HasNull(j) == \/ j.t = "null"
              \/ j.t \in {"arr", "obj"} /\ \E x \in DOMAIN j.v : HasNull(j.v[x])

(* JSON Schema, where a oneOf asks for one of the variants at least.       *)
RECURSIVE Admits(_, _)
Admits(s, j) ==
  CASE s.type = "string" -> j.t = "str" /\ (s.values = <<>> \/ j.v[1] \in Range(s.values))
    [] s.type \in {"integer", "number"} -> j.t = "num"
    [] s.type = "boolean" -> j.t = "bool"
    [] s.type = "array" -> j.t = "arr" /\ \A i \in DOMAIN j.v : Admits(s.items[1], j.v[i])
    [] s.type = "object" -> j.t = "obj" /\ \A i \in DOMAIN s.props :
                              s.props[i][1] \in DOMAIN j.v => Admits(s.props[i][2], j.v[s.props[i][1]])
    [] OTHER -> \E i \in DOMAIN s.one_of : Admits(s.one_of[i], j)

RECURSIVE Reads(_, _)
Reads(t, j) ==
  CASE t.shape = "vec" -> j.t = "arr" /\ \A i \in DOMAIN j.v : Reads(t.of, j.v[i])
    [] t.name = "String" -> j.t = "str"
    [] t.name = "i32" -> j.t = "num" /\ j.v < BigInt - 1
    [] t.name \in {"i64", "f64"} -> j.t = "num"
    [] t.name = "bool" -> j.t = "bool"
    [] OTHER -> TRUE
=============================================================================
