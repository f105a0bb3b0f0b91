----------------------------- MODULE MCFormats -----------------------------
(***************************************************************************)
(* What goes over the wire, what the tools write about an API and how its  *)
(* endpoint types become a server, in one check: a behavior is about one   *)
(* of the three, and the others have nothing to do in it.                  *)
(***************************************************************************)
EXTENDS MCWireExchange, MCApiTools, MCEndpointStack

Nothing == [part |-> "none"]
AllFamilies == <<{Nothing}>> \o MCFamilies
AllTasks == <<{Nothing}>> \o MCTasks

NoAuthor == Fresh(<<>>, "Server")
NoWire == item = Nothing /\ wire = Unwritten /\ got = Unread
NoTask == task = Nothing /\ text = <<>> /\ files = <<>> /\ verdict = <<>>
NoStack == author = NoAuthor /\ routes = <<>> /\ layers = <<>> /\ exchange = Idle

FormatsInit ==
  \/ WireInit /\ item # Nothing /\ NoTask /\ NoStack
  \/ ToolsInit /\ task # Nothing /\ NoWire /\ NoStack
  \/ StackInit /\ NoWire /\ NoTask
FormatsNext ==
  \/ WireNext /\ UNCHANGED <<toolVars, stackVars>>
  \/ ToolsNext /\ UNCHANGED <<wireVars, stackVars>>
  \/ author # NoAuthor /\ StackNext /\ UNCHANGED <<wireVars, toolVars>>
FormatsSpec == FormatsInit /\ [][FormatsNext]_<<wireVars, toolVars, stackVars>>

-----------------------------------------------------------------------------
(* What is promised, by what it is about.  Each name is stated where its   *)
(* part is modelled.                                                       *)

(* Wires are bytes, files are files, and every answer and verdict is one   *)
(* the code can give.                                                      *)
FormatsTypeOK == WireTypeOK /\ ToolsTypeOK /\ StackTypeOK

(* What one side writes the other reads, although their schemas and codecs *)
(* differ: derived and descriptor-driven codec (macros lib.rs,             *)
(* proto_codec.rs), readers of another version, the transcoder.  A message *)
(* that is cut is refused or read as a part of itself; of bytes nobody     *)
(* wrote the decoder makes what it can write and read again (codec.rs).    *)
CodecsFaithful ==
  /\ ReaderKeepsFields /\ CarriedLenExact /\ CodecsAgree /\ VariantArrives /\ ServiceRoundTrip
  /\ CutNeverInvents /\ DecodedIsStable

(* The tools agree with each other and with the wire: generator, parser,   *)
(* validator, code generator and diff of .proto files (proto_gen.rs,       *)
(* proto_parse.rs, validate.rs, codegen.rs, diff.rs), the compatibility    *)
(* notion of HasEndpoint (versioning.rs) and the router, the Accept header *)
(* (negotiate.rs).                                                         *)
ToolsAgree ==
  /\ GeneratedReadsBack /\ ClientAndServerAgree /\ GeneratedIsValid /\ WrittenIsParsed
  /\ CodegenKeepsWire /\ ImportsOnce /\ DiffIsSound
  /\ VersionsAgree /\ CompatibleStillServed /\ AcceptHonoured

(* The OpenAPI document describes the server it was derived from, its docs *)
(* stand where they belong, its schemas admit what the types write, and    *)
(* the clients generated from it read that (derive.rs, codegen_v2.rs,      *)
(* codegen_v3.rs, derive(TypewaySchema)).                                  *)
DocumentTruthful ==
  DocumentedAsServed /\ DocsLandOnce /\ CodegensAgree /\ GeneratedReads /\ SchemaAdmits
=============================================================================
