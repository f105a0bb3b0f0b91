CONSTANTS
  WordBits = 16
  IntBits = 8
  Families <- AllFamilies
  Tasks <- AllTasks
  ParsesAs <- MCParsesAs
  Apis <- MCStackApis
  Extras <- MCExtras
  Handlers <- MCHandlers
  MaxMounts = 2
  MaxProvides = 2
  MaxLayers = 2
SPECIFICATION FormatsSpec
INVARIANTS
  FormatsTypeOK
  CodecsFaithful
  TransportFaithful
  ToolsAgree
  DocumentTruthful
  StackSound
