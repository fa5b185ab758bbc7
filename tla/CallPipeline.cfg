\* Calls, rules and tools against a shared bus.
SPECIFICATION FairSpec
CONSTANTS
  c1 = c1
  c2 = c2
  Writers <- TwoCalls
  Records <- AllRecords
  Size <- UnitSize
  NoRecord = NoRecord
  Capacity = 1
  MaxBytes = 0
  Id <- OwnId
  Embedding <- NoEmbedding
  PointTags <- NoTags
  MaxFloat = 0
  ToolFns <- ThreeFns
  CapabilityIds <- NetCapability
  Plan <- Plans
  Types <- CallOrEvent
  Implemented <- CallOnly
  Rules <- AllowAndEscalate
  Default = "deny"
  Observers <- AuditObserver
  Emitters <- GovernanceEmitter
  FirstTools <- EchoOnly
  BuilderCalls <- GivenEcho
INVARIANTS
  TypeOK
  OnlyWhatPolicyAllowed
  TranscriptInOrder
  InboundFirst
PROPERTY
  CallsEnd
