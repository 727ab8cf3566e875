SPECIFICATION Spec
CONSTANTS
  Messages <- MCMessages
  Kinds <- MCKinds
  Kind <- MCKind
  HLen <- MCHLen
  BLen <- MCBLen
  AcceptedKinds <- MCAccepted
  U32 = 32
  MaxSent = 3
  NoHeader = NoHeader
INVARIANTS TypeOK InOrder Aligned NoStall BadFormatJustified NothingLostAtEnd
PROPERTY ImplementsChannel
CHECK_DEADLOCK FALSE
