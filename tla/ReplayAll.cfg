SPECIFICATION Spec
CONSTANTS
  Atoms = {a}
  NoAtom = NoAtom
  StrayAtom = StrayAtom
  NoKind = NoKind
  Kinds <- BothKinds
  Fields <- RefField
  FieldType <- RefSchema
  MaxNodes = 2
  MaxGroupDepth = 1
  MaxListLen = 1
  MaxJournalOps = 5
  MaxReserve = 5
  MaxHeapNodes = 1
  MaxHint = 0
  OpCodes <- AllCodes
INVARIANTS
  TypeOK
  SlotsAccounted
  OverrunIsForwardReferences
  LinksClosed
  NameIndexIsNewestLive
  FreeListIsTheDropped
PROPERTY TableAppendOnly
