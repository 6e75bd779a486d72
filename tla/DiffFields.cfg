SPECIFICATION DiffSpec
CONSTANTS
  Atoms = {a, b}
  NoAtom = NoAtom
  StrayAtom = StrayAtom
  NoKind = NoKind
  Kinds <- LinkedKind
  Fields <- LinkField
  FieldType <- OneKindSchema
  MaxNodes = 3
  MaxGroupDepth = 1
  MaxListLen = 1
  MaxJournalOps = 6
  MaxReserve = 9
  MaxHeapNodes = 0
  MaxHint = 0
  MaxWritten = 4
  OpCodes <- FieldCodes
INVARIANT AddedNodesGetFields
