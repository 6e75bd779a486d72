SPECIFICATION CompactSpec
CONSTANTS
  Atoms = {a}
  NoAtom = NoAtom
  StrayAtom = StrayAtom
  NoKind = NoKind
  Kinds <- RefOrList
  Fields <- LinkField
  FieldType <- LinkSchema
  MaxNodes = 2
  MaxGroupDepth = 2
  MaxListLen = 1
  MaxJournalOps = 4
  MaxReserve = 5
  MaxHeapNodes = 1
  MaxHint = 0
  OpCodes <- CompactCodes
INVARIANTS
  CompactedReplays
  SameStructure
  SameFields
  CompactIsIdempotent
