SPECIFICATION LoadSpec
CONSTANTS
  Atoms = {a}
  NoAtom = NoAtom
  StrayAtom = StrayAtom
  NoKind = NoKind
  Kinds <- LinkKind
  Fields <- LinkFields
  FieldType <- LinkSchema
  Required <- RefRequired
  MaxNodes = 2
  MaxGroupDepth = 0
  MaxListLen = 1
  MaxJournalOps = 3
  MaxReserve = 4
  MaxHeapNodes = 1
  MaxHint = 0
  MaxEntries = 0
  OpCodes <- RefCodes
INVARIANTS
  CleanReportMeansSound
