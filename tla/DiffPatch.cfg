SPECIFICATION DiffSpec
CONSTANTS
  Atoms = {a, b}
  NoAtom = NoAtom
  StrayAtom = StrayAtom
  NoKind = NoKind
  Kinds <- PlainAndLinked
  Fields <- LinkField
  FieldType <- LinkedSchema
  MaxNodes = 5
  MaxGroupDepth = 1
  MaxListLen = 1
  MaxJournalOps = 12
  MaxReserve = 9
  MaxHeapNodes = 0
  MaxHint = 0
  MaxWritten = 5
  OpCodes <- DiffCodes
INVARIANTS
  RoundTrip
  PatchKeepsPointers
  PatchLeavesNames
  PatchRebuilds
SYMMETRY NamesAlike
