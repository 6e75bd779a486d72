SPECIFICATION CompactSpec
CONSTANTS
  Atoms = {a, b}
  NoAtom = NoAtom
  StrayAtom = StrayAtom
  NoKind = NoKind
  Kinds <- LeafKind
  Fields = {}
  FieldType <- LeafSchema
  MaxNodes = 3
  MaxGroupDepth = 1
  MaxListLen = 1
  MaxJournalOps = 5
  MaxReserve = 5
  MaxHeapNodes = 2
  MaxHint = 1
  OpCodes <- GroupCodes
INVARIANT HeadroomSurvives
