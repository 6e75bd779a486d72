SPECIFICATION Spec
CONSTANTS
  Atoms = {a, b}
  NoAtom = NoAtom
  StrayAtom = StrayAtom
  NoKind = NoKind
  Kinds <- LeafKind
  Fields = {}
  FieldType <- LeafSchema
  MaxNodes = 3
  MaxGroupDepth = 2
  MaxListLen = 1
  MaxJournalOps = 6
  MaxReserve = 5
  MaxHeapNodes = 2
  MaxHint = 2
  OpCodes <- GroupCodes
SYMMETRY NameSymmetry
INVARIANTS
  ReservationHolds
  ChildrenAccounted
PROPERTY PointerLossExplained
