SPECIFICATION LoadSpec
CONSTANTS
  Atoms = {a, b}
  NoAtom = NoAtom
  StrayAtom = StrayAtom
  NoKind = NoKind
  Kinds <- LeafKind
  Fields = {}
  FieldType <- LeafSchema
  Required <- NothingRequired
  MaxNodes = 2
  MaxGroupDepth = 1
  MaxListLen = 1
  MaxJournalOps = 5
  MaxReserve = 3
  MaxHeapNodes = 2
  MaxHint = 1
  MaxEntries = 1
  OpCodes <- GroupCodes
SYMMETRY NameSymmetry
INVARIANTS
  IndexAgreesWithMachine
  ReportAccountsForSlots
  CleanReportMeansSound
  LoadedGraphIsComplete
