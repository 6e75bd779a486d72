SPECIFICATION ContainerSpec
CONSTANTS
  GroupBase = 8
  MaxGroups = 6
  U16Bytes = 1
  U32Bytes = 2
  U64Bytes = 4
  KnownTags <- MCTags
  OtherTags <- MCOtherTags
  Unknown = 0
  MaxU32 = 255
  MaxSections = 7
  Magic <- MCMagic
  MaxAtoms = 3
  MaxAtomLen = 2
  MaxKinds = 2
  MaxFieldsPerKind = 5
  MaxNodes = 3
  MaxListLen = 2
  MaxJournalOps = 11
  MaxGroupDepth = 1
  MaxReserve = 20
  Drafts <- MCDrafts
  Inputs <- MCInputs
  MaxCalls = 2
  MaxCallsBeforeDamage = 0
  DamageBytes = {0, 1, 9, 15}
INVARIANTS
  NumbersAreRead
  WindowsInFile
  FindIsUnambiguous
  AuthoredIsLoaded
  LoadedIsWellFormed
  NothingLeaksIn
