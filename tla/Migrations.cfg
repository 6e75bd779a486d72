SPECIFICATION Spec
CONSTANTS
  VersionIds = {v1, v2}
  Versions <- SmallVersions
  NodeCount = 1
  NoName = NoName
  MaxSections = 2
  MaxAtoms = 4
  MaxKinds = 2
  MaxFieldsPerKind = 2
INVARIANT TableConforms
PROPERTIES
  VersionsAreKept
  MigrationIsByName
SYMMETRY IdsAlike
