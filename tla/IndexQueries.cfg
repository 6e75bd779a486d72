SPECIFICATION MCSpec
CONSTANTS
  Names = {5}
  NoAtom = NoAtom
  Kinds <- MCKinds
  NoKind = NoKind
  Fields <- MCFields
  FieldType <- MCFieldType
  Data <- MCData
  MaxNodes = 2
  Pool <- MCPool
  KindName <- MCKindName
  FieldName <- MCFieldName
  Words <- MCWords
  MaxDigits = 2
  MaxCalls = 6
  MaxTable = 3
INVARIANTS
  IndexExplained
  IndexAnswersQueries
  ComparisonsPartition
  ParserFollowsGrammar
