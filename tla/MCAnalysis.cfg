CONSTANTS
  TypeOf <- MCTypeOf
  SignalOf <- MCSignalOf
  Substitutions <- MCSubstitutions
  Declared <- MCDeclared
  UsesLimit = 2
  Width <- MCWidth
  MaxWidth <- MCMaxWidth
  Members = 2
  Texts <- MCTexts
SPECIFICATION Spec
INVARIANTS
  TypeOK
  FeaturesAgreeOnRefs
  UnusedMeansUnreferenced
  DeprecatedMatchesUnused
  JumpsReturn
  ReferencesAgree
  OfferedIdsResolve
  SplitMakesNoDifference
  TokensDecode
  ClimbFindsEnclosingKeys
  AcceptedBucketsAreNew
