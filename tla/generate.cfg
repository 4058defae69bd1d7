SPECIFICATION FairSpec
CONSTANTS
  Main <- MCMain
  Declared <- MCDeclared
  LibrarySegments <- MCLibrarySegments
  AppRouter = "app"
  Decls <- MCDecls
  WellKnown <- MCWellKnown
  Capital <- MCCapital
  Lower <- MCLower
  Depth = 3
  Programs <- MCPrograms
  Drafts <- MCDrafts
  Routed <- HasProcedures
  MaxEdits = 2
  None = None
  Truncated = Truncated
  Torn = Torn
INVARIANTS TypeOK NamesAgree ChainOrder TypesFaithful FallbackFaithful AtRestFresh
PROPERTY EditsReachOutput
