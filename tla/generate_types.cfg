SPECIFICATION Spec
CONSTANTS
  Main <- MCMain
  Declared <- MCDeclared
  LibrarySegments <- MCLibrarySegments
  AppRouter = "app"
  Decls <- MCDecls
  WellKnown <- MCWellKnown
  Capital <- MCCapital
  Lower <- MCLower
  Depth = 3
  Programs <- GenericPrograms
  Drafts <- GenericPrograms
  Routed <- HasProcedures
  MaxEdits = 0
  None = None
  Truncated = Truncated
  Torn = Torn
INVARIANT TypesExact
