\* Folders shared, asked for, saved and loaded.
SPECIFICATION CalmSpec
CONSTANTS
  Paths <- MCPaths
  KindOf <- MCKindOf
  NameOf <- MCNameOf
  Clients = {t1}
INVARIANTS
  TablesReadAlone
  NeverUnlockedTwice
  ServedAgain
PROPERTIES
  SessionIsAsSaved
  ShareReturns
