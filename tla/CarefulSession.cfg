\* A user who keeps clear of what misleads visits two hosts.
SPECIFICATION CarefulSpec
CONSTANTS
  Names <- MCNames
  Dotted = {"..", "v1.0"}
  RestOf <- MCRestOf
  Hosts = {"ann", "bob"}
  NameOfHost <- MCNameOfHost
  Folders = {"public", "vault", "other", "odd"}
  OwnerOf <- MCOwnerOf
  KindOf <- MCKindOf
  TreeOf <- MCTreeOf
  LocalDirs <- MCLocalDirs
  Typed <- MCTyped
INVARIANTS
  SessionAgrees
  SavedAsNamed
PROPERTIES
  ImplementsStages
\* The host's process ends when the user quits.
CHECK_DEADLOCK FALSE
