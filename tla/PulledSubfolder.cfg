\* A user of one public folder pulls what is in it.
SPECIFICATION Spec
CONSTANTS
  Names <- MCNames
  Dotted = {"..", "v1.0"}
  RestOf <- MCRestOf
  Hosts = {"ann"}
  NameOfHost <- OneHost
  Folders = {"public"}
  OwnerOf <- OneOwner
  KindOf <- OneKind
  TreeOf <- OneTree
  LocalDirs <- OneDirs
  Typed <- OneTyped
INVARIANTS
  PulledFilesArrive
\* The host's process ends when the user quits.
CHECK_DEADLOCK FALSE
