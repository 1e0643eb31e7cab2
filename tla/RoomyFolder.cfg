\* Everything a careful user does with a container.
SPECIFICATION RoomySpec
CONSTANTS
  Limit = 1000
  ExtraData = 2
  PtrSize = 1
  Dirs <- MCDirs
  Root = "root"
  Parent <- MCParent
  Under <- MCUnder
  Names = {"a", "b"}
  Sizes = {1, 6}
  FreshData = {0}
  GarbageSizes = {4}
  FirstOffset = 2
  RecordSize = 3
  DiskSize = 60
  Sources <- MCSources
  MaxAdds = 4
INVARIANTS
  FilesReadBack
  FreeSpaceIsFree
  NoSpaceLeaks
  RecordClearOfBlocks
  CleanMeansSaved
  ClosedContainerIsWhole
PROPERTIES
  ImplementsStore
