\* Everything any user does with a container.
SPECIFICATION Spec
CONSTANTS
  Limit = 1000
  ExtraData = 2
  PtrSize = 1
  Dirs <- DeepDirs
  Root = "root"
  Parent <- DeepParent
  Under <- DeepUnder
  Names = {"a"}
  Sizes = {5, 6}
  FreshData = {0, 4}
  GarbageSizes = {4}
  FirstOffset = 2
  RecordSize = 3
  DiskSize = 60
  Sources <- DeepSources
  MaxAdds = 2
PROPERTIES
  OnlyAddsLoseContainer
\* A container that lost its master record can only be looked at.
CHECK_DEADLOCK FALSE
