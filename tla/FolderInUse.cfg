\* Accesses of two server threads, one after the other or at one time, with
\* pulls and saves.
SPECIFICATION Spec
CONSTANTS
  Threads = {t1, t2}
  Names <- MCNames
  Home <- MCHome
  Subs <- MCSubs
  FilesIn <- MCFilesIn
  MaxAccesses = 3
SYMMETRY ThreadSymmetry
INVARIANTS
  PathComesHome
  TreesArriveWhole
