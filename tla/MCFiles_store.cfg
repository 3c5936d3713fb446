SPECIFICATION Spec
CONSTANTS
  a = a  b = b  c = c  f1 = f1  f2 = f2  f3 = f3  f4 = f4  f5 = f5  f6 = f6  r1 = r1  r2 = r2
  Requests = {r1, r2}
  Files = {f1, f2, f3, f4, f5, f6}
  Posted = {f2, f5, f6}
  Skipped = {f6}
  Names = {a, b, c}
  Folders <- AllFolders
  Paths <- AllPaths
  Tables <- SomeTables
  Ids <- SomeIds
  Wide = {b}
  Alike <- LikeA
  NoFile = NoFile
  NoRow = NoRow
SYMMETRY RequestSymmetry
CHECK_DEADLOCK FALSE
INVARIANTS TypeOK StoreMatchesChannel
PROPERTIES VisibilityIsAskedFor  RemovedUnderItsName FolderForgottenOnlyWhenEmptied
