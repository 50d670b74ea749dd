\* A directory with a subdirectory.
CONSTANTS
  Transfer = {1}
  Item <- MCItem
  File <- MCFile
  FileLists <- MCTreeLists
  MsDataPath <- MCMsDataPath
  Kind <- MCKind
  DirName <- MCDirName
  Files <- MCFiles
  RelDir <- MCRelDir
  Name <- MCName
  ChunkCnt <- MCChunkCnt
  MaxWire = 2
SPECIFICATION Spec
CHECK_DEADLOCK FALSE
INVARIANT DirectoriesArrive
