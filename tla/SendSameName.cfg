\* Two transfers to one service whose files have the same name.
CONSTANTS
  Transfer = {1, 2}
  Item <- MCItem
  File <- MCFile
  FileLists <- MCSameNameLists
  MsDataPath <- MCMsDataPath
  Kind <- MCKind
  DirName <- MCDirName
  Files <- MCFiles
  RelDir <- MCRelDir
  Name <- MCName
  ChunkCnt <- MCChunkCnt
  MaxWire = 2
SPECIFICATION Spec
CHECK_DEADLOCK FALSE
INVARIANT OKFilesExist
