\* Two transfers to one service: of different lists, or of files of the same name.
CONSTANTS
  Transfer = {1, 2}
  Item <- MCItem
  File <- MCFile
  FileLists <- MCLists
  MsDataPath <- MCMsDataPath
  Kind <- MCKind
  DirName <- MCDirName
  Files <- MCFiles
  RelDir <- MCRelDir
  Name <- MCName
  ChunkCnt <- MCChunkCnt
  MaxWire = 1
SPECIFICATION FairSpec
CHECK_DEADLOCK FALSE
INVARIANTS OKIsComplete OKFilesStay FailsForAReason
PROPERTIES KanbanIsHandedOver TransferEnds
