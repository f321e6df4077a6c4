SPECIFICATION Spec
CONSTANTS
  TotalSectors = 22
  ReservedSectors = 1
  NumFats = 2
  FatSize = 3
  SectorsPerCluster = 2
  BytesPerSector = 2
  Fat12 = TRUE
  CellsPerSector = 4
  NrFiles = 3
  HostFile = 1
  HostCluster = 3
  HostSize = 3
  Values <- MCValues
  WriteSizes <- MCWriteSizes
  ReadSizes <- MCReadSizes
  SeekOffsets <- MCSeekOffsets
  Word = 65536
  MaxCalls = 7
INVARIANTS
  TypeOK
  FatSound
  CopiesAgree
  SizeFitsChain
  TableNotStale
  EntryUpToDate
PROPERTIES
  KeepsFiles
  CallsEnd
