SPECIFICATION Spec
CONSTANTS
  TotalSectors = 21
  ReservedSectors = 2
  NumFats = 2
  FatSize = 2
  SectorsPerCluster = 2
  BytesPerSector = 2
  Fat12 = FALSE
  CellsPerSector = 4
  NrFiles = 3
  HostFile = 1
  HostCluster = 2
  HostSize = 3
  Values <- MCValues
  WriteSizes <- MCWriteSizes
  ReadSizes <- MCReadSizes
  SeekOffsets <- MCSeekOffsets
  Word = 65536
  MaxCalls = 6
INVARIANTS
  StaysInCluster
