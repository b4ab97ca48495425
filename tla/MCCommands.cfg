SPECIFICATION Spec
CONSTANTS
  NoFile = NoFile
  Unreadable = Unreadable
  PsiFiles <- MCPsiFiles
  CpuInfos <- MCCpuInfos
  Vendors <- MCVendors
  NodeCounts <- MCNodeCounts
  Blocks <- MCBlocks
  LogicalCores = 8
  NoValue = NoValue
  Programs <- MCPrograms
  Successors <- MCSuccessors
  Vacant = Vacant
  Misses <- MCMisses
  Similarities <- MCSimilarities
  Settings <- MCSettings
  MaxTime = 3
  Cats <- MCCats
  Unknown = Unknown
  NoReport = NoReport
  Cycles <- MCCycles
  MaxCycles = 3
  Pids <- MCPids
  CpuOf <- MCCpuOf
  TopCounts <- MCTopCounts
  Providers <- MCProviders
INVARIANTS
  TypeOK
  ReportMatchesFiles
  CategoryIsStable
  GapIsToTheRival
  MixedProfileShowsInAge
  AdviceListsAgree
  HistoryAgreesWithStream
  SilentDriftIsSlow
  HeaviestAreAnalysed
  AtMostOneLateFrame
PROPERTIES
  EnrichReturns
