SPECIFICATION Spec
CONSTANTS
  a = a
  b = b
  abbr = abbr
  P = P
  g1 = g1
  g2 = g2
  A = A
  B = B
  Ids = {a, b, abbr}
  Short = {abbr}
  Prefix <- MCPrefix
  Goroutines = {g1, g2}
  IdOf <- MCIdOf
  Nothing = Nothing
  TTL = 1
  MaxScan = 1
  Cats = {A, B}
  Results <- MCResults
  Requests = {r1}
  Gone = Gone
  Live = Live
  MaxCycles = 3
INVARIANTS
  TypeOK
  SelfCpuSpansTheGap
PROPERTIES
  OwnPodWhenSteady
  BoundedStaleness
  ImplementsMetricsContract
  ScrapedValuesBelongToACycle
  LookupsReturn
  ProcessEnds
