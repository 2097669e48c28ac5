CONSTANTS
  INT_MAX = 2147483647
  NJobs = 3
  NMachines = 3
  JobTimes <- Times
  Rows <- PackingRows
  Load <- MCLoad
  NVertices = 4
  NColors = 4
  M = 3
  N = 3
  zeroheight = 1
  oneheight = 2
  Addr = {a1, a2}
  MaxConss = 3
  MaxData = 4
  MaxGen = 2
SPECIFICATION SpecHandlers
INVARIANTS
  CountsMatch
  CleanBetweenCalls
  FoundIsSymmetric
  NothingMissed
  WideInstanceRight
  ComponentsExact
  ColoursMayBeExchanged
  TowersExact
  TailsMayBeExchanged
  DataLive
  AnswersRight
PROPERTIES
  ImplementsSource
  OthersAreSources
  SearchAdvances
