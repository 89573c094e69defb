SPECIFICATION DisclosureSpec
CONSTANTS
  Alphabet <- Letter
  Heaps <- Graphs
  Nodes = {0, 1, 2, 3}
  Root = 0
  Fold <- Folded
  BuiltIn = {"token"}
  Declared = {{}, {"PIN"}, {"blank"}}
  Patterns <- Secrets
  MinScrub = 2
  MaxDepth = 2
  Mark = 20
  Escaped = 21
  Comma = 22
  Colon = 23
  Equals = 24
  Open = 25
  Close = 26
  Null = 27
  Cut = 28
  Digits = {1, 2}
  Spelling <- Spelled
  PlaceNames = {"item"}
  MaxParam = 9
  MaxSummary = 24
  MaxError = 6
  Quote = 100
  Marker = 101
  Unsupported = 102
  Container = 103
  Other = 104
INVARIANTS
  NothingSensitiveRemains
  OutcomeTellsNothingRemoved
  SafeMeansRedacted
  SummaryAgrees
  ReconciledIsTrue
CHECK_DEADLOCK FALSE
