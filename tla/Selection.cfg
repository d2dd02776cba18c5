SPECIFICATION Spec
CONSTANTS
  Providers <- MCProviders
  Models <- MCModels
  Provider <- MCProvider
  Priority <- MCPriority
  Size <- MCSize
  LastResort = {"cerebras"}
  Views <- MCViews
  Threads = {t1, t2}
INVARIANT TypeOK
PROPERTY AccessErrorsSink
PROPERTY EveryEqualIsUsed
