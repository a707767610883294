\* The app, the benchmark suite and a backtest, each in a process of its own.
CONSTANTS
  a = a
  b = b
  north = north
  south = south
  fine = fine
  other = other
  large = large
  bad = bad
  NoFile = NoFile
  File = {fine, other, large, bad}
  Oversized = {large}
  Unreadable = {bad}
  Rss = {1, 2, 3}
  NaT = NaT
  Unparseable = Unparseable
  NaN = NaN
  Missing = Missing
  None = None
  ContextWindowCap = 7
  HorizonMax = 2
  MinHistoryRows = 3
  OutlierIqrMultiplier = 3
  Request = {a, b}
  Capacity = 1
  Uploads <- MCUploads
  Settings <- MCSettings
  ModelOutput <- MCModelOutput
  MaxReboots = 1
  Folds = 2
  ConfiguredRevision = 1
  Series = {north, south}
  PanelHorizon = 2
  PanelOutput <- MCPanelOutput
  BacktestUploads <- MCBacktestUploads
  Configurations <- MCConfigurations
  MinRecommendedFolds = 3
SPECIFICATION Spec
SYMMETRY Interchangeable
INVARIANTS
  PipelineLoadedOnce
  ForecastFollowsTheUpload
  PageAgreesWithPipeline
  PassingSuiteValidates
  FailureIsNotHidden
  NoLeakage
  FoldsTileTheEnd
  SeasonalNaiveIsExact
  FormUsesTheOfferedFile
  SampleIsOfTheRequest
CHECK_DEADLOCK FALSE
