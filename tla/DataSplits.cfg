SPECIFICATION Spec
CONSTANTS
  CoreIssues <- MCCore
  DocsIssues <- MCDocs
  OpenAtFirst <- MCOpen
  RawLabels <- MCRawLabels
  LabelMap <- MCLabelMap
  MaxDocs = 1
  MaxCore = 1
  MaxIo = 2
  MaxRuns = 2
  MaxFetches = 2
INVARIANTS
  SplitsAreTemporal
  CorpusIsClean
