SPECIFICATION Spec
CONSTANTS
  r1 = r1
  r2 = r2
  CoreIssues <- MCCore
  DocsIssues <- MCDocs
  CoreExcluded <- MCExcluded
  DocsExcluded = {}
  Skipped = {}
  Blank <- MCBlank
  PerPage = 2
  MaxRetries = 2
  MaxCore = 2
  MaxDocs = 1
  FirstClosed <- MCFirstClosed
  MaxFetches = 2
  MaxMoves = 1
  Runs <- MCRuns
  Paragraphs <- MCParagraphs
  Comments <- MCComments
  MaxChars = 6
  EmbedBatch = 2
INVARIANTS
  CalmFetchIsComplete
  WholeIssues
  DuplicatesNeedOverlap
  DoneMeansIndexed
PROPERTIES
  FetchEnds
