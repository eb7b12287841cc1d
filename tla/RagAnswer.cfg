SPECIFICATION RagSpec
CONSTANTS
  d1 = d1
  d2 = d2
  d3 = d3
  new = new
  Docs <- MCDocs
  Early <- MCEarly
  RrfK = 60
  RetrieveK = 3
  RerankK = 2
  Alphas = {0, 6, 10}
  Conditions <- MCConditions
  Scores = {1, 2}
INVARIANTS
  NotFoundIsTrue
  FusionRespectsBothRankings
  ContextsAreTheBest
