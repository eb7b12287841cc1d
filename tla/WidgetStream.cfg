SPECIFICATION Spec
CONSTANTS
  MaxSends = 2
  MaxTurns = 2
  MaxCalls = 1
  MaxTokens = 1
  Pieces = {"search", "query", "classify", "title"}
  Replies <- MCReplies
  Indexes <- MCIndexes
INVARIANTS
  NothingLostOnTheWay
  FinishedMeansSaved
  OneVoicePerTurn
  PageIsSettled
  CallsAreAssembled
PROPERTIES
  LoadingEnds
