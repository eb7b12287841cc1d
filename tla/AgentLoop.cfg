SPECIFICATION Spec
CONSTANTS
  u1 = u1
  none = none
  Users <- MCUsers
  Anonymous = none
  InferenceTools <- MCInferenceTools
  MaxTurns = 3
  MaxCalls = 2
INVARIANTS
  ResultsFollowCalls
  AtomicEffects
  ReportsMatchRows
  CleanSession
  AnthropicCanTakeOver
PROPERTIES
  Terminates
  ImplementsContract
