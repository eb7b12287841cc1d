SPECIFICATION PatientSpec
CONSTANTS
  Requests = {r1, r2, r3}
  c1 = c1
  c2 = c2
  c3 = c3
  w1 = w1
  u1 = u1
  u2 = u2
  ChatKeys = {c1, c2}
  WidgetKeys = {w1}
  Users = {u1, u2}
  OwnerOf <- MCOwnerOf
  Recall = Recall
  RecallLimit = 1
INVARIANTS
  FullHistory
PROPERTIES
  ImplementsLog
