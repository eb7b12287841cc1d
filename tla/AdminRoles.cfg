SPECIFICATION Spec
CONSTANTS
  Users = {ann, bob}
  FirstAdmins = {ann}
  Entries = {e1}
  Requests = {r1, r2, r3}
  Routes = {"admin", "users", "memory"}
INVARIANTS
  GuardFailsOnlyOnStaleCount
  ChangesAreExplained
  LatestEntryTellsRole
PROPERTIES
  RequestsEnd
