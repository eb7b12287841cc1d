SPECIFICATION Spec
CONSTANTS
  Users = {ann, bob}
  FirstAdmins = {ann, bob}
  Entries = {e1}
  Requests = {r1, r2}
  Routes = {"admin"}
INVARIANTS
  LastAdminStays
