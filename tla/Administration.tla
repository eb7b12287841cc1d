--------------------------- MODULE Administration ----------------------------
(***************************************************************************)
(* Concurrent requests that change roles and delete memories, and the      *)
(* audit log they leave: update_user_role of app/routes/admin.py, the      *)
(* users router of app/routes/auth.py with on_after_update of              *)
(* app/services/auth.py, delete_entry of app/routes/memory.py, and the     *)
(* repositories they call.                                                 *)
(*                                                                         *)
(* Each request has a session of its own and PostgreSQL runs at its        *)
(* default, READ COMMITTED: a SELECT sees what is committed at that        *)
(* moment, and what was read is not protected until COMMIT.  Within a      *)
(* session an object already loaded is not read again, and an attribute    *)
(* set to the value it was loaded with is not written.                     *)
(*                                                                         *)
(* Audit entries carry created_at = now(), which PostgreSQL takes when the *)
(* transaction begins: at the session's first statement, the loading of    *)
(* the caller.  The log is read by that time (list_audit_logs), so entries *)
(* of overlapping requests may read in another order than they committed.  *)
(***************************************************************************)
EXTENDS Integers, Sequences, FiniteSets

CONSTANTS
  Users,
  FirstAdmins,   \* administrators at the start
  Entries,       \* memory entries at the start
  Requests,      \* bound: every request that is ever sent
  Routes         \* routers that requests are sent to

ASSUME AdminAssumption ==
  /\ IsFiniteSet(Users)
  /\ FirstAdmins \subseteq Users
  /\ FirstAdmins # {}
  /\ Routes \subseteq {"admin", "users", "memory"}

Roles == {"user", "admin"}

VARIABLES
  asked,     \* what each request asks for
  pc,        \* what the server does for it
  seen,      \* the role of the target as its session loaded it
  counted,   \* the administrators it counted
  role,      \* committed: user.role
  entries,   \* committed: memory_entries
  locks,     \* request -> the entry whose row it has deleted, uncommitted
  audit,     \* committed: audit_logs, in commit order; read by "at", the begin of
             \* the transaction that wrote an entry
  clock,     \* transactions begun so far, of those that may write a role entry
  began,     \* request -> the time its transaction began
  changed,   \* requests whose commit changed a role
  stale      \* what some commit relied on though it had changed since it was read

times == <<clock, began>>

vars == <<asked, pc, seen, counted, role, entries, locks, audit, times, changed, stale>>

Unsent == [route |-> "unsent"]
None == "none"

Admins == {u \in Users : role[u] = "admin"}

RoleEntry(r, actor, new) ==
  [action |-> "role_change", request |-> r, actor |-> actor,
   target |-> asked[r].target, new |-> new, at |-> began[r]]

DeletionEntry(r) ==
  [action |-> "deletion", request |-> r, target |-> asked[r].target]

AuditOf(action) == {i \in 1..Len(audit) : audit[i].action = action}

Goto(r, step) == pc' = [pc EXCEPT ![r] = step]

\* created_at of what r will log is now taken.
BeginTransaction(r) ==
  /\ clock' = clock + 1
  /\ began' = [began EXCEPT ![r] = clock + 1]

-----------------------------------------------------------------------------
Init ==
  /\ asked = [r \in Requests |-> Unsent]
  /\ pc = [r \in Requests |-> "unsent"]
  /\ seen = [r \in Requests |-> None]
  /\ counted = [r \in Requests |-> 0]
  /\ role = [u \in Users |-> IF u \in FirstAdmins THEN "admin" ELSE "user"]
  /\ entries = Entries
  /\ locks = [r \in Requests |-> {}]
  /\ audit = <<>>
  /\ clock = 0
  /\ began = [r \in Requests |-> 0]
  /\ changed = {}
  /\ stale = {}

-----------------------------------------------------------------------------
(* PATCH /admin/users/{id}/role.                                           *)

\* current_admin loads the caller and lets administrators through.
AskRole(r, actor, target, new) ==
  /\ pc[r] = "unsent"
  /\ "admin" \in Routes
  /\ role[actor] = "admin"
  /\ asked' = [asked EXCEPT ![r] =
       [route |-> "admin", actor |-> actor, target |-> target, new |-> new]]
  /\ seen' = IF target = actor THEN [seen EXCEPT ![r] = "admin"] ELSE seen
  /\ Goto(r, "load")
  /\ BeginTransaction(r)
  /\ UNCHANGED <<counted, role, entries, locks, audit, changed, stale>>

\* get_by_id; a caller who is the target is in the session already.
LoadTarget(r) ==
  LET found == IF seen[r] = None THEN role[asked[r].target] ELSE seen[r] IN
  /\ pc[r] = "load"
  /\ seen' = [seen EXCEPT ![r] = found]
  /\ Goto(r, IF asked[r].new = "user" /\ found = "admin" THEN "count" ELSE "commit")
  /\ UNCHANGED <<asked, counted, role, entries, locks, audit, times, changed, stale>>

\* Mutant of CountAdmins: off by one.
CountAdmins_OffByOne(r) ==
  /\ pc[r] = "count"
  /\ counted' = [counted EXCEPT ![r] = Cardinality(Admins)]
  /\ Goto(r, IF Cardinality(Admins) < 1 THEN "refused" ELSE "commit")
  /\ UNCHANGED <<asked, seen, role, entries, locks, audit, times, changed, stale>>

\* The last administrator is not demoted: 409.
CountAdmins(r) ==
  /\ pc[r] = "count"
  /\ counted' = [counted EXCEPT ![r] = Cardinality(Admins)]
  /\ Goto(r, IF Cardinality(Admins) <= 1 THEN "refused" ELSE "commit")
  /\ UNCHANGED <<asked, seen, role, entries, locks, audit, times, changed, stale>>

\* What a commit of r writes to user.role, and whether it relied on old reads.
WriteRole(r) ==
  LET t == asked[r].target
      new == asked[r].new IN
  /\ role' = IF new = seen[r] THEN role ELSE [role EXCEPT ![t] = new]
  /\ changed' = IF role' = role THEN changed ELSE changed \cup {r}
  /\ stale' = stale
       \cup (IF role[t] # seen[r] THEN {"role"} ELSE {})
       \cup (IF counted[r] \notin {0, Cardinality(Admins)} THEN {"count"} ELSE {})

\* Mutant of CommitRole: the role is committed before its audit entry is added.
CommitRole_AuditsLater(r) ==
  /\ pc[r] = "commit"
  /\ WriteRole(r)
  /\ Goto(r, "audit")
  /\ UNCHANGED <<asked, seen, counted, entries, locks, audit, times>>

\* The role and its audit entry are committed together.
CommitRole(r) ==
  /\ pc[r] = "commit"
  /\ WriteRole(r)
  /\ audit' = Append(audit, RoleEntry(r, asked[r].actor, asked[r].new))
  /\ Goto(r, "done")
  /\ UNCHANGED <<asked, seen, counted, entries, locks, times>>

-----------------------------------------------------------------------------
(* PATCH of the users router, with a role in the body.                     *)

\* The target is loaded, as the caller or by its id.
AskUpdate(r, target, new) ==
  /\ pc[r] = "unsent"
  /\ "users" \in Routes
  /\ asked' = [asked EXCEPT ![r] = [route |-> "users", target |-> target, new |-> new]]
  /\ seen' = [seen EXCEPT ![r] = role[target]]
  /\ Goto(r, "update")
  /\ UNCHANGED <<counted, role, entries, locks, audit, times, changed, stale>>

\* SQLAlchemyUserDatabase.update sets the attributes and commits; what follows
\* in the session is another transaction.
CommitUpdate(r) ==
  /\ pc[r] = "update"
  /\ WriteRole(r)
  /\ Goto(r, "audit")
  /\ BeginTransaction(r)
  /\ UNCHANGED <<asked, seen, counted, entries, locks, audit>>

\* Mutant of AuditUpdate: the entry carries the role that was loaded.
AuditUpdate_OldRole(r) ==
  /\ pc[r] = "audit"
  /\ audit' = Append(audit, RoleEntry(r, asked[r].target, seen[r]))
  /\ Goto(r, "done")
  /\ UNCHANGED <<asked, seen, counted, role, entries, locks, times, changed, stale>>

\* on_after_update logs the change and commits again; the actor it names is
\* the user that was changed.
AuditUpdate(r) ==
  /\ pc[r] = "audit"
  /\ audit' = Append(audit, RoleEntry(r, asked[r].target, asked[r].new))
  /\ Goto(r, "done")
  /\ UNCHANGED <<asked, seen, counted, role, entries, locks, times, changed, stale>>

-----------------------------------------------------------------------------
(* DELETE /memory/{id}.                                                    *)

\* get_by_id with the caller's id finds the entry: else 404.
AskDeletion(r, e) ==
  /\ pc[r] = "unsent"
  /\ "memory" \in Routes
  /\ e \in entries
  /\ asked' = [asked EXCEPT ![r] = [route |-> "memory", target |-> e]]
  /\ Goto(r, "delete")
  /\ UNCHANGED <<seen, counted, role, entries, locks, audit, times, changed, stale>>

Locked(e) == \E r \in Requests : e \in locks[r]

\* DELETE waits for a transaction that is deleting the row; if that commits,
\* it deletes nothing and says nothing.
DeleteEntry(r) ==
  /\ pc[r] = "delete"
  /\ ~Locked(asked[r].target)
  /\ locks' = [locks EXCEPT ![r] = {asked[r].target} \cap entries]
  /\ Goto(r, "commit_deletion")
  /\ UNCHANGED <<asked, seen, counted, role, entries, audit, times, changed, stale>>

CommitDeletion(r) ==
  /\ pc[r] = "commit_deletion"
  /\ entries' = entries \ locks[r]
  /\ locks' = [locks EXCEPT ![r] = {}]
  /\ audit' = Append(audit, DeletionEntry(r))
  /\ Goto(r, "done")
  /\ UNCHANGED <<asked, seen, counted, role, times, changed, stale>>

-----------------------------------------------------------------------------
Over == {"done", "refused", "failed"}
Open == {"load", "count", "commit", "update", "audit", "delete", "commit_deletion"}

\* Mutant of Fail: the transaction stays open, and with it its locks.
Fail_KeepsLocks(r) ==
  /\ pc[r] \in Open
  /\ Goto(r, "failed")
  /\ UNCHANGED <<asked, seen, counted, role, entries, locks, audit, times, changed, stale>>

\* The database or the process fails; what is uncommitted is rolled back.
Fail(r) ==
  /\ pc[r] \in Open
  /\ Goto(r, "failed")
  /\ locks' = [locks EXCEPT ![r] = {}]
  /\ UNCHANGED <<asked, seen, counted, role, entries, audit, times, changed, stale>>

Step(r) ==
  \/ LoadTarget(r)
  \/ CountAdmins(r)
  \/ CommitRole(r)
  \/ CommitUpdate(r)
  \/ AuditUpdate(r)
  \/ DeleteEntry(r)
  \/ CommitDeletion(r)

Finished ==
  /\ \A r \in Requests : pc[r] \in Over \cup {"unsent"}
  /\ UNCHANGED vars

Next ==
  \/ \E r \in Requests :
       \/ \E actor, target \in Users, new \in Roles : AskRole(r, actor, target, new)
       \/ \E target \in Users, new \in Roles : AskUpdate(r, target, new)
       \/ \E e \in Entries : AskDeletion(r, e)
       \/ Step(r)
       \/ Fail(r)
  \/ Finished

\* A request the server has accepted goes on.
Spec == Init /\ [][Next]_vars /\ \A r \in Requests : WF_vars(Step(r))

-----------------------------------------------------------------------------
Asks ==
  {Unsent}
  \cup [route : {"admin"}, actor : Users, target : Users, new : Roles]
  \cup [route : {"users"}, target : Users, new : Roles]
  \cup [route : {"memory"}, target : Entries]

AuditRows ==
  [action : {"role_change"}, request : Requests, actor : Users, target : Users, new : Roles,
   at : Nat]
  \cup [action : {"deletion"}, request : Requests, target : Entries]

TypeOK ==
  /\ asked \in [Requests -> Asks]
  /\ pc \in [Requests -> {"unsent"} \cup Open \cup Over]
  /\ seen \in [Requests -> Roles \cup {None}]
  /\ counted \in [Requests -> Nat]
  /\ role \in [Users -> Roles]
  /\ entries \subseteq Entries
  /\ locks \in [Requests -> SUBSET Entries]
  /\ audit \in Seq(AuditRows)
  /\ clock \in Nat
  /\ began \in [Requests -> Nat]
  /\ changed \subseteq Requests
  /\ stale \subseteq {"role", "count"}

\* The guard of the last administrator (admin.py:88-94) does all it can do
\* without a lock: the endpoint leaves no administrator only if a request
\* committed on a count that had changed since it was made.  This includes
\* administrators who demote themselves, and requests that fail.  (The users
\* router has no such guard, so its demotions are set apart.)
GuardFailsOnlyOnStaleCount ==
  \/ Admins # {}
  \/ "count" \in stale
  \/ \E r \in changed : asked[r].route = "users" /\ asked[r].new = "user"

\* admin.py:93 "Cannot demote the last admin": there is always an administrator.
LastAdminStays == Admins # {}

\* A role that an administrator's request changed is explained by the audit
\* log at every moment, whatever fails: role and entry are one commit.  A
\* change through the users router is explained when its request has ended
\* normally.
ChangesAreExplained ==
  \A r \in changed : asked[r].route = "admin" \/ pc[r] = "done" =>
    \E i \in AuditOf("role_change") :
      /\ audit[i].request = r
      /\ audit[i].target = asked[r].target
      /\ audit[i].new = asked[r].new

\* Read by its own order, created_at, the audit log's latest entry about a
\* user tells the user's role, as long as no request saved over a role it had
\* not seen, the users router, which audits after the fact, has not touched
\* that user, and no two requests about that user committed in another order
\* than they began: then the role is that of the last commit and the latest
\* entry that of the last begin.  (A request that sets a role to what it had
\* read writes an entry and no role.)
LatestEntryTellsRole ==
  "role" \notin stale =>
    \A u \in Users :
      LET about == {i \in AuditOf("role_change") : audit[i].target = u}
          touched == \E r \in Requests : asked[r].route = "users" /\ asked[r].target = u
          crossed == \E i, j \in about : i < j /\ audit[i].at > audit[j].at
      IN  about # {} /\ ~touched /\ ~crossed =>
            \E i \in about :
              (\A j \in about : audit[j].at <= audit[i].at) /\ audit[i].new = role[u]

\* A memory is gone if and only if its deletion is in the audit log, however
\* deletions of the same memory race and fail.
DeletionsAreAudited ==
  Entries \ entries = {audit[i].target : i \in AuditOf("deletion")}

\* Every accepted request comes to an end, those that wait for a row included.
RequestsEnd == \A r \in Requests : (pc[r] \in Open) ~> (pc[r] \in Over)
==============================================================================
