------------------------ MODULE AdministrationProofs -------------------------
(***************************************************************************)
(* What TLAPS proves of Administration, for any users, administrators,     *)
(* memories and requests, and any of the routers.                          *)
(***************************************************************************)
EXTENDS Administration, FiniteSetTheorems, TLAPS

-----------------------------------------------------------------------------
(* Types.                                                                  *)

\* What a request has asked for is known from the step it is at.
AskedOK ==
  \A r \in Requests :
    /\ pc[r] \in {"load", "count", "commit"} => asked[r].route = "admin"
    /\ pc[r] \in {"update", "audit"} => asked[r].route = "users"
    /\ pc[r] \in {"delete", "commit_deletion"} => asked[r].route = "memory"
    /\ pc[r] \in {"count", "commit", "update"} => seen[r] \in Roles

\* The fields of what a request has asked for.
LEMMA AskedFields ==
  ASSUME TypeOK, NEW r \in Requests
  PROVE  /\ asked[r].route \in {"unsent", "admin", "users", "memory"}
         /\ asked[r].route = "admin" => asked[r].actor \in Users
         /\ asked[r].route \in {"admin", "users"} =>
              asked[r].target \in Users /\ asked[r].new \in Roles
         /\ asked[r].route = "memory" => asked[r].target \in Entries
<1>1. asked[r] \in Asks
  BY DEF TypeOK
<1>2. CASE asked[r] \in {Unsent}
  BY <1>2 DEF Unsent
<1>3. CASE asked[r] \in [route : {"admin"}, actor : Users, target : Users, new : Roles]
  BY <1>3
<1>4. CASE asked[r] \in [route : {"users"}, target : Users, new : Roles]
  BY <1>4
<1>5. CASE asked[r] \in [route : {"memory"}, target : Entries]
  BY <1>5
<1>6. QED
  BY <1>1, <1>2, <1>3, <1>4, <1>5 DEF Asks

\* The administrators are a finite set, so counting them gives a number.
LEMMA AdminsFinite ==
  IsFiniteSet(Admins) /\ Cardinality(Admins) \in Nat
<1>1. Admins \subseteq Users
  BY DEF Admins
<1>2. QED
  BY <1>1, AdminAssumption, FS_Subset, FS_CardinalityType

\* The type invariant holds in every state.
THEOREM TypeCorrect == Spec => [](TypeOK /\ AskedOK)
<1> USE DEF Open, Over, Roles, times, BeginTransaction
<1>1. Init => TypeOK /\ AskedOK
  BY DEF Init, TypeOK, AskedOK, Asks, Unsent, AuditRows
<1>2. TypeOK /\ AskedOK /\ [Next]_vars => (TypeOK /\ AskedOK)'
  <2> SUFFICES ASSUME TypeOK, AskedOK, [Next]_vars PROVE (TypeOK /\ AskedOK)'
    OBVIOUS
  <2>1. ASSUME NEW r \in Requests, NEW actor \in Users, NEW target \in Users,
               NEW new \in Roles, AskRole(r, actor, target, new)
        PROVE  (TypeOK /\ AskedOK)'
    <3>1. [route |-> "admin", actor |-> actor, target |-> target, new |-> new] \in Asks
      BY DEF Asks
    <3> QED
      BY <2>1, <3>1 DEF AskRole, TypeOK, AskedOK, Goto
  <2>2. ASSUME NEW r \in Requests, NEW target \in Users, NEW new \in Roles,
               AskUpdate(r, target, new)
        PROVE  (TypeOK /\ AskedOK)'
    <3>1. [route |-> "users", target |-> target, new |-> new] \in Asks
      BY DEF Asks
    <3> QED
      BY <2>2, <3>1 DEF AskUpdate, TypeOK, AskedOK, Goto
  <2>3. ASSUME NEW r \in Requests, NEW e \in Entries, AskDeletion(r, e)
        PROVE  (TypeOK /\ AskedOK)'
    <3>1. [route |-> "memory", target |-> e] \in Asks
      BY DEF Asks
    <3> QED
      BY <2>3, <3>1 DEF AskDeletion, TypeOK, AskedOK, Goto
  <2>4. ASSUME NEW r \in Requests, LoadTarget(r)
        PROVE  (TypeOK /\ AskedOK)'
    <3>1. asked[r].target \in Users
      BY <2>4, AskedFields DEF LoadTarget, AskedOK
    <3>2. (IF seen[r] = None THEN role[asked[r].target] ELSE seen[r]) \in Roles
      BY <3>1 DEF TypeOK
    <3> QED
      BY <2>4, <3>2 DEF LoadTarget, TypeOK, AskedOK, Goto
  <2>5. ASSUME NEW r \in Requests, CountAdmins(r)
        PROVE  (TypeOK /\ AskedOK)'
    BY <2>5, AdminsFinite DEF CountAdmins, TypeOK, AskedOK, Goto
  <2>6. ASSUME NEW r \in Requests, WriteRole(r), asked[r].route \in {"admin", "users"}
        PROVE  /\ role' \in [Users -> Roles]
               /\ changed' \subseteq Requests
               /\ stale' \subseteq {"role", "count"}
    <3>1. asked[r].target \in Users /\ asked[r].new \in Roles
      BY <2>6, AskedFields
    <3>2. role' \in [Users -> Roles]
      BY <2>6, <3>1 DEF WriteRole, TypeOK
    <3>3. changed' \subseteq Requests
      BY <2>6 DEF WriteRole, TypeOK
    <3>4. stale' \subseteq {"role", "count"}
      BY <2>6 DEF WriteRole, TypeOK
    <3> QED
      BY <3>2, <3>3, <3>4
  <2>7. ASSUME NEW r \in Requests, NEW actor \in Users,
               asked[r].route \in {"admin", "users"}
        PROVE  Append(audit, RoleEntry(r, actor, asked[r].new)) \in Seq(AuditRows)
    <3>1. RoleEntry(r, actor, asked[r].new) \in AuditRows
      BY <2>7, AskedFields DEF RoleEntry, AuditRows, TypeOK
    <3> QED
      BY <3>1 DEF TypeOK
  <2>8. ASSUME NEW r \in Requests, CommitRole(r)
        PROVE  (TypeOK /\ AskedOK)'
    <3>1. asked[r].route = "admin" /\ asked[r].actor \in Users
      BY <2>8, AskedFields DEF CommitRole, AskedOK
    <3>2. audit' \in Seq(AuditRows)
      BY <2>7, <2>8, <3>1 DEF CommitRole
    <3>3. /\ role' \in [Users -> Roles]
          /\ changed' \subseteq Requests
          /\ stale' \subseteq {"role", "count"}
      BY <2>6, <2>8, <3>1 DEF CommitRole
    <3> QED
      BY <2>8, <3>2, <3>3 DEF CommitRole, TypeOK, AskedOK, Goto
  <2>9. ASSUME NEW r \in Requests, CommitUpdate(r)
        PROVE  (TypeOK /\ AskedOK)'
    <3>1. asked[r].route = "users"
      BY <2>9 DEF CommitUpdate, AskedOK
    <3>2. /\ role' \in [Users -> Roles]
          /\ changed' \subseteq Requests
          /\ stale' \subseteq {"role", "count"}
      BY <2>6, <2>9, <3>1 DEF CommitUpdate
    <3> QED
      BY <2>9, <3>1, <3>2 DEF CommitUpdate, TypeOK, AskedOK, Goto
  <2>10. ASSUME NEW r \in Requests, AuditUpdate(r)
         PROVE  (TypeOK /\ AskedOK)'
    <3>1. asked[r].route = "users" /\ asked[r].target \in Users
      BY <2>10, AskedFields DEF AuditUpdate, AskedOK
    <3>2. audit' \in Seq(AuditRows)
      BY <2>7, <2>10, <3>1 DEF AuditUpdate
    <3> QED
      BY <2>10, <3>2 DEF AuditUpdate, TypeOK, AskedOK, Goto
  <2>11. ASSUME NEW r \in Requests, DeleteEntry(r)
         PROVE  (TypeOK /\ AskedOK)'
    BY <2>11 DEF DeleteEntry, TypeOK, AskedOK, Goto
  <2>12. ASSUME NEW r \in Requests, CommitDeletion(r)
         PROVE  (TypeOK /\ AskedOK)'
    <3>1. asked[r].target \in Entries
      BY <2>12, AskedFields DEF CommitDeletion, AskedOK
    <3>2. DeletionEntry(r) \in AuditRows
      BY <3>1 DEF DeletionEntry, AuditRows
    <3>3. audit' \in Seq(AuditRows)
      BY <2>12, <3>2 DEF CommitDeletion, TypeOK
    <3> QED
      BY <2>12, <3>3 DEF CommitDeletion, TypeOK, AskedOK, Goto
  <2>13. ASSUME NEW r \in Requests, Fail(r)
         PROVE  (TypeOK /\ AskedOK)'
    BY <2>13 DEF Fail, TypeOK, AskedOK, Goto
  <2>14. CASE UNCHANGED vars
    BY <2>14 DEF vars, TypeOK, AskedOK
  <2>15. CASE Finished
    BY <2>14, <2>15 DEF Finished
  <2> QED
    BY <2>1, <2>2, <2>3, <2>4, <2>5, <2>8, <2>9, <2>10, <2>11, <2>12, <2>13,
       <2>14, <2>15 DEF Next, Step
<1>3. QED
  BY <1>1, <1>2, PTL DEF Spec

-----------------------------------------------------------------------------
(* The last administrator.                                                 *)

\* A request that is about to demote an administrator has counted at least two,
\* and only requests under way have changed roles.
CountInv ==
  \A r \in Requests :
    /\ pc[r] = "commit" /\ asked[r].route = "admin" /\ asked[r].new = "user"
         /\ seen[r] = "admin" => counted[r] >= 2
    /\ r \in changed => pc[r] # "unsent"

\* What has been asked does not change once the request is under way.
LEMMA AskedIsFixed ==
  ASSUME TypeOK, [Next]_vars, NEW r \in Requests, pc[r] # "unsent"
  PROVE  asked'[r] = asked[r]
<1>1. ASSUME NEW q \in Requests, NEW actor \in Users, NEW target \in Users,
             NEW new \in Roles, AskRole(q, actor, target, new)
      PROVE  asked'[r] = asked[r]
  BY <1>1 DEF AskRole, TypeOK
<1>2. ASSUME NEW q \in Requests, NEW target \in Users, NEW new \in Roles,
             AskUpdate(q, target, new)
      PROVE  asked'[r] = asked[r]
  BY <1>2 DEF AskUpdate, TypeOK
<1>3. ASSUME NEW q \in Requests, NEW e \in Entries, AskDeletion(q, e)
      PROVE  asked'[r] = asked[r]
  BY <1>3 DEF AskDeletion, TypeOK
<1>4. CASE asked' = asked
  BY <1>4
<1>5. QED
  BY <1>1, <1>2, <1>3, <1>4
  DEF Next, Step, LoadTarget, CountAdmins, CommitRole, CommitUpdate, AuditUpdate,
      DeleteEntry, CommitDeletion, Fail, Finished, vars

\* Every step preserves the invariant of the counts.
LEMMA CountStep == TypeOK /\ AskedOK /\ CountInv /\ [Next]_vars => CountInv'
<1> SUFFICES ASSUME TypeOK, AskedOK, CountInv, [Next]_vars PROVE CountInv'
  OBVIOUS
<1> USE DEF TypeOK, CountInv, Goto
<1>1. ASSUME NEW r \in Requests, NEW actor \in Users, NEW target \in Users,
             NEW new \in Roles, AskRole(r, actor, target, new)
      PROVE  CountInv'
  BY <1>1 DEF AskRole
<1>2. ASSUME NEW r \in Requests, NEW target \in Users, NEW new \in Roles,
             AskUpdate(r, target, new)
      PROVE  CountInv'
  BY <1>2 DEF AskUpdate
<1>3. ASSUME NEW r \in Requests, NEW e \in Entries, AskDeletion(r, e)
      PROVE  CountInv'
  BY <1>3 DEF AskDeletion
<1>4. ASSUME NEW r \in Requests, LoadTarget(r) PROVE CountInv'
  BY <1>4 DEF LoadTarget
<1>5. ASSUME NEW r \in Requests, CountAdmins(r) PROVE CountInv'
  BY <1>5, AdminsFinite DEF CountAdmins
<1>6. ASSUME NEW r \in Requests,
             CommitRole(r) \/ CommitUpdate(r) \/ AuditUpdate(r) \/ DeleteEntry(r)
               \/ CommitDeletion(r) \/ Fail(r)
      PROVE  CountInv'
  <2>1. changed' \subseteq changed \cup {r} /\ pc'[r] # "unsent"
    BY <1>6 DEF CommitRole, CommitUpdate, WriteRole, AuditUpdate, DeleteEntry,
                CommitDeletion, Fail
  <2> QED
    BY <1>6, <2>1
    DEF CommitRole, CommitUpdate, AuditUpdate, DeleteEntry, CommitDeletion, Fail
<1>7. CASE UNCHANGED vars \/ Finished
  BY <1>7 DEF vars, Finished
<1> QED
  BY <1>1, <1>2, <1>3, <1>4, <1>5, <1>6, <1>7 DEF Next, Step

\* If a commit of the endpoint leaves no administrator, its count was stale.
LEMMA LastDemotion ==
  ASSUME TypeOK, AskedOK, CountInv, NEW r \in Requests, CommitRole(r),
         Admins # {}, Admins' = {}
  PROVE  "count" \in stale'
<1> DEFINE t == asked[r].target
<1>1. /\ asked[r].route = "admin" /\ t \in Users /\ asked[r].new \in Roles
      /\ seen[r] \in Roles
  BY AskedFields DEF CommitRole, AskedOK
<1>2. role' # role
  BY DEF Admins
<1>3. asked[r].new # seen[r] /\ role' = [role EXCEPT ![t] = asked[r].new]
  BY <1>2 DEF CommitRole, WriteRole
<1>4. asked[r].new = "user" /\ seen[r] = "admin"
  <2>1. role'[t] = asked[r].new
    BY <1>1, <1>3 DEF TypeOK
  <2> QED
    BY <1>1, <1>3, <2>1 DEF Admins, Roles
<1>5. Admins \subseteq {t}
  BY <1>1, <1>3 DEF Admins, TypeOK
<1>6. Cardinality(Admins) <= 1
  BY <1>5, FS_Singleton, FS_Subset, FS_CardinalityType, AdminsFinite
<1>7. counted[r] >= 2 /\ counted[r] \in Nat
  BY <1>1, <1>4 DEF CommitRole, CountInv, TypeOK
<1>8. counted[r] \notin {0, Cardinality(Admins)}
  BY <1>6, <1>7, AdminsFinite
<1>9. QED
  BY <1>8 DEF CommitRole, WriteRole

\* The endpoint leaves no administrator only if some request committed on a
\* count of the administrators that had changed since.
THEOREM GuardIsAsGoodAsItsCount == Spec => []GuardFailsOnlyOnStaleCount
<1>1. Init => CountInv /\ GuardFailsOnlyOnStaleCount
  BY AdminAssumption DEF Init, CountInv, GuardFailsOnlyOnStaleCount, Admins
<1>2. TypeOK /\ AskedOK /\ CountInv /\ GuardFailsOnlyOnStaleCount /\ [Next]_vars
      => GuardFailsOnlyOnStaleCount'
  <2> SUFFICES ASSUME TypeOK, AskedOK, CountInv, GuardFailsOnlyOnStaleCount,
                      [Next]_vars, Admins' = {}
               PROVE  \/ "count" \in stale'
                      \/ \E r \in changed' :
                           asked'[r].route = "users" /\ asked'[r].new = "user"
    BY DEF GuardFailsOnlyOnStaleCount
  <2>1. stale \subseteq stale' /\ changed \subseteq changed'
    BY DEF Next, AskRole, AskUpdate, AskDeletion, Step, LoadTarget, CountAdmins,
           CommitRole, CommitUpdate, WriteRole, AuditUpdate, DeleteEntry,
           CommitDeletion, Fail, Finished, vars
  <2>2. CASE Admins = {} /\ "count" \in stale
    BY <2>1, <2>2
  <2>3. CASE Admins = {} /\ "count" \notin stale
    <3>1. PICK r \in changed : asked[r].route = "users" /\ asked[r].new = "user"
      BY <2>3 DEF GuardFailsOnlyOnStaleCount
    <3>2. r \in Requests
      BY DEF TypeOK
    <3>3. asked'[r].route = "users" /\ asked'[r].new = "user"
      <4>1. pc[r] # "unsent"
        BY <3>1, <3>2 DEF CountInv
      <4> QED
        BY <3>1, <3>2, <4>1, AskedIsFixed
    <3> QED
      BY <2>1, <3>1, <3>3
  <2>4. CASE Admins # {}
    <3>1. role' # role
      BY <2>4 DEF Admins
    <3>2. PICK r \in Requests : CommitRole(r) \/ CommitUpdate(r)
      BY <3>1 DEF Next, AskRole, AskUpdate, AskDeletion, Step, LoadTarget,
        CountAdmins, AuditUpdate, DeleteEntry, CommitDeletion, Fail, Finished, vars
    <3>3. CASE CommitRole(r)
      BY <2>4, <3>3, LastDemotion
    <3>4. CASE CommitUpdate(r)
      <4>1. /\ asked[r].route = "users" /\ asked[r].target \in Users
            /\ asked[r].new \in Roles /\ asked'[r] = asked[r]
        BY <3>4, AskedFields DEF CommitUpdate, AskedOK
      <4>2. r \in changed' /\ role' = [role EXCEPT ![asked[r].target] = asked[r].new]
        BY <3>1, <3>4 DEF CommitUpdate, WriteRole
      <4>3. asked[r].new = "user"
        BY <4>1, <4>2 DEF Admins, TypeOK, Roles
      <4> QED
        BY <4>1, <4>2, <4>3
    <3> QED
      BY <3>2, <3>3, <3>4
  <2> QED
    BY <2>2, <2>3, <2>4
<1>3. QED
  BY <1>1, <1>2, CountStep, TypeCorrect, PTL DEF Spec

-----------------------------------------------------------------------------
(* The audit log.                                                          *)

\* What an append does to the entries of one action.
LEMMA AuditAppend ==
  ASSUME TypeOK, NEW a \in AuditRows, audit' = Append(audit, a), NEW action
  PROVE  /\ Len(audit) \in Nat
         /\ Len(audit') = Len(audit) + 1
         /\ \A i \in 1..Len(audit) : audit'[i] = audit[i]
         /\ audit'[Len(audit) + 1] = a
         /\ AuditOf(action)' = AuditOf(action) \cup
              {i \in {Len(audit) + 1} : a.action = action}
<1>1. /\ Len(audit) \in Nat
      /\ Len(audit') = Len(audit) + 1
      /\ \A i \in 1..Len(audit) : audit'[i] = audit[i]
      /\ audit'[Len(audit) + 1] = a
  BY DEF TypeOK
<1>2. AuditOf(action)' = {i \in 1..(Len(audit) + 1) : audit'[i].action = action}
  BY <1>1 DEF AuditOf
<1>3. QED
  BY <1>1, <1>2 DEF AuditOf

\* A request about to commit a deletion holds the row, unless the memory is
\* gone already.
LockInv ==
  \A r \in Requests :
    /\ locks[r] # {} => pc[r] = "commit_deletion"
    /\ locks[r] \subseteq {asked[r].target}
    /\ pc[r] = "commit_deletion" /\ asked[r].target \in entries =>
         locks[r] = {asked[r].target}

\* Memories whose deletion the log records.
Recorded == {audit[i].target : i \in AuditOf("deletion")}

\* A memory is gone if and only if the audit log records its deletion, however
\* requests that delete the same memory race or fail.
THEOREM DeletionsAreRecorded == Spec => []DeletionsAreAudited
<1>1. Init => LockInv /\ DeletionsAreAudited
  BY DEF Init, LockInv, DeletionsAreAudited, AuditOf
<1>2. TypeOK /\ AskedOK /\ LockInv /\ [Next]_vars => LockInv'
  <2> SUFFICES ASSUME TypeOK, AskedOK, LockInv, [Next]_vars PROVE LockInv'
    OBVIOUS
  <2> USE DEF TypeOK, LockInv, Goto
  <2>1. ASSUME NEW r \in Requests,
               \/ \E a, t \in Users, n \in Roles : AskRole(r, a, t, n)
               \/ \E t \in Users, n \in Roles : AskUpdate(r, t, n)
               \/ \E e \in Entries : AskDeletion(r, e)
        PROVE  LockInv'
    <3>1. pc[r] = "unsent" /\ locks' = locks /\ entries' = entries
      BY <2>1 DEF AskRole, AskUpdate, AskDeletion
    <3>2. locks[r] = {}
      BY <3>1
    <3>3. PICK x : asked' = [asked EXCEPT ![r] = x]
      BY <2>1 DEF AskRole, AskUpdate, AskDeletion
    <3>4. PICK y : y # "commit_deletion" /\ pc' = [pc EXCEPT ![r] = y]
      BY <2>1 DEF AskRole, AskUpdate, AskDeletion
    <3> QED
      BY <3>1, <3>2, <3>3, <3>4
  <2>2. ASSUME NEW r \in Requests,
               \/ LoadTarget(r) \/ CountAdmins(r) \/ CommitRole(r)
               \/ CommitUpdate(r) \/ AuditUpdate(r)
        PROVE  LockInv'
    BY <2>2 DEF LoadTarget, CountAdmins, CommitRole, CommitUpdate, AuditUpdate
  <2>3. ASSUME NEW r \in Requests, DeleteEntry(r) PROVE LockInv'
    BY <2>3 DEF DeleteEntry
  <2>4. ASSUME NEW r \in Requests, CommitDeletion(r) PROVE LockInv'
    BY <2>4 DEF CommitDeletion
  <2>5. ASSUME NEW r \in Requests, Fail(r) PROVE LockInv'
    BY <2>5 DEF Fail
  <2>6. CASE UNCHANGED vars \/ Finished
    BY <2>6 DEF vars, Finished
  <2> QED
    BY <2>1, <2>2, <2>3, <2>4, <2>5, <2>6 DEF Next, Step
<1>3. TypeOK /\ AskedOK /\ LockInv /\ DeletionsAreAudited /\ [Next]_vars
      => DeletionsAreAudited'
  <2> SUFFICES ASSUME TypeOK, AskedOK, LockInv, DeletionsAreAudited, [Next]_vars
               PROVE  Entries \ entries' = Recorded'
    BY DEF DeletionsAreAudited, Recorded
  <2>1. Entries \ entries = Recorded
    BY DEF DeletionsAreAudited, Recorded
  <2>2. CASE UNCHANGED <<entries, audit>>
    BY <2>1, <2>2 DEF Recorded, AuditOf
  <2>3. ASSUME NEW r \in Requests, NEW actor \in Users, entries' = entries,
               asked[r].route \in {"admin", "users"},
               audit' = Append(audit, RoleEntry(r, actor, asked[r].new))
        PROVE  Entries \ entries' = Recorded'
    <3> DEFINE a == RoleEntry(r, actor, asked[r].new)
    <3>1. a \in AuditRows /\ a.action # "deletion"
      BY <2>3, AskedFields DEF RoleEntry, AuditRows, TypeOK
    <3>2. /\ AuditOf("deletion")' = AuditOf("deletion")
          /\ \A i \in AuditOf("deletion") : audit'[i] = audit[i]
      BY <2>3, <3>1, AuditAppend DEF AuditOf
    <3> QED
      BY <2>1, <2>3, <3>2 DEF Recorded
  <2>4. ASSUME NEW r \in Requests, CommitDeletion(r)
        PROVE  Entries \ entries' = Recorded'
    <3> DEFINE a == DeletionEntry(r)
               e == asked[r].target
    <3>1. e \in Entries
      BY <2>4, AskedFields DEF CommitDeletion, AskedOK
    <3>2. a \in AuditRows /\ a.action = "deletion" /\ a.target = e
      BY <3>1 DEF DeletionEntry, AuditRows
    <3>3. audit' = Append(audit, a)
      BY <2>4 DEF CommitDeletion
    <3>4. /\ AuditOf("deletion")' = AuditOf("deletion") \cup {Len(audit) + 1}
          /\ \A i \in AuditOf("deletion") : audit'[i] = audit[i]
          /\ audit'[Len(audit) + 1] = a
      BY <3>2, <3>3, AuditAppend DEF AuditOf
    <3>5. Recorded' = Recorded \cup {e}
      BY <3>2, <3>4 DEF Recorded
    <3>6. entries' = entries \ {e}
      BY <2>4 DEF CommitDeletion, LockInv
    <3> QED
      BY <2>1, <3>1, <3>5, <3>6
  <2>5. ASSUME NEW r \in Requests, CommitRole(r)
        PROVE  Entries \ entries' = Recorded'
    BY <2>3, <2>5, AskedFields DEF CommitRole, AskedOK
  <2>6. ASSUME NEW r \in Requests, AuditUpdate(r)
        PROVE  Entries \ entries' = Recorded'
    BY <2>3, <2>6, AskedFields DEF AuditUpdate, AskedOK
  <2> QED
    BY <2>2, <2>4, <2>5, <2>6
    DEF Next, Step, AskRole, AskUpdate, AskDeletion, LoadTarget, CountAdmins,
        CommitUpdate, DeleteEntry, Fail, Finished, vars
<1>4. QED
  BY <1>1, <1>2, <1>3, TypeCorrect, PTL DEF Spec

\* The audit log has an entry that explains the role change of r.
Explained(r) ==
  \E i \in AuditOf("role_change") :
    /\ audit[i].request = r
    /\ audit[i].target = asked[r].target
    /\ audit[i].new = asked[r].new

\* Where a request that has changed a role can be.
ChangedInv ==
  \A r \in changed : pc[r] \in {"audit", "done", "failed"}

\* Every role change made by an administrator's request is explained by the
\* audit log at once, and every other one when its request has ended normally.
THEOREM RoleChangesAreExplained == Spec => []ChangesAreExplained
<1>1. Init => ChangedInv /\ ChangesAreExplained
  BY DEF Init, ChangedInv, ChangesAreExplained
<1>2. TypeOK /\ ChangedInv /\ ChangesAreExplained /\ AskedOK /\ [Next]_vars
      => (ChangedInv /\ ChangesAreExplained)'
  <2> SUFFICES ASSUME TypeOK, ChangedInv, ChangesAreExplained, AskedOK, [Next]_vars
               PROVE  /\ ChangedInv'
                      /\ \A r \in changed' :
                           asked'[r].route = "admin" \/ pc'[r] = "done" => Explained(r)'
    BY DEF ChangesAreExplained, Explained, AuditOf
  <2>1. \A r \in changed : r \in Requests /\ asked'[r] = asked[r]
    BY AskedIsFixed DEF ChangedInv, TypeOK
  <2>2. \A r \in changed : asked[r].route = "admin" \/ pc[r] = "done" => Explained(r)
    BY DEF ChangesAreExplained, Explained
  <2>3. ASSUME audit' = audit
        PROVE  \A r \in changed : Explained(r) => Explained(r)'
    BY <2>1, <2>3 DEF Explained, AuditOf
  <2>4. ASSUME NEW a \in AuditRows, audit' = Append(audit, a)
        PROVE  \A r \in changed : Explained(r) => Explained(r)'
    <3> SUFFICES ASSUME NEW r \in changed, Explained(r) PROVE Explained(r)'
      OBVIOUS
    <3>1. PICK i \in AuditOf("role_change") :
            /\ audit[i].request = r
            /\ audit[i].target = asked[r].target
            /\ audit[i].new = asked[r].new
      BY DEF Explained
    <3>2. i \in AuditOf("role_change")' /\ audit'[i] = audit[i]
      BY <2>4, <3>1, AuditAppend DEF AuditOf
    <3> QED
      BY <2>1, <3>1, <3>2 DEF Explained
  <2>5. ASSUME NEW q \in Requests, NEW actor \in Users, asked'[q] = asked[q],
               asked[q].route \in {"admin", "users"},
               audit' = Append(audit, RoleEntry(q, actor, asked[q].new))
        PROVE  /\ RoleEntry(q, actor, asked[q].new) \in AuditRows
               /\ Explained(q)'
    <3> DEFINE a == RoleEntry(q, actor, asked[q].new)
    <3>1. /\ a \in AuditRows /\ a.action = "role_change" /\ a.request = q
          /\ a.target = asked[q].target /\ a.new = asked[q].new
      BY <2>5, AskedFields DEF RoleEntry, AuditRows, TypeOK
    <3>2. /\ Len(audit) + 1 \in AuditOf("role_change")'
          /\ audit'[Len(audit) + 1] = a
      BY <2>5, <3>1, AuditAppend
    <3> QED
      BY <2>5, <3>1, <3>2 DEF Explained
  <2>6. ASSUME NEW q \in Requests, CommitRole(q)
        PROVE  /\ ChangedInv'
               /\ \A r \in changed' :
                    asked'[r].route = "admin" \/ pc'[r] = "done" => Explained(r)'
    <3>1. /\ asked[q].actor \in Users /\ asked[q].route = "admin" /\ asked'[q] = asked[q]
          /\ audit' = Append(audit, RoleEntry(q, asked[q].actor, asked[q].new))
          /\ pc' = [pc EXCEPT ![q] = "done"]
          /\ changed' \subseteq changed \cup {q}
      BY <2>6, AskedFields DEF CommitRole, AskedOK, Goto, WriteRole
    <3>2. RoleEntry(q, asked[q].actor, asked[q].new) \in AuditRows /\ Explained(q)'
      BY <2>5, <3>1
    <3>3. ChangedInv'
      BY <3>1 DEF ChangedInv, TypeOK
    <3>4. ASSUME NEW r \in changed', r # q, asked'[r].route = "admin" \/ pc'[r] = "done"
          PROVE  Explained(r)'
      <4>1. r \in changed /\ (asked[r].route = "admin" \/ pc[r] = "done")
        BY <2>1, <3>1, <3>4 DEF TypeOK
      <4> QED
        BY <2>2, <2>4, <3>1, <3>2, <4>1
    <3> QED
      BY <3>2, <3>3, <3>4
  <2>7. ASSUME NEW q \in Requests, AuditUpdate(q)
        PROVE  /\ ChangedInv'
               /\ \A r \in changed' :
                    asked'[r].route = "admin" \/ pc'[r] = "done" => Explained(r)'
    <3>1. /\ asked[q].target \in Users /\ asked[q].route = "users" /\ asked'[q] = asked[q]
          /\ audit' = Append(audit, RoleEntry(q, asked[q].target, asked[q].new))
          /\ pc' = [pc EXCEPT ![q] = "done"]
          /\ changed' = changed
      BY <2>7, AskedFields DEF AuditUpdate, AskedOK, Goto
    <3>2. RoleEntry(q, asked[q].target, asked[q].new) \in AuditRows /\ Explained(q)'
      BY <2>5, <3>1
    <3>3. ChangedInv'
      BY <3>1 DEF ChangedInv, TypeOK
    <3>4. ASSUME NEW r \in changed', r # q, asked'[r].route = "admin" \/ pc'[r] = "done"
          PROVE  Explained(r)'
      <4>1. r \in changed /\ (asked[r].route = "admin" \/ pc[r] = "done")
        BY <2>1, <3>1, <3>4 DEF TypeOK
      <4> QED
        BY <2>2, <2>4, <3>1, <3>2, <4>1
    <3> QED
      BY <3>2, <3>3, <3>4
  <2>8. ASSUME NEW q \in Requests, CommitUpdate(q)
        PROVE  /\ ChangedInv'
               /\ \A r \in changed' :
                    asked'[r].route = "admin" \/ pc'[r] = "done" => Explained(r)'
    <3>1. /\ asked[q].route = "users" /\ asked'[q] = asked[q] /\ audit' = audit
          /\ pc' = [pc EXCEPT ![q] = "audit"]
          /\ changed' \subseteq changed \cup {q}
      BY <2>8 DEF CommitUpdate, AskedOK, Goto, WriteRole
    <3>2. ChangedInv'
      BY <3>1 DEF ChangedInv, TypeOK
    <3>3. ASSUME NEW r \in changed', asked'[r].route = "admin" \/ pc'[r] = "done"
          PROVE  Explained(r)'
      <4>1. r \in changed /\ (asked[r].route = "admin" \/ pc[r] = "done")
        BY <2>1, <3>1, <3>3 DEF TypeOK
      <4> QED
        BY <2>2, <2>3, <3>1, <4>1
    <3> QED
      BY <3>2, <3>3
  <2>9. ASSUME NEW q \in Requests, CommitDeletion(q)
        PROVE  /\ ChangedInv'
               /\ \A r \in changed' :
                    asked'[r].route = "admin" \/ pc'[r] = "done" => Explained(r)'
    <3>1. /\ pc[q] = "commit_deletion" /\ asked[q].target \in Entries
          /\ audit' = Append(audit, DeletionEntry(q))
          /\ pc' = [pc EXCEPT ![q] = "done"] /\ changed' = changed
      BY <2>9, AskedFields DEF CommitDeletion, AskedOK, Goto
    <3>2. DeletionEntry(q) \in AuditRows
      BY <3>1 DEF DeletionEntry, AuditRows
    <3>3. q \notin changed
      BY <3>1 DEF ChangedInv
    <3>4. \A r \in changed : pc'[r] = pc[r]
      BY <3>1, <3>3 DEF TypeOK
    <3> QED
      BY <2>1, <2>2, <2>4, <3>1, <3>2, <3>4 DEF ChangedInv
  <2>10. CASE /\ audit' = audit /\ changed' = changed
              /\ \A r \in changed : pc'[r] \in {pc[r], "failed"}
    BY <2>1, <2>2, <2>3, <2>10 DEF ChangedInv
  <2>11. ASSUME NEW q \in Requests, audit' = audit, changed' = changed,
                pc[q] \notin {"audit", "done", "failed"},
                NEW step, Goto(q, step)
         PROVE  \A r \in changed : pc'[r] \in {pc[r], "failed"}
    BY <2>11 DEF Goto, ChangedInv, TypeOK
  <2>12. ASSUME NEW q \in Requests, Fail(q)
         PROVE  /\ audit' = audit /\ changed' = changed
                /\ \A r \in changed : pc'[r] \in {pc[r], "failed"}
    BY <2>12 DEF Fail, Goto, TypeOK
  <2>13. ASSUME NEW q \in Requests,
                \/ \E actor, t \in Users, new \in Roles : AskRole(q, actor, t, new)
                \/ \E t \in Users, new \in Roles : AskUpdate(q, t, new)
                \/ \E e \in Entries : AskDeletion(q, e)
                \/ LoadTarget(q) \/ CountAdmins(q) \/ DeleteEntry(q)
         PROVE  /\ audit' = audit /\ changed' = changed
                /\ pc[q] \notin {"audit", "done", "failed"}
                /\ \E step : Goto(q, step)
    BY <2>13 DEF AskRole, AskUpdate, AskDeletion, LoadTarget, CountAdmins, DeleteEntry
  <2>14. CASE UNCHANGED vars \/ Finished
    BY <2>10, <2>14 DEF vars, Finished
  <2> QED
    BY <2>6, <2>7, <2>8, <2>9, <2>10, <2>11, <2>12, <2>13, <2>14 DEF Next, Step
<1>3. QED
  BY <1>1, <1>2, TypeCorrect, PTL DEF Spec

\* The entries about a user's role, and whether the users router has been
\* asked to change it.
About(u) == {i \in AuditOf("role_change") : audit[i].target = u}

Touched(u) == \E r \in Requests : asked[r].route = "users" /\ asked[r].target = u

\* The last committed entry about the role of u is true.
Tells(u) ==
  About(u) # {} => \E i \in About(u) : (\A j \in About(u) : j <= i) /\ audit[i].new = role[u]

\* A request that has not been sent asks for nothing.
UnsentInv == \A r \in Requests : pc[r] = "unsent" => asked[r] = Unsent

LatestInv == "role" \notin stale => \A u \in Users : Touched(u) \/ Tells(u)

\* The audit entry about a user with the latest created_at tells the user's
\* role, unless a request saved over a role it had not seen, the users router
\* touched the user, or two requests about the user committed in another order
\* than they began.  The last committed entry is true in any order
\* (LatestInv); where no two cross, it is the latest.
THEOREM LatestEntryIsTrue == Spec => []LatestEntryTellsRole
<1>1. Init => UnsentInv /\ LatestInv
  <2> SUFFICES ASSUME Init PROVE UnsentInv /\ \A u \in Users : About(u) = {}
    BY DEF LatestInv, Tells
  <2> QED
    BY DEF Init, UnsentInv, About, AuditOf
<1>2. TypeOK /\ AskedOK /\ UnsentInv /\ [Next]_vars => UnsentInv'
  <2> SUFFICES ASSUME TypeOK, AskedOK, UnsentInv, [Next]_vars,
                      NEW r \in Requests, pc'[r] = "unsent"
               PROVE  asked'[r] = Unsent
    BY DEF UnsentInv
  <2>1. pc[r] = "unsent" /\ asked'[r] = asked[r]
    BY DEF Next, Step, AskRole, AskUpdate, AskDeletion, LoadTarget, CountAdmins,
           CommitRole, CommitUpdate, AuditUpdate, DeleteEntry, CommitDeletion, Fail,
           Finished, vars, Goto, TypeOK
  <2> QED
    BY <2>1 DEF UnsentInv
<1>3. TypeOK /\ AskedOK /\ UnsentInv /\ LatestInv /\ [Next]_vars => LatestInv'
  <2> SUFFICES ASSUME TypeOK, AskedOK, UnsentInv, LatestInv, [Next]_vars,
                      "role" \notin stale', NEW u \in Users, ~Touched(u)'
               PROVE  Tells(u)'
    BY DEF LatestInv
  <2>1. "role" \notin stale
    BY DEF Next, Step, AskRole, AskUpdate, AskDeletion, LoadTarget, CountAdmins,
           CommitRole, CommitUpdate, AuditUpdate, DeleteEntry, CommitDeletion, Fail,
           Finished, vars, WriteRole
  <2>2. \A r \in Requests : asked[r].route = "users" => asked[r].target # u
    <3> SUFFICES ASSUME NEW r \in Requests, asked[r].route = "users"
                 PROVE  asked[r].target # u
      OBVIOUS
    <3>1. pc[r] # "unsent"
      BY DEF UnsentInv, Unsent
    <3>2. asked'[r] = asked[r]
      BY <3>1, AskedIsFixed
    <3> QED
      BY <3>2 DEF Touched
  <2>3. Tells(u)
    BY <2>1, <2>2 DEF LatestInv, Touched
  <2>4. ASSUME audit' = audit, role'[u] = role[u]
        PROVE  Tells(u)'
    BY <2>3, <2>4 DEF Tells, About, AuditOf
  <2>5. ASSUME NEW a \in AuditRows, audit' = Append(audit, a), role'[u] = role[u],
               a.action = "deletion" \/ a.target # u
        PROVE  Tells(u)'
    <3>1. About(u)' = About(u)
      BY <2>5, AuditAppend DEF About, AuditOf
    <3>2. \A i \in About(u) : audit'[i] = audit[i]
      BY <2>5, AuditAppend DEF About, AuditOf
    <3> QED
      BY <2>3, <2>5, <3>1, <3>2 DEF Tells
  <2>6. ASSUME NEW a \in AuditRows, audit' = Append(audit, a),
               a.action = "role_change", a.target = u, a.new = role'[u]
        PROVE  Tells(u)'
    <3>1. Len(audit) + 1 \in About(u)' /\ audit'[Len(audit) + 1] = a
      BY <2>6, AuditAppend DEF About, AuditOf
    <3>2. \A j \in About(u)' : j <= Len(audit) + 1
      BY <2>6 DEF About, AuditOf, TypeOK
    <3> QED
      BY <2>6, <3>1, <3>2 DEF Tells
  <2>7. ASSUME NEW q \in Requests, CommitRole(q)
        PROVE  Tells(u)'
    <3> DEFINE a == RoleEntry(q, asked[q].actor, asked[q].new)
               t == asked[q].target
    <3>1. /\ t \in Users /\ asked[q].new \in Roles /\ asked[q].actor \in Users
          /\ WriteRole(q) /\ audit' = Append(audit, a)
      BY <2>7, AskedFields DEF CommitRole, AskedOK
    <3>2. a \in AuditRows /\ a.action = "role_change" /\ a.target = t /\ a.new = asked[q].new
      BY <3>1 DEF RoleEntry, AuditRows, TypeOK
    <3>3. role[t] = seen[q]
      BY <3>1 DEF WriteRole
    <3>4. role'[t] = asked[q].new /\ (u # t => role'[u] = role[u])
      BY <3>1, <3>3 DEF WriteRole, TypeOK
    <3>5. CASE t = u
      <4> HIDE DEF a, t
      <4> QED
        BY <2>6, <3>1, <3>2, <3>4, <3>5
    <3>6. CASE t # u
      <4> HIDE DEF a, t
      <4> QED
        BY <2>5, <3>1, <3>2, <3>4, <3>6
    <3> QED
      BY <3>5, <3>6
  <2>8. ASSUME NEW q \in Requests, CommitUpdate(q)
        PROVE  Tells(u)'
    <3>1. asked[q].target \in Users /\ asked[q].target # u
      BY <2>2, <2>8, AskedFields DEF CommitUpdate, AskedOK
    <3>2. audit' = audit /\ role'[u] = role[u]
      BY <2>8, <3>1 DEF CommitUpdate, WriteRole, TypeOK
    <3> QED
      BY <2>4, <3>2
  <2>9. ASSUME NEW q \in Requests, AuditUpdate(q)
        PROVE  Tells(u)'
    <3> DEFINE a == RoleEntry(q, asked[q].target, asked[q].new)
    <3>1. /\ asked[q].target \in Users /\ asked[q].target # u /\ asked[q].new \in Roles
          /\ audit' = Append(audit, a) /\ role' = role
      BY <2>2, <2>9, AskedFields DEF AuditUpdate, AskedOK
    <3>2. a \in AuditRows /\ a.target # u
      BY <3>1 DEF RoleEntry, AuditRows, TypeOK
    <3> HIDE DEF a
    <3> QED
      BY <2>5, <3>1, <3>2
  <2>10. ASSUME NEW q \in Requests, CommitDeletion(q)
         PROVE  Tells(u)'
    <3> DEFINE a == DeletionEntry(q)
    <3>1. asked[q].target \in Entries /\ audit' = Append(audit, a) /\ role' = role
      BY <2>10, AskedFields DEF CommitDeletion, AskedOK
    <3>2. a \in AuditRows /\ a.action = "deletion"
      BY <3>1 DEF DeletionEntry, AuditRows
    <3> HIDE DEF a
    <3> QED
      BY <2>5, <3>1, <3>2
  <2>11. CASE audit' = audit /\ role' = role
    BY <2>4, <2>11
  <2> QED
    BY <2>7, <2>8, <2>9, <2>10, <2>11
    DEF Next, Step, AskRole, AskUpdate, AskDeletion, LoadTarget, CountAdmins,
        DeleteEntry, Fail, Finished, vars
<1>4. TypeOK /\ LatestInv => LatestEntryTellsRole
  <2> SUFFICES ASSUME TypeOK, LatestInv, "role" \notin stale, NEW u \in Users,
                      About(u) # {}, ~Touched(u),
                      ~ \E i, j \in About(u) : i < j /\ audit[i].at > audit[j].at
               PROVE  \E i \in About(u) :
                        /\ \A j \in About(u) : audit[j].at <= audit[i].at
                        /\ audit[i].new = role[u]
    BY DEF LatestEntryTellsRole, Touched, About
  <2>1. PICK i \in About(u) : (\A j \in About(u) : j <= i) /\ audit[i].new = role[u]
    BY DEF LatestInv, Tells
  <2>2. ASSUME NEW j \in About(u) PROVE audit[j].at <= audit[i].at
    <3>1. i \in Nat /\ j \in Nat /\ audit[i].at \in Nat /\ audit[j].at \in Nat
      BY DEF About, AuditOf, AuditRows, TypeOK
    <3> QED
      BY <2>1, <3>1
  <2> QED
    BY <2>1, <2>2
<1>5. QED
  BY <1>1, <1>2, <1>3, <1>4, TypeCorrect, PTL DEF Spec
==============================================================================
