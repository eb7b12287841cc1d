---------------------------- MODULE ServiceProofs ----------------------------
(***************************************************************************)
(* Proofs about the boot of the services (Startup), about one answer from  *)
(* the documents (RagAnswer, RankFusion) and about the two gates that      *)
(* measure the answers (Evaluation): for every list of paths, every table, *)
(* limit and weight, and every set of labels, issues and thresholds.       *)
(***************************************************************************)
EXTENDS Startup, RagAnswer, Evaluation,
        SequenceTheorems, FiniteSetTheorems, WellFoundedInduction, TLAPS

-----------------------------------------------------------------------------
(* The boot, whatever Vault, the script, the model server and the file     *)
(* of weights do meanwhile.                                                *)

\* There is a path to read.
LEMMA PathsAreThere == Len(Paths) \in Nat /\ Len(Paths) > 0
BY StartupAssumption DEF Path

\* The two keys the properties name are among the paths.
LEMMA KeysArePaths == "llm" \in Path /\ "langfuse" \in Path
BY StartupAssumption

Checking == {"clients", "vault", "weights", "sha256", "tracing", "thresholds", "up"}

\* load_all is at a path of the list, and has read them all when it is done.
ReadingInBounds ==
  /\ api = "down" => reading = 1
  /\ api = "reading" => reading <= Len(Paths)
  /\ api \in Checking => reading = Len(Paths) + 1

Typed == TypeOK /\ ReadingInBounds

\* The typing holds at first.
LEMMA TypedHoldsFirst == Init => Typed
<1> SUFFICES ASSUME Init PROVE Typed
  OBVIOUS
<1>1. vault \in [Path -> Secret] /\ secrets \in [Path -> Secret]
  BY DEF Init, Forgotten, Secret
<1>2. seeding \in 0..Len(Paths) /\ reading \in 1..(Len(Paths) + 1)
  BY PathsAreThere DEF Init
<1> QED
  BY <1>1, <1>2 DEF Init, TypeOK, Typed, ReadingInBounds, Checking

\* Every step keeps the type invariant.
LEMMA TypeIsKept == Typed /\ [Next]_vars => TypeOK'
<1> SUFFICES ASSUME Typed, [Next]_vars PROVE TypeOK'
  OBVIOUS
<1> USE DEF Typed, TypeOK
<1>f. Forgotten \in [Path -> Secret]
  BY DEF Forgotten, Secret
<1>1. CASE VaultStops
  BY <1>1, <1>f DEF VaultStops, apiVars, serverVars
<1>2. CASE VaultStarts
  BY <1>2 DEF VaultStarts, apiVars, serverVars
<1>3. CASE SeedStarts \/ SeedFails
  <2>1. seeding' \in 0..Len(Paths)
    BY <1>3, PathsAreThere DEF SeedStarts, SeedFails
  <2> QED
    BY <1>3, <2>1 DEF SeedStarts, SeedFails, apiVars, serverVars
<1>4. CASE SeedPath
  <2>1. PICK v \in Secret : vault' = [vault EXCEPT ![Paths[seeding]] = v]
    BY <1>4 DEF SeedPath, SeedValues, Secret
  <2>2. vault' \in [Path -> Secret]
    BY <2>1
  <2>3. seeding' \in 0..Len(Paths)
    BY <1>4, PathsAreThere DEF SeedPath
  <2> QED
    BY <1>4, <2>2, <2>3 DEF SeedPath, apiVars, serverVars
<1>5. CASE WeightsReplaced \/ ServerVerifies \/ ServerLoads \/ ServerStops
  BY <1>5 DEF WeightsReplaced, ServerVerifies, ServerLoads, ServerStops, vaultVars,
              apiVars
<1>a. Answer \subseteq [weights : {"expected", "other", "none"}, swapped : BOOLEAN]
  BY DEF Answer
<1>6. CASE BootStarts \/ Classify
  BY <1>6, <1>a DEF BootStarts, Classify, vaultVars, serverVars
<1>7. CASE BootFails
  <2>1. reading' \in 1..(Len(Paths) + 1)
    BY <1>7, PathsAreThere DEF BootFails, Refuse
  <2> QED
    BY <1>7, <1>f, <2>1 DEF BootFails, Refuse, vaultVars, serverVars
<1>8. CASE ReadSecret
  <2>1. PICK v \in Secret : Read(v)
    BY <1>8 DEF ReadSecret
  <2>2. secrets' \in [Path -> Secret]
    BY <2>1 DEF Read
  <2>3. reading' \in 1..(Len(Paths) + 1)
    BY <1>8, <2>1, PathsAreThere DEF ReadSecret, Read, ReadingInBounds
  <2>4. quiet' \in BOOLEAN /\ api' \in {"clients", "reading"}
    BY <1>8, <2>1 DEF ReadSecret, Read
  <2> QED
    BY <2>1, <2>2, <2>3, <2>4 DEF Read, vaultVars, serverVars
<1>9. CASE BootStep /\ ~ReadSecret
  BY <1>9, <1>a DEF BootStep, InitClients, AssertVaultReachable, AssertWeightsPresent,
              AssertWeightsMatch, AssertTracing, AssertThresholds, Proceed,
              vaultVars, serverVars
<1>10. CASE UNCHANGED vars
  BY <1>10 DEF vars, vaultVars, serverVars, apiVars
<1> QED
  BY <1>1, <1>2, <1>3, <1>4, <1>5, <1>6, <1>7, <1>8, <1>9, <1>10 DEF Next

\* The steps that leave the boot where it is.
Elsewhere ==
  \/ VaultStops \/ VaultStarts \/ SeedStarts \/ SeedPath \/ SeedFails
  \/ WeightsReplaced \/ ServerVerifies \/ ServerLoads \/ ServerStops

\* Vault, the script and the model server leave the boot where it is.
LEMMA ElsewhereKeepsTheBoot == Elsewhere => UNCHANGED apiVars
BY DEF Elsewhere, VaultStops, VaultStarts, SeedStarts, SeedPath, SeedFails,
       WeightsReplaced, ServerVerifies, ServerLoads, ServerStops

\* Every step keeps load_all inside its list.
LEMMA BoundsAreKept == Typed /\ [Next]_vars => ReadingInBounds'
<1> SUFFICES ASSUME Typed, [Next]_vars PROVE ReadingInBounds'
  OBVIOUS
<1> USE DEF ReadingInBounds, Checking
<1>1. CASE Elsewhere \/ Classify \/ UNCHANGED vars
  BY <1>1, ElsewhereKeepsTheBoot DEF Typed, Classify, vars, apiVars
<1>2. CASE BootStarts
  BY <1>2, PathsAreThere DEF BootStarts, Typed
<1>3. CASE BootFails
  BY <1>3 DEF BootFails, Refuse
<1>4. CASE ReadSecret
  BY <1>4, PathsAreThere DEF ReadSecret, Read, Typed, TypeOK
<1>5. CASE BootStep /\ ~ReadSecret
  BY <1>5 DEF BootStep, InitClients, AssertVaultReachable, AssertWeightsPresent,
              AssertWeightsMatch, AssertTracing, AssertThresholds, Proceed, Typed
<1> QED
  BY <1>1, <1>2, <1>3, <1>4, <1>5 DEF Next, Elsewhere

\* The type invariant, for every list of paths.
THEOREM TypeCorrect == Spec => [](TypeOK /\ ReadingInBounds)
BY TypedHoldsFirst, TypeIsKept, BoundsAreKept, PTL DEF Spec, Typed

-----------------------------------------------------------------------------
\* What the model server has loaded, or is about to load, is what it checked.
LoadedIsVerified ==
  /\ server = "verified" /\ ~swapped => weights = "expected"
  /\ server = "serving" /\ ~swapped => loaded = "expected"

Verified == OnlyVerifiedWeightsAnswer /\ LoadedIsVerified

\* However often it is restarted, and whatever replaces the file, the model
\* server answers with weights of the expected hash, or with a file that was
\* put in place between its check and its loading.
THEOREM AnswersAreVerified == Spec => []OnlyVerifiedWeightsAnswer
<1>1. Init => Verified
  BY DEF Init, Verified, OnlyVerifiedWeightsAnswer, LoadedIsVerified
<1>2. Verified /\ [Next]_vars => Verified'
  <2> SUFFICES ASSUME Verified, [Next]_vars PROVE Verified'
    OBVIOUS
  <2> USE DEF Verified, OnlyVerifiedWeightsAnswer, LoadedIsVerified
  <2>1. CASE VaultStops \/ VaultStarts \/ SeedStarts \/ SeedPath \/ SeedFails
    BY <2>1 DEF VaultStops, VaultStarts, SeedStarts, SeedPath, SeedFails, apiVars,
                serverVars
  <2>2. CASE WeightsReplaced \/ ServerVerifies \/ ServerLoads \/ ServerStops
    BY <2>2 DEF WeightsReplaced, ServerVerifies, ServerLoads, ServerStops, apiVars
  <2>3. CASE BootStarts \/ ReadSecret \/ BootFails
    BY <2>3 DEF BootStarts, ReadSecret, Read, BootFails, Refuse, serverVars
  <2>4. CASE Classify \/ (BootStep /\ ~ReadSecret)
    <3>1. /\ UNCHANGED <<weights, serverVars>>
          /\ seen' = seen \/ (server = "serving" /\ seen' = seen \cup Answer)
      BY <2>4 DEF BootStep, InitClients, AssertVaultReachable, AssertWeightsPresent,
                  AssertWeightsMatch, AssertTracing, AssertThresholds, Proceed, Classify
    <3>2. server = "serving" => \A a \in Answer : a.weights = "expected" \/ a.swapped
      BY DEF Answer
    <3> QED
      BY <3>1, <3>2 DEF serverVars
  <2>5. CASE UNCHANGED vars
    BY <2>5 DEF vars, serverVars, apiVars
  <2> QED
    BY <2>1, <2>2, <2>3, <2>4, <2>5 DEF Next
<1> QED
  BY <1>1, <1>2, PTL DEF Spec, Verified

-----------------------------------------------------------------------------
\* From the checks on there is a key: nothing clears the secrets of a boot.
KeyIsChecked == api \in Checking \ {"clients"} => HasLLMKey

\* The uncalled check would never have refused: a booted service has a key.
THEOREM BootedServiceHasKey == Spec => []BootedHasKey
<1>1. Init => KeyIsChecked
  BY DEF Init, KeyIsChecked, Checking
<1>2. KeyIsChecked /\ [Next]_vars => KeyIsChecked'
  <2> SUFFICES ASSUME KeyIsChecked, [Next]_vars PROVE KeyIsChecked'
    OBVIOUS
  <2> USE DEF KeyIsChecked, Checking, HasLLMKey
  <2>1. CASE Elsewhere \/ Classify \/ UNCHANGED vars
    BY <2>1, ElsewhereKeepsTheBoot DEF Classify, vars, apiVars
  <2>2. CASE BootStarts \/ ReadSecret \/ BootFails
    BY <2>2 DEF BootStarts, ReadSecret, BootFails, Refuse
  <2>3. CASE BootStep /\ ~ReadSecret
    BY <2>3 DEF BootStep, InitClients, AssertVaultReachable, AssertWeightsPresent,
                AssertWeightsMatch, AssertTracing, AssertThresholds, Proceed
  <2> QED
    BY <2>1, <2>2, <2>3 DEF Next, Elsewhere
<1>3. KeyIsChecked => BootedHasKey
  BY DEF KeyIsChecked, BootedHasKey, Checking
<1> QED
  BY <1>1, <1>2, <1>3, PTL DEF Spec

-----------------------------------------------------------------------------
\* What a quiet boot has read is what Vault holds.
ReadSoFar == quiet => \A i \in 1..Len(Paths) :
                         i < reading => secrets[Paths[i]] = vault[Paths[i]]

\* Past the check of the tracing backend, keys mean traces.
TracedIfKeys ==
  api \in {"thresholds", "up"} /\ secrets["langfuse"] = "real" => traced

\* Every step keeps what was read equal to what Vault has, while the boot is quiet.
LEMMA ReadSoFarIsKept == Typed /\ ReadSoFar /\ [Next]_vars => ReadSoFar'
<1> SUFFICES ASSUME Typed, ReadSoFar, [Next]_vars PROVE ReadSoFar'
  OBVIOUS
<1>u. UNCHANGED <<quiet, vault, secrets, reading>> => ReadSoFar'
  BY DEF ReadSoFar
<1>1. CASE VaultStops \/ SeedPath
  BY <1>1 DEF VaultStops, SeedPath, ReadSoFar
<1>2. CASE VaultStarts \/ SeedStarts \/ SeedFails
  BY <1>2, <1>u DEF VaultStarts, SeedStarts, SeedFails, apiVars
<1>3. CASE WeightsReplaced \/ ServerVerifies \/ ServerLoads \/ ServerStops
  BY <1>3, <1>u DEF WeightsReplaced, ServerVerifies, ServerLoads, ServerStops,
              vaultVars, apiVars
<1> USE DEF ReadSoFar
<1>4. CASE BootStarts
  BY <1>4 DEF BootStarts, vaultVars, Typed, ReadingInBounds
<1>5. CASE BootFails
  BY <1>5 DEF BootFails, Refuse
<1>6. CASE ReadSecret
  <2> SUFFICES ASSUME quiet', NEW i \in 1..Len(Paths), i < reading'
               PROVE  secrets'[Paths[i]] = vault'[Paths[i]]
    OBVIOUS
  <2>1. PICK v \in Secret : Read(v)
    BY <1>6 DEF ReadSecret
  <2>2. quiet /\ v = vault[Paths[reading]] /\ vault' = vault /\ reading' = reading + 1
    BY <2>1 DEF Read, vaultVars
  <2>3. Paths[i] \in Path /\ secrets \in [Path -> Secret] /\ reading \in Nat
    BY PathsAreThere DEF Path, Typed, TypeOK
  <2>4. CASE Paths[i] = Paths[reading]
    BY <2>1, <2>2, <2>3, <2>4 DEF Read
  <2>5. CASE Paths[i] # Paths[reading]
    <3>1. i < reading
      BY <2>2, <2>3, <2>5
    <3>2. secrets'[Paths[i]] = secrets[Paths[i]]
      BY <2>1, <2>3, <2>5 DEF Read
    <3> QED
      BY <2>2, <3>1, <3>2
  <2> QED
    BY <2>4, <2>5
<1>7. CASE Classify \/ (BootStep /\ ~ReadSecret)
  BY <1>7, <1>u DEF BootStep, InitClients, AssertVaultReachable, AssertWeightsPresent,
              AssertWeightsMatch, AssertTracing, AssertThresholds, Proceed, Classify,
              vaultVars
<1>8. CASE UNCHANGED vars
  BY <1>8, <1>u DEF vars, vaultVars, apiVars
<1> QED
  BY <1>1, <1>2, <1>3, <1>4, <1>5, <1>6, <1>7, <1>8 DEF Next

\* Every step keeps the keys traced past their check.
LEMMA TracedIfKeysIsKept == TracedIfKeys /\ [Next]_vars => TracedIfKeys'
<1> SUFFICES ASSUME TracedIfKeys, [Next]_vars PROVE TracedIfKeys'
  OBVIOUS
<1> USE DEF TracedIfKeys
<1>1. CASE Elsewhere \/ Classify \/ UNCHANGED vars
  BY <1>1, ElsewhereKeepsTheBoot DEF Classify, vars, apiVars
<1>2. CASE BootStarts \/ ReadSecret \/ BootFails
  BY <1>2 DEF BootStarts, ReadSecret, BootFails, Refuse
<1>3. CASE AssertTracing
  BY <1>3, Zenon DEF AssertTracing, Proceed
<1>4. CASE InitClients \/ AssertVaultReachable \/ AssertWeightsPresent \/ AssertWeightsMatch
  BY <1>4 DEF InitClients, AssertVaultReachable, AssertWeightsPresent,
              AssertWeightsMatch, Proceed
<1>5. CASE AssertThresholds
  BY <1>5 DEF AssertThresholds, Proceed
<1> QED
  BY <1>1, <1>2, <1>3, <1>4, <1>5 DEF Next, Elsewhere, BootStep

\* The invariants imply the property.
LEMMA QuietFollows == Typed /\ ReadSoFar /\ TracedIfKeys => QuietBootIsComplete
<1> SUFFICES ASSUME Typed, ReadSoFar, TracedIfKeys, api = "up", quiet
             PROVE  secrets = vault /\ (vault["langfuse"] = "real" => traced)
  BY DEF QuietBootIsComplete
<1>1. ASSUME NEW p \in Path PROVE secrets[p] = vault[p]
  <2>1. PICK i \in 1..Len(Paths) : p = Paths[i]
    BY DEF Path
  <2>2. i < reading
    BY <2>1, PathsAreThere DEF Typed, ReadingInBounds, Checking
  <2> QED
    BY <2>1, <2>2 DEF ReadSoFar
<1>2. secrets = vault
  BY <1>1 DEF Typed, TypeOK
<1> QED
  BY <1>2 DEF TracedIfKeys

\* A boot that meets a filled Vault which nobody disturbs has every secret and
\* traces, for every list of paths.
THEOREM QuietBootHasSecrets == Spec => []QuietBootIsComplete
<1>1. Init => ReadSoFar /\ TracedIfKeys
  BY DEF Init, ReadSoFar, TracedIfKeys
<1> QED
  BY <1>1, TypedHoldsFirst, TypeIsKept, BoundsAreKept, ReadSoFarIsKept,
     TracedIfKeysIsKept, QuietFollows, PTL DEF Spec, Typed

-----------------------------------------------------------------------------
(* A finite set sorted by an order.                                        *)

\* The order of the numbers, for the induction over them.
Less == {p \in Nat \X Nat : p[1] < p[2]}

\* A set of numbers that has 0 and with every number its successor has all.
LEMMA NatSetInduction ==
  ASSUME NEW T, 0 \in T, \A n \in Nat : n \in T => n + 1 \in T
  PROVE  Nat \subseteq T
<1>1. IsWellFoundedOn(Less, Nat)
  BY NatLessThanWellFounded DEF OpToRel, Less
<1> DEFINE U == Nat \ T
<1> SUFFICES ASSUME U # {} PROVE FALSE
  OBVIOUS
<1>2. PICK x \in U : \A y \in U : ~(<<y, x>> \in Less)
  <2>1. U \subseteq Nat
    OBVIOUS
  <2> HIDE DEF U
  <2> QED
    BY <1>1, <2>1, WFMin
<1>3. x # 0 /\ x \in Nat
  OBVIOUS
<1>4. x - 1 \in T
  <2>1. <<x - 1, x>> \in Less
    BY <1>3 DEF Less
  <2> QED
    BY <1>2, <1>3, <2>1
<1> QED
  BY <1>3, <1>4

\* Of two different members one is before the other, and none before itself.
IsOrder(S, R) ==
  /\ \A d \in S : <<d, d>> \notin R
  /\ \A d, e \in S : d # e => <<d, e>> \in R \/ <<e, d>> \in R
  /\ \A d, e, f \in S : <<d, e>> \in R /\ <<e, f>> \in R => <<d, f>> \in R

\* The members in front of d.
Ahead(S, R, d) == {e \in S : <<e, d>> \in R}

\* A finite set that is ordered and not empty has a last member.
LEMMA LastExists ==
  ASSUME NEW S, IsFiniteSet(S), S # {}, NEW R, IsOrder(S, R)
  PROVE  \E x \in S : \A y \in S \ {x} : <<y, x>> \in R
<1> DEFINE HasLast(U) == \E x \in U : \A y \in U \ {x} : <<y, x>> \in R
           T == {k \in Nat : \A U \in SUBSET S :
                   IsFiniteSet(U) /\ U # {} /\ Cardinality(U) = k => HasLast(U)}
<1>1. 0 \in T
  BY FS_EmptySet
<1>2. ASSUME NEW k \in Nat, k \in T PROVE k + 1 \in T
  <2> SUFFICES ASSUME NEW U \in SUBSET S, IsFiniteSet(U), U # {}, Cardinality(U) = k + 1
               PROVE  HasLast(U)
    OBVIOUS
  <2>1. PICK z \in U : TRUE
    OBVIOUS
  <2>2. PICK V \in SUBSET S : V = U \ {z}
    OBVIOUS
  <2>3. IsFiniteSet(V) /\ Cardinality(V) = k
    <3>1. IsFiniteSet(U \ {z}) /\ Cardinality(U \ {z}) = Cardinality(U) - 1
      BY FS_RemoveElement
    <3> QED
      BY <2>2, <3>1
  <2>4. CASE V = {}
    BY <2>2, <2>4
  <2>5. CASE V # {}
    <3>1. HasLast(V)
      BY <1>2, <2>3, <2>5
    <3>2. PICK x \in V : \A y \in V \ {x} : <<y, x>> \in R
      BY <3>1
    <3>3. x \in S /\ z \in S /\ x # z
      BY <2>2
    <3>4. CASE <<z, x>> \in R
      <4>1. \A y \in U \ {x} : <<y, x>> \in R
        BY <2>2, <3>2, <3>4
      <4> QED
        BY <2>2, <4>1
    <3>5. CASE <<x, z>> \in R
      <4>1. \A y \in U \ {z} : y \in S /\ (y = x \/ <<y, x>> \in R)
        BY <2>2, <3>2
      <4>2. \A y \in U \ {z} : <<y, z>> \in R
        BY <3>3, <3>5, <4>1 DEF IsOrder
      <4> QED
        BY <4>2
    <3> QED
      BY <3>3, <3>4, <3>5 DEF IsOrder
  <2> QED
    BY <2>4, <2>5
<1>3. Nat \subseteq T
  <2> HIDE DEF T
  <2> QED
    BY <1>1, <1>2, NatSetInduction
<1>4. Cardinality(S) \in T /\ S \in SUBSET S
  BY <1>3, FS_CardinalityType
<1> QED
  BY <1>4

\* As many members are ahead as a rank says, for each rank of a member.
LEMMA RanksExist ==
  ASSUME NEW S, IsFiniteSet(S), NEW R, IsOrder(S, R), NEW n \in 1..Cardinality(S)
  PROVE  \E d \in S : Cardinality(Ahead(S, R, d)) = n - 1
<1> DEFINE Good(U) == \A m \in 1..Cardinality(U) : \E d \in U : Cardinality(Ahead(U, R, d)) = m - 1
           T == {k \in Nat : \A U \in SUBSET S :
                   IsFiniteSet(U) /\ Cardinality(U) = k => Good(U)}
<1>1. 0 \in T
  <2> SUFFICES ASSUME NEW U \in SUBSET S, Cardinality(U) = 0 PROVE Good(U)
    OBVIOUS
  <2> QED
    OBVIOUS
<1>2. ASSUME NEW k \in Nat, k \in T PROVE k + 1 \in T
  <2> SUFFICES ASSUME NEW U \in SUBSET S, IsFiniteSet(U), Cardinality(U) = k + 1,
                      NEW m \in 1..(k + 1)
               PROVE  \E d \in U : Cardinality(Ahead(U, R, d)) = m - 1
    OBVIOUS
  <2>1. U # {} /\ IsOrder(U, R)
    BY FS_EmptySet DEF IsOrder
  <2>2. PICK x \in U : \A y \in U \ {x} : <<y, x>> \in R
    BY <2>1, LastExists
  <2>3. PICK V \in SUBSET S : V = U \ {x}
    OBVIOUS
  <2>4. IsFiniteSet(V) /\ Cardinality(V) = k
    <3>1. IsFiniteSet(U \ {x}) /\ Cardinality(U \ {x}) = Cardinality(U) - 1
      BY FS_RemoveElement
    <3> QED
      BY <2>3, <3>1
  <2>5. Ahead(U, R, x) = V
    BY <2>1, <2>2, <2>3 DEF Ahead, IsOrder
  <2>6. ASSUME NEW d \in V PROVE Ahead(V, R, d) = Ahead(U, R, d)
    <3>1. <<x, d>> \notin R
      BY <2>1, <2>2, <2>3 DEF IsOrder
    <3> QED
      BY <2>3, <3>1 DEF Ahead
  <2>7. CASE m = k + 1
    BY <2>4, <2>5, <2>7
  <2>8. CASE m \in 1..k
    <3>1. Good(V)
      BY <1>2, <2>4
    <3>2. PICK d \in V : Cardinality(Ahead(V, R, d)) = m - 1
      BY <2>4, <2>8, <3>1
    <3> QED
      BY <2>3, <2>6, <3>2
  <2>9. m \in 1..k \/ m = k + 1
    OBVIOUS
  <2> QED
    BY <2>7, <2>8, <2>9
<1>3. Nat \subseteq T
  <2> HIDE DEF T
  <2> QED
    BY <1>1, <1>2, NatSetInduction
<1>4. Cardinality(S) \in T /\ S \in SUBSET S
  BY <1>3, FS_CardinalityType
<1> QED
  BY <1>4

\* More members are ahead of one that another is ahead of.
LEMMA AheadGrows ==
  ASSUME NEW S, IsFiniteSet(S), NEW R, IsOrder(S, R), NEW d \in S
  PROVE  /\ Cardinality(Ahead(S, R, d)) \in 0..(Cardinality(S) - 1)
         /\ \A e \in S : <<d, e>> \in R =>
              Cardinality(Ahead(S, R, d)) < Cardinality(Ahead(S, R, e))
<1>1. Ahead(S, R, d) \in SUBSET S /\ d \notin Ahead(S, R, d)
  BY DEF Ahead, IsOrder
<1>2. /\ IsFiniteSet(Ahead(S, R, d)) /\ Cardinality(Ahead(S, R, d)) \in Nat
      /\ Cardinality(Ahead(S, R, d)) <= Cardinality(S)
      /\ Cardinality(Ahead(S, R, d)) # Cardinality(S)
  BY <1>1, FS_Subset, FS_CardinalityType
<1>3. Cardinality(S) \in Nat
  BY FS_CardinalityType
<1>4. ASSUME NEW e \in S, <<d, e>> \in R
      PROVE  Cardinality(Ahead(S, R, d)) < Cardinality(Ahead(S, R, e))
  <2>1. Ahead(S, R, d) \in SUBSET Ahead(S, R, e)
    BY <1>4 DEF Ahead, IsOrder
  <2>2. d \in Ahead(S, R, e)
    BY <1>4 DEF Ahead
  <2>3. IsFiniteSet(Ahead(S, R, e)) /\ Cardinality(Ahead(S, R, e)) \in Nat
    <3>1. Ahead(S, R, e) \in SUBSET S
      BY DEF Ahead
    <3> QED
      BY <3>1, FS_Subset, FS_CardinalityType
  <2>4. /\ Cardinality(Ahead(S, R, d)) <= Cardinality(Ahead(S, R, e))
        /\ Cardinality(Ahead(S, R, d)) # Cardinality(Ahead(S, R, e))
    BY <1>1, <2>1, <2>2, <2>3, FS_Subset
  <2> QED
    BY <1>2, <2>3, <2>4
<1> QED
  BY <1>2, <1>3, <1>4

\* A sorted set is a sequence of its members, each at its rank.
LEMMA SortedIsInOrder ==
  ASSUME NEW S, IsFiniteSet(S), NEW R, IsOrder(S, R)
  PROVE  /\ Sorted(S, R) \in Seq(S)
         /\ Len(Sorted(S, R)) = Cardinality(S) /\ Cardinality(S) \in Nat
         /\ \A d \in S : \E n \in 1..Cardinality(S) : Sorted(S, R)[n] = d
         /\ \A m, n \in 1..Cardinality(S) :
              <<Sorted(S, R)[m], Sorted(S, R)[n]>> \in R <=> m < n
<1>1. PICK L \in Nat : L = Cardinality(S)
  BY FS_CardinalityType
<1>2. PICK f : f = Sorted(S, R)
  OBVIOUS
<1>3. f = [n \in 1..L |-> CHOOSE d \in S : Cardinality(Ahead(S, R, d)) = n - 1]
  BY <1>1, <1>2 DEF Sorted, Ahead
<1>4. ASSUME NEW n \in 1..L PROVE f[n] \in S /\ Cardinality(Ahead(S, R, f[n])) = n - 1
  <2>1. \E d \in S : Cardinality(Ahead(S, R, d)) = n - 1
    BY <1>1, RanksExist
  <2>2. f[n] = CHOOSE d \in S : Cardinality(Ahead(S, R, d)) = n - 1
    BY <1>3
  <2> QED
    BY <2>1, <2>2
<1>5. f \in [1..L -> S]
  BY <1>3, <1>4
<1>6. f \in Seq(S) /\ Len(f) = L
  BY <1>5, SeqDef
<1>7. ASSUME NEW d \in S, NEW e \in S,
             Cardinality(Ahead(S, R, d)) = Cardinality(Ahead(S, R, e))
      PROVE  d = e
  <2>1. Cardinality(Ahead(S, R, d)) \in Nat
    BY <1>1, AheadGrows
  <2>2. <<d, e>> \notin R /\ <<e, d>> \notin R
    BY <1>7, <2>1, AheadGrows
  <2> QED
    BY <2>2 DEF IsOrder
<1>8. ASSUME NEW d \in S PROVE \E n \in 1..L : f[n] = d
  <2>1. PICK k \in 0..(L - 1) : k = Cardinality(Ahead(S, R, d))
    BY <1>1, AheadGrows
  <2>2. k + 1 \in 1..L /\ (k + 1) - 1 = k
    BY <1>1, <2>1
  <2>3. f[k + 1] \in S /\ Cardinality(Ahead(S, R, f[k + 1])) = k
    BY <1>4, <2>2
  <2> QED
    BY <1>7, <2>1, <2>2, <2>3
<1>9. ASSUME NEW m \in 1..L, NEW n \in 1..L PROVE <<f[m], f[n]>> \in R <=> m < n
  <2>1. PICK d \in S, e \in S : /\ d = f[m] /\ Cardinality(Ahead(S, R, d)) = m - 1
                                /\ e = f[n] /\ Cardinality(Ahead(S, R, e)) = n - 1
    BY <1>4
  <2>2. /\ <<d, e>> \in R => m - 1 < n - 1
        /\ <<e, d>> \in R => n - 1 < m - 1
    BY <2>1, AheadGrows
  <2>3. m < n => d # e
    BY <2>1
  <2>4. <<d, e>> \in R <=> m < n
    BY <2>2, <2>3 DEF IsOrder
  <2> QED
    BY <2>1, <2>4
<1> QED
  BY <1>1, <1>2, <1>6, <1>8, <1>9

-----------------------------------------------------------------------------
(* Fractions, and what is sorted by them.                                  *)

\* A product grows with its factors, and a positive factor can be cancelled.
LEMMA Products ==
  ASSUME NEW a \in Int, NEW b \in Int, NEW c \in Nat
  PROVE  /\ a <= b => a * c <= b * c
         /\ c > 0 /\ a * c <= b * c => a <= b
<1>1. ASSUME a <= b PROVE a * c <= b * c
  <2>1. PICK x \in Nat : b = a + x
    <3>1. b - a \in Nat /\ b = a + (b - a)
      BY <1>1
    <3> QED
      BY <3>1
  <2>2. b * c = a * c + x * c
    BY <2>1
  <2>3. x * c \in Nat /\ a * c \in Int
    OBVIOUS
  <2> QED
    BY <2>2, <2>3
<1>2. ASSUME c > 0, a * c <= b * c PROVE a <= b
  <2> SUFFICES ASSUME ~(a <= b) PROVE FALSE
    OBVIOUS
  <2>1. PICK x \in Nat : a = b + 1 + x
    <3>1. a - b - 1 \in Nat /\ a = b + 1 + (a - b - 1)
      OBVIOUS
    <3> QED
      BY <3>1
  <2>2. a * c = b * c + c + x * c
    BY <2>1
  <2>3. x * c \in Nat /\ b * c \in Int
    OBVIOUS
  <2> QED
    BY <1>2, <2>2, <2>3
<1> QED
  BY <1>1, <1>2

\* The values that are compared have positive denominators.
Fraction == [num : Int, den : Nat \ {0}]

\* Not exceeding is transitive and total.
LEMMA FractionsAreOrdered ==
  ASSUME NEW s \in Fraction, NEW t \in Fraction, NEW u \in Fraction
  PROVE  /\ ~Exceeds(s, s)
         /\ ~Exceeds(s, t) \/ ~Exceeds(t, s)
         /\ ~Exceeds(t, s) /\ ~Exceeds(u, t) => ~Exceeds(u, s)
<1>1. PICK a \in Int, b \in Nat : b > 0 /\ s.num = a /\ s.den = b
  BY DEF Fraction
<1>2. PICK c \in Int, d \in Nat : d > 0 /\ t.num = c /\ t.den = d
  BY DEF Fraction
<1>3. PICK e \in Int, f \in Nat : f > 0 /\ u.num = e /\ u.den = f
  BY DEF Fraction
<1>4. a * d \in Int /\ c * b \in Int /\ c * f \in Int /\ e * d \in Int /\ a * f \in Int /\ e * b \in Int
  OBVIOUS
<1>5. ASSUME c * b <= a * d, e * d <= c * f PROVE e * b <= a * f
  <2>1. (c * b) * f <= (a * d) * f
    BY <1>4, <1>5, Products
  <2>2. (e * d) * b <= (c * f) * b
    BY <1>4, <1>5, Products
  <2>3. (e * d) * b = (e * b) * d /\ (a * d) * f = (a * f) * d /\ (c * b) * f = (c * f) * b
    OBVIOUS
  <2>4. (e * b) * d \in Int /\ (a * f) * d \in Int /\ (c * f) * b \in Int
    BY <1>4
  <2>5. (e * b) * d <= (a * f) * d
    BY <2>1, <2>2, <2>3, <2>4
  <2> QED
    BY <1>2, <1>4, <2>5, Products
<1>6. ~Exceeds(s, s)
  BY <1>1 DEF Exceeds
<1>7. ~Exceeds(s, t) \/ ~Exceeds(t, s)
  BY <1>1, <1>2, <1>4 DEF Exceeds
<1>8. ~Exceeds(t, s) /\ ~Exceeds(u, t) => ~Exceeds(u, s)
  BY <1>1, <1>2, <1>3, <1>4, <1>5 DEF Exceeds
<1> QED
  BY <1>6, <1>7, <1>8

\* The order of ByValue.
Precedes(value, place, d, e) ==
  \/ Exceeds(value[d], value[e])
  \/ ~Exceeds(value[e], value[d]) /\ place[d] < place[e]

\* Documents sorted by value are a sequence of them, each in front of those it
\* exceeds, and of its equals that came behind it.
LEMMA ByValueIsInOrder ==
  ASSUME NEW S, IsFiniteSet(S), NEW value \in [S -> Fraction], NEW place \in [S -> Int],
         \A d, e \in S : d # e => place[d] # place[e]
  PROVE  /\ ByValue(S, value, place) \in Seq(S)
         /\ Len(ByValue(S, value, place)) = Cardinality(S) /\ Cardinality(S) \in Nat
         /\ \A d \in S : \E n \in 1..Cardinality(S) : ByValue(S, value, place)[n] = d
         /\ \A m, n \in 1..Cardinality(S) :
              Precedes(value, place, ByValue(S, value, place)[m], ByValue(S, value, place)[n])
              <=> m < n
<1> DEFINE R == {p \in S \X S : \/ Exceeds(value[p[1]], value[p[2]])
                                \/ /\ ~Exceeds(value[p[2]], value[p[1]])
                                   /\ place[p[1]] < place[p[2]]}
<1>1. \A d, e \in S : <<d, e>> \in R <=> Precedes(value, place, d, e)
  BY DEF Precedes
<1>2. PICK s : s = ByValue(S, value, place)
  OBVIOUS
<1>3. s = Sorted(S, R)
  BY <1>2 DEF ByValue
<1> HIDE DEF R
<1>4. \A d \in S : value[d] \in Fraction /\ place[d] \in Int
  OBVIOUS
<1>5. IsOrder(S, R)
  <2>1. ASSUME NEW d \in S PROVE <<d, d>> \notin R
    BY <1>1, <1>4, FractionsAreOrdered DEF Precedes
  <2>2. ASSUME NEW d \in S, NEW e \in S, d # e PROVE <<d, e>> \in R \/ <<e, d>> \in R
    <3>1. place[d] < place[e] \/ place[e] < place[d]
      BY <1>4, <2>2
    <3>2. ~Exceeds(value[d], value[e]) \/ ~Exceeds(value[e], value[d])
      BY <1>4, FractionsAreOrdered
    <3> QED
      BY <1>1, <3>1, <3>2 DEF Precedes
  <2>3. ASSUME NEW d \in S, NEW e \in S, NEW f \in S, <<d, e>> \in R, <<e, f>> \in R
        PROVE  <<d, f>> \in R
    <3>1. PICK x \in Fraction, y \in Fraction, z \in Fraction :
            x = value[d] /\ y = value[e] /\ z = value[f]
      BY <1>4
    <3>2. ~Exceeds(y, x) /\ ~Exceeds(z, y)
      BY <1>1, <2>3, <3>1, FractionsAreOrdered DEF Precedes
    <3>3. ~Exceeds(z, x)
      BY <3>2, FractionsAreOrdered
    <3>4. CASE Exceeds(x, z)
      BY <1>1, <3>1, <3>4 DEF Precedes
    <3>5. CASE ~Exceeds(x, z)
      <4>1. ~Exceeds(y, z)
        BY <3>2, <3>5, FractionsAreOrdered
      <4>2. ~Exceeds(x, y)
        BY <3>2, <3>5, FractionsAreOrdered
      <4>3. place[d] < place[e] /\ place[e] < place[f]
        BY <1>1, <2>3, <3>1, <4>1, <4>2 DEF Precedes
      <4>4. place[d] < place[f]
        BY <1>4, <4>3
      <4> QED
        BY <1>1, <3>1, <3>3, <4>4 DEF Precedes
    <3> QED
      BY <3>4, <3>5
  <2> QED
    BY <2>1, <2>2, <2>3 DEF IsOrder
<1>6. /\ s \in Seq(S) /\ Len(s) = Cardinality(S) /\ Cardinality(S) \in Nat
      /\ \A d \in S : \E n \in 1..Cardinality(S) : s[n] = d
      /\ \A m, n \in 1..Cardinality(S) : <<s[m], s[n]>> \in R <=> m < n
  BY <1>3, <1>5, SortedIsInOrder
<1>7. ASSUME NEW m \in 1..Cardinality(S), NEW n \in 1..Cardinality(S)
      PROVE  Precedes(value, place, s[m], s[n]) <=> m < n
  <2>1. s[m] \in S /\ s[n] \in S
    BY <1>6
  <2> QED
    BY <1>1, <1>6, <2>1
<1> QED
  BY <1>2, <1>6, <1>7

-----------------------------------------------------------------------------
(* Rankings of documents.                                                  *)

\* A ranking has no document twice.
Distinct(s) == \A i, j \in 1..Len(s) : s[i] = s[j] => i = j

\* The rank of what is in a ranking is its place, and two have two ranks.
LEMMA RanksOfDocuments ==
  ASSUME NEW S, NEW docs \in Seq(S), Distinct(docs)
  PROVE  /\ Len(docs) \in Nat
         /\ \A d : Contains(docs, d) <=> d \in Range(docs)
         /\ \A d : d \in Range(docs) => Rank(d, docs) \in 1..Len(docs) /\ docs[Rank(d, docs)] = d
         /\ \A d : d \notin Range(docs) => Rank(d, docs) = 0
         /\ \A i \in 1..Len(docs) : docs[i] \in Range(docs) /\ Rank(docs[i], docs) = i
         /\ Range(docs) \subseteq S /\ IsFiniteSet(Range(docs)) /\ Cardinality(Range(docs)) = Len(docs)
<1>1. Len(docs) \in Nat /\ DOMAIN docs = 1..Len(docs)
  OBVIOUS
<1>2. Range(docs) = {docs[i] : i \in 1..Len(docs)}
  BY <1>1 DEF Range
<1>3. \A d : Contains(docs, d) <=> d \in Range(docs)
  BY <1>2 DEF Contains
<1>4. ASSUME NEW d, d \in Range(docs)
      PROVE  Rank(d, docs) \in 1..Len(docs) /\ docs[Rank(d, docs)] = d
  <2>1. \E n \in 1..Len(docs) : docs[n] = d
    BY <1>2, <1>4
  <2>2. Contains(docs, d)
    BY <1>3, <1>4
  <2>3. Rank(d, docs) = CHOOSE n \in 1..Len(docs) : docs[n] = d
    BY <2>2 DEF Rank
  <2> QED
    BY <2>1, <2>3
<1>5. \A d : d \notin Range(docs) => Rank(d, docs) = 0
  BY <1>3 DEF Rank
<1>6. \A i \in 1..Len(docs) : docs[i] \in Range(docs) /\ Rank(docs[i], docs) = i
  BY <1>2, <1>4 DEF Distinct
<1>7. IsFiniteSet(Range(docs)) /\ Cardinality(Range(docs)) = Len(docs)
  <2>1. PICK T : T = Range(docs)
    OBVIOUS
  <2>2. docs \in [1..Len(docs) -> T] /\ \A t \in T : \E i \in 1..Len(docs) : docs[i] = t
    BY <1>1, <1>2, <2>1
  <2>3. docs \in Bijection(1..Len(docs), T)
    BY <1>1, <2>2 DEF Distinct, Bijection, Injection, Surjection, IsInjective
  <2>4. ExistsBijection(1..Len(docs), T)
    BY <2>3 DEF ExistsBijection
  <2> QED
    BY <1>1, <2>1, <2>4, FS_NatBijection, FS_CountingElements
<1>8. Range(docs) \subseteq S
  BY <1>2
<1> QED
  BY <1>1, <1>3, <1>4, <1>5, <1>6, <1>7, <1>8

\* The first k of a sequence.
LEMMA TopIsAPrefix ==
  ASSUME NEW S, NEW s \in Seq(S), NEW k \in Nat
  PROVE  /\ Top(s, k) \in Seq(S)
         /\ Len(Top(s, k)) \in 0..k /\ Len(Top(s, k)) <= Len(s)
         /\ Len(Top(s, k)) = Min({k, Len(s)})
         /\ Len(Top(s, k)) \in {k, Len(s)}
         /\ \A i \in 1..Len(Top(s, k)) : Top(s, k)[i] = s[i]
<1>1. PICK n \in Nat : n = Min({k, Len(s)}) /\ n <= k /\ n <= Len(s) /\ n \in {k, Len(s)}
  <2>1. Len(s) \in Nat
    OBVIOUS
  <2>2. \E x \in {k, Len(s)} : \A y \in {k, Len(s)} : x <= y
    BY <2>1
  <2>3. Min({k, Len(s)}) \in {k, Len(s)} /\ \A y \in {k, Len(s)} : Min({k, Len(s)}) <= y
    BY <2>2 DEF Min
  <2> QED
    BY <2>1, <2>3
<1>2. Top(s, k) = SubSeq(s, 1, n)
  BY <1>1 DEF Top
<1>3. SubSeq(s, 1, n) \in Seq(S) /\ Len(SubSeq(s, 1, n)) = n
      /\ \A i \in 1..n : SubSeq(s, 1, n)[i] = s[i]
  <2>1. \A i \in 1..n : s[i] \in S
    BY <1>1
  <2>2. PICK t : t = SubSeq(s, 1, n)
    OBVIOUS
  <2>3. n \in Int /\ 1 \in Int
    BY <1>1
  <2>4. /\ t \in Seq(S) /\ Len(t) = IF 1 <= n THEN n - 1 + 1 ELSE 0
        /\ \A i \in 1..n-1+1 : t[i] = s[1+i-1]
    BY <2>1, <2>2, <2>3, SubSeqProperties
  <2>5. n - 1 + 1 = n /\ \A i \in 1..n : 1 + i - 1 = i
    OBVIOUS
  <2>6. Len(t) = n /\ \A i \in 1..n : t[i] = s[i]
    BY <2>4, <2>5
  <2> QED
    BY <2>2, <2>4, <2>6
<1>4. PICK t : t = Top(s, k)
  OBVIOUS
<1>5. t \in Seq(S) /\ Len(t) = n /\ \A i \in 1..n : t[i] = s[i]
  BY <1>2, <1>3, <1>4
<1>6. Len(t) \in 0..k /\ Len(t) <= Len(s) /\ Len(t) = Min({k, Len(s)}) /\ Len(t) \in {k, Len(s)}
  BY <1>1, <1>5
<1>7. \A i \in 1..Len(t) : t[i] = s[i]
  BY <1>5
<1> QED
  BY <1>4, <1>5, <1>6, <1>7

\* An ordering of a finite set has each member once.
LEMMA OrderingsAreDistinct ==
  ASSUME NEW S, IsFiniteSet(S), NEW s \in Orderings(S)
  PROVE  s \in Seq(S) /\ Len(s) = Cardinality(S) /\ Len(s) \in Nat /\ Distinct(s) /\ Range(s) = S
<1>1. PICK n \in Nat : n = Cardinality(S)
  BY FS_CardinalityType
<1>2. s \in [1..n -> S] /\ Range(s) = S
  BY <1>1 DEF Orderings
<1>3. s \in Seq(S) /\ Len(s) = n
  BY <1>2, SeqDef
<1>4. s \in Surjection(1..n, S)
  BY <1>2 DEF Surjection, Range
<1>5. IsFiniteSet(1..n) /\ Cardinality(1..n) = n
  BY FS_Interval
<1>6. s \in Injection(1..n, S)
  BY <1>1, <1>4, <1>5, FS_SurjSameCardinalityImpliesInj
<1>7. Distinct(s)
  BY <1>3, <1>6 DEF Distinct, Injection, IsInjective
<1> QED
  BY <1>1, <1>2, <1>3, <1>7

-----------------------------------------------------------------------------
(* The fusion of two rankings.                                             *)

\* Sums of fractions are fractions, and grow with their parts.
LEMMA SumsOfFractions ==
  ASSUME NEW s \in Fraction, NEW t \in Fraction, NEW u \in Fraction, NEW v \in Fraction
  PROVE  /\ Plus(s, t) \in Fraction
         /\ ~Exceeds(u, s) /\ ~Exceeds(v, t) => ~Exceeds(Plus(u, v), Plus(s, t))
<1>1. PICK a \in Int, b \in Nat : b > 0 /\ s.num = a /\ s.den = b
  BY DEF Fraction
<1>2. PICK c \in Int, d \in Nat : d > 0 /\ t.num = c /\ t.den = d
  BY DEF Fraction
<1>3. PICK e \in Int, f \in Nat : f > 0 /\ u.num = e /\ u.den = f
  BY DEF Fraction
<1>4. PICK g \in Int, h \in Nat : h > 0 /\ v.num = g /\ v.den = h
  BY DEF Fraction
<1>5. /\ a * d \in Int /\ c * b \in Int /\ e * h \in Int /\ g * f \in Int
      /\ b * d \in Nat /\ f * h \in Nat /\ a * f \in Int /\ e * b \in Int
      /\ c * h \in Int /\ g * d \in Int /\ d * h \in Nat /\ b * f \in Nat
  OBVIOUS
<1>6. b * d > 0 /\ f * h > 0
  BY <1>1, <1>2, <1>3, <1>4
<1>7. Plus(s, t) = [num |-> a * d + c * b, den |-> b * d]
  BY <1>1, <1>2 DEF Plus
<1>8. Plus(u, v) = [num |-> e * h + g * f, den |-> f * h]
  BY <1>3, <1>4 DEF Plus
<1>9. Plus(s, t) \in Fraction
  BY <1>5, <1>6, <1>7 DEF Fraction
<1>10. ASSUME e * b <= a * f, g * d <= c * h
       PROVE  (e * h + g * f) * (b * d) <= (a * d + c * b) * (f * h)
  <2>1. (e * b) * (d * h) <= (a * f) * (d * h)
    BY <1>5, <1>10, Products
  <2>2. (g * d) * (b * f) <= (c * h) * (b * f)
    BY <1>5, <1>10, Products
  <2>3. (e * h + g * f) * (b * d) = (e * b) * (d * h) + (g * d) * (b * f)
    OBVIOUS
  <2>4. (a * d + c * b) * (f * h) = (a * f) * (d * h) + (c * h) * (b * f)
    OBVIOUS
  <2>5. /\ (e * b) * (d * h) \in Int /\ (a * f) * (d * h) \in Int
        /\ (g * d) * (b * f) \in Int /\ (c * h) * (b * f) \in Int
    BY <1>5
  <2> QED
    BY <2>1, <2>2, <2>3, <2>4, <2>5
<1>11. ASSUME ~Exceeds(u, s), ~Exceeds(v, t) PROVE ~Exceeds(Plus(u, v), Plus(s, t))
  <2>1. e * b <= a * f /\ g * d <= c * h
    BY <1>1, <1>2, <1>3, <1>4, <1>5, <1>11 DEF Exceeds
  <2>2. (e * h + g * f) * (b * d) <= (a * d + c * b) * (f * h)
    BY <1>10, <2>1
  <2>3. (e * h + g * f) * (b * d) \in Int /\ (a * d + c * b) * (f * h) \in Int
    BY <1>5
  <2> QED
    BY <1>7, <1>8, <2>2, <2>3 DEF Exceeds
<1> QED
  BY <1>9, <1>11

\* What a ranking gives a document grows with its rank.
LEMMA SharesOfRanks ==
  ASSUME NEW w \in Nat, NEW m \in Nat, NEW n \in Nat
  PROVE  /\ Share(w, m) \in Fraction
         /\ n = 0 \/ (0 < m /\ m <= n) => ~Exceeds(Share(w, n), Share(w, m))
<1>1. RrfK \in Nat
  BY FusionAssumption
<1>2. Share(w, m) \in Fraction
  BY <1>1 DEF Share, Fraction
<1>3. ASSUME n = 0 PROVE ~Exceeds(Share(w, n), Share(w, m))
  <2>1. Share(w, n) = [num |-> 0, den |-> 1]
    BY <1>3 DEF Share
  <2>2. Share(w, m).num \in Nat /\ Share(w, m).den \in Nat
    BY <1>1 DEF Share
  <2> QED
    BY <2>1, <2>2 DEF Exceeds
<1>4. ASSUME n # 0, 0 < m, m <= n PROVE ~Exceeds(Share(w, n), Share(w, m))
  <2>1. /\ Share(w, n) = [num |-> w, den |-> RrfK + n]
        /\ Share(w, m) = [num |-> w, den |-> RrfK + m]
    BY <1>4 DEF Share
  <2>2. RrfK + m \in Int /\ RrfK + n \in Int /\ RrfK + m <= RrfK + n
    BY <1>1, <1>4
  <2>3. (RrfK + m) * w <= (RrfK + n) * w
    BY <2>2, Products
  <2>4. (RrfK + m) * w = w * (RrfK + m) /\ (RrfK + n) * w = w * (RrfK + n)
    BY <2>2
  <2>5. w * (RrfK + m) \in Int /\ w * (RrfK + n) \in Int
    BY <2>2
  <2> QED
    BY <2>1, <2>3, <2>4, <2>5 DEF Exceeds
<1> QED
  BY <1>2, <1>3, <1>4

\* A document that neither ranking puts behind another has no smaller score.
LEMMA ScoresRespectRankings ==
  ASSUME NEW S, NEW xs \in Seq(S), Distinct(xs), NEW ys \in Seq(S), Distinct(ys),
         NEW w \in 0..10, NEW d, NEW e
  PROVE  /\ Score(d, xs, ys, w) \in Fraction
         /\ Place(d, xs) <= Place(e, xs) /\ Place(d, ys) <= Place(e, ys) =>
              ~Exceeds(Score(e, xs, ys, w), Score(d, xs, ys, w))
<1>1. w \in Nat /\ 10 - w \in Nat
  OBVIOUS
<1>2. ASSUME NEW s \in Seq(S), Distinct(s)
      PROVE  /\ Rank(d, s) \in Nat /\ Rank(e, s) \in Nat
             /\ Place(d, s) <= Place(e, s) =>
                  Rank(e, s) = 0 \/ (0 < Rank(d, s) /\ Rank(d, s) <= Rank(e, s))
  <2>1. /\ Len(s) \in Nat
        /\ \A x : Contains(s, x) => Rank(x, s) \in 1..Len(s)
        /\ \A x : ~Contains(s, x) => Rank(x, s) = 0
    BY <1>2, RanksOfDocuments
  <2> QED
    BY <2>1 DEF Place
<1>3. PICK p \in Fraction, q \in Fraction, r \in Fraction, t \in Fraction :
        /\ p = Share(10 - w, Rank(d, xs)) /\ q = Share(w, Rank(d, ys))
        /\ r = Share(10 - w, Rank(e, xs)) /\ t = Share(w, Rank(e, ys))
  BY <1>1, <1>2, SharesOfRanks
<1>4. Score(d, xs, ys, w) = Plus(p, q) /\ Score(e, xs, ys, w) = Plus(r, t)
  BY <1>3 DEF Score
<1>5. ASSUME Place(d, xs) <= Place(e, xs), Place(d, ys) <= Place(e, ys)
      PROVE  ~Exceeds(r, p) /\ ~Exceeds(t, q)
  BY <1>1, <1>2, <1>3, <1>5, SharesOfRanks
<1> QED
  BY <1>3, <1>4, <1>5, SumsOfFractions

\* The documents of two rankings.
Ranked(xs, ys) == Range(xs) \cup Range(ys)

\* The fusion is a sequence of the documents of both rankings, each once, and
\* puts no document behind one that it stands in front of in both.
LEMMA FusionIsInOrder ==
  ASSUME NEW S, NEW xs \in Seq(S), Distinct(xs), NEW ys \in Seq(S), Distinct(ys), NEW w \in 0..10
  PROVE  /\ Fuse(xs, ys, w) \in Seq(Ranked(xs, ys)) /\ Distinct(Fuse(xs, ys, w))
         /\ Range(Fuse(xs, ys, w)) = Ranked(xs, ys)
         /\ \A d, e \in Ranked(xs, ys) :
              Place(d, xs) <= Place(e, xs) /\ Place(d, ys) <= Place(e, ys) /\ d # e =>
                Rank(d, Fuse(xs, ys, w)) < Rank(e, Fuse(xs, ys, w))
<1> DEFINE D == Ranked(xs, ys)
           value == [d \in D |-> Score(d, xs, ys, w)]
           place == [d \in D |-> Entry(d, xs, ys)]
<1>1. Fuse(xs, ys, w) = ByValue(D, value, place)
  BY DEF Fuse, Ranked
<1>2. IsFiniteSet(D)
  <2>1. IsFiniteSet(Range(xs)) /\ IsFiniteSet(Range(ys))
    BY RanksOfDocuments
  <2> QED
    BY <2>1, FS_Union DEF Ranked
<1>3. /\ Len(xs) \in Nat /\ Len(ys) \in Nat
      /\ \A x : Contains(xs, x) <=> x \in Range(xs)
      /\ \A x : x \in Range(xs) => Rank(x, xs) \in 1..Len(xs) /\ xs[Rank(x, xs)] = x
  BY RanksOfDocuments
<1>4. /\ \A y : Contains(ys, y) <=> y \in Range(ys)
      /\ \A y : y \in Range(ys) => Rank(y, ys) \in 1..Len(ys) /\ ys[Rank(y, ys)] = y
  BY RanksOfDocuments
<1>5. value \in [D -> Fraction]
  <2>1. \A d \in D : Score(d, xs, ys, w) \in Fraction
    BY ScoresRespectRankings
  <2> QED
    BY <2>1
<1>6. \A d \in D : place[d] = IF d \in Range(xs) THEN Rank(d, xs) ELSE Len(xs) + Rank(d, ys)
  BY <1>3 DEF Entry
<1>7. \A d \in D : d \notin Range(xs) => d \in Range(ys)
  BY DEF Ranked
<1>8. \A d \in D : place[d] \in Int
  BY <1>3, <1>4, <1>6, <1>7
<1>9. place \in [D -> Int]
  BY <1>8
<1>10. \A d, e \in D : d # e => place[d] # place[e]
  BY <1>3, <1>4, <1>6, <1>7
<1>11. \A d \in D : value[d] = Score(d, xs, ys, w)
  OBVIOUS
<1>12. PICK s : s = Fuse(xs, ys, w)
  OBVIOUS
<1> HIDE DEF D, value, place
<1>s. s = ByValue(D, value, place)
  BY <1>1, <1>12
<1>13. /\ s \in Seq(D) /\ Len(s) = Cardinality(D) /\ Cardinality(D) \in Nat
       /\ \A d \in D : \E n \in 1..Cardinality(D) : s[n] = d
       /\ \A m, n \in 1..Cardinality(D) : Precedes(value, place, s[m], s[n]) <=> m < n
  BY <1>2, <1>5, <1>9, <1>10, <1>s, ByValueIsInOrder
<1>14. PICK L \in Nat : L = Len(s)
  BY <1>13
<1>15. Distinct(s)
  <2> SUFFICES ASSUME NEW i \in 1..L, NEW j \in 1..L, s[i] = s[j] PROVE i = j
    BY <1>14 DEF Distinct
  <2>1. /\ Precedes(value, place, s[i], s[j]) <=> i < j
        /\ Precedes(value, place, s[j], s[i]) <=> j < i
        /\ Precedes(value, place, s[i], s[i]) <=> i < i
    BY <1>13, <1>14
  <2> QED
    BY <2>1
<1>16. Range(s) = D
  <2>1. DOMAIN s = 1..L /\ \A i \in 1..L : s[i] \in D
    BY <1>13, <1>14
  <2>2. \A d \in D : \E n \in 1..L : s[n] = d
    BY <1>13, <1>14
  <2> QED
    BY <2>1, <2>2 DEF Range
<1>17. ASSUME NEW d \in D, NEW e \in D, d # e,
              Place(d, xs) <= Place(e, xs), Place(d, ys) <= Place(e, ys)
       PROVE  Rank(d, s) < Rank(e, s)
  <2>1. PICK m \in 1..L, n \in 1..L : /\ m = Rank(d, s) /\ s[m] = d
                                      /\ n = Rank(e, s) /\ s[n] = e
    BY <1>13, <1>14, <1>15, <1>16, RanksOfDocuments
  <2>2. ~Exceeds(value[e], value[d])
    BY <1>11, <1>17, ScoresRespectRankings
  <2>3. place[d] < place[e]
    <3>1. CASE d \in Range(xs) /\ e \in Range(xs)
      <4>1. Rank(d, xs) <= Rank(e, xs) /\ Rank(d, xs) # Rank(e, xs)
        BY <1>3, <1>17, <3>1 DEF Place
      <4> QED
        BY <1>3, <1>6, <3>1, <4>1
    <3>2. CASE d \in Range(xs) /\ e \notin Range(xs)
      BY <1>3, <1>4, <1>6, <1>7, <3>2
    <3>3. CASE d \notin Range(xs) /\ e \in Range(xs)
      BY <1>3, <1>17, <3>3 DEF Place
    <3>4. CASE d \notin Range(xs) /\ e \notin Range(xs)
      <4>1. d \in Range(ys) /\ e \in Range(ys)
        BY <1>7, <3>4
      <4>2. Rank(d, ys) <= Rank(e, ys) /\ Rank(d, ys) # Rank(e, ys)
        BY <1>4, <1>17, <4>1 DEF Place
      <4> QED
        BY <1>3, <1>4, <1>6, <3>4, <4>1, <4>2
    <3> QED
      BY <3>1, <3>2, <3>3, <3>4
  <2>4. Precedes(value, place, s[m], s[n])
    BY <2>1, <2>2, <2>3 DEF Precedes
  <2>5. m < n
    BY <1>13, <1>14, <2>4
  <2> QED
    BY <2>1, <2>5
<1> QED
  BY <1>12, <1>13, <1>15, <1>16, <1>17 DEF D

-----------------------------------------------------------------------------
(* The candidates ranked again.                                            *)

\* What the cross-encoder puts in front of what, by the scores xs.
Better(xs, docs, d, e) ==
  xs[d] > xs[e] \/ (xs[d] = xs[e] /\ Rank(d, docs) < Rank(e, docs))

\* Reranking keeps the candidates and puts the better ones in front.
LEMMA RerankedIsInOrder ==
  ASSUME NEW S, NEW docs \in Seq(S), Distinct(docs), NEW xs \in [S -> Int]
  PROVE  /\ Reranked(docs, xs) \in Seq(Range(docs)) /\ Distinct(Reranked(docs, xs))
         /\ Len(Reranked(docs, xs)) = Len(docs) /\ Len(docs) \in Nat
         /\ \A d \in Range(docs) : \E n \in 1..Len(docs) : Reranked(docs, xs)[n] = d
         /\ \A m, n \in 1..Len(docs) :
              m < n => Better(xs, docs, Reranked(docs, xs)[m], Reranked(docs, xs)[n])
<1> DEFINE D == Range(docs)
           value == [d \in Range(docs) |-> [num |-> xs[d], den |-> 1]]
           place == [d \in Range(docs) |-> Rank(d, docs)]
<1>1. PICK s : s = Reranked(docs, xs)
  OBVIOUS
<1>2. s = ByValue(D, value, place)
  BY <1>1 DEF Reranked
<1>3. /\ Len(docs) \in Nat /\ IsFiniteSet(D) /\ Cardinality(D) = Len(docs) /\ D \subseteq S
      /\ \A d \in D : Rank(d, docs) \in 1..Len(docs) /\ docs[Rank(d, docs)] = d
  BY RanksOfDocuments
<1>4. /\ \A d \in D : value[d] = [num |-> xs[d], den |-> 1] /\ xs[d] \in Int
      /\ \A d \in D : place[d] = Rank(d, docs)
  BY <1>3
<1>5. value \in [D -> Fraction]
  <2>1. \A d \in D : [num |-> xs[d], den |-> 1] \in Fraction
    BY <1>4 DEF Fraction
  <2> QED
    BY <2>1
<1>6. place \in [D -> Int]
  BY <1>3
<1>a. \A d, e \in D : d # e => place[d] # place[e]
  BY <1>3
<1>b. IsFiniteSet(D)
  BY <1>3
<1>d. Cardinality(D) = Len(docs) /\ Len(docs) \in Nat
  BY <1>3
<1> HIDE DEF D, value, place
<1>7. /\ s \in Seq(D) /\ Len(s) = Cardinality(D)
      /\ \A d \in D : \E n \in 1..Cardinality(D) : s[n] = d
      /\ \A m, n \in 1..Cardinality(D) : Precedes(value, place, s[m], s[n]) <=> m < n
  BY <1>2, <1>b, <1>5, <1>6, <1>a, ByValueIsInOrder
<1>c. Len(s) = Len(docs) /\ Cardinality(D) = Len(docs) /\ Len(docs) \in Nat
  BY <1>3, <1>7, <1>d
<1>8. ASSUME NEW m \in 1..Len(docs), NEW n \in 1..Len(docs), m < n
      PROVE  Better(xs, docs, s[m], s[n])
  <2>1. s[m] \in D /\ s[n] \in D
    <3>1. DOMAIN s = 1..Len(docs) /\ \A i \in DOMAIN s : s[i] \in D
      BY <1>c, <1>7
    <3> QED
      BY <3>1
  <2>2. PICK d \in D, e \in D : d = s[m] /\ e = s[n]
    BY <2>1
  <2>3. Precedes(value, place, s[m], s[n])
    BY <1>c, <1>7, <1>8
  <2>4. Precedes(value, place, d, e)
    BY <2>2, <2>3
  <2>5. /\ value[d].num = xs[d] /\ value[d].den = 1 /\ xs[d] \in Int
        /\ value[e].num = xs[e] /\ value[e].den = 1 /\ xs[e] \in Int
        /\ place[d] = Rank(d, docs) /\ place[e] = Rank(e, docs)
    <3>1. value[d] = [num |-> xs[d], den |-> 1] /\ value[e] = [num |-> xs[e], den |-> 1]
      BY <1>4
    <3>2. value[d].num = xs[d] /\ value[d].den = 1 /\ value[e].num = xs[e] /\ value[e].den = 1
      BY <3>1
    <3> QED
      BY <1>4, <3>2
  <2>6. xs[d] * 1 = xs[d] /\ xs[e] * 1 = xs[e]
    BY <2>5
  <2>7. Exceeds(value[d], value[e]) => xs[d] > xs[e]
    BY <2>5, <2>6 DEF Exceeds
  <2>8. ~Exceeds(value[e], value[d]) => xs[d] >= xs[e]
    BY <2>5, <2>6 DEF Exceeds
  <2>9. Better(xs, docs, d, e)
    BY <2>4, <2>5, <2>7, <2>8 DEF Precedes, Better
  <2> QED
    BY <2>2, <2>9
<1>9. Distinct(s)
  <2>1. ASSUME NEW m \in 1..Len(docs), NEW n \in 1..Len(docs), s[m] = s[n] PROVE m = n
    <3>1. /\ Precedes(value, place, s[m], s[n]) <=> m < n
          /\ Precedes(value, place, s[n], s[m]) <=> n < m
          /\ Precedes(value, place, s[m], s[m]) <=> m < m
      BY <1>3, <1>7
    <3> QED
      BY <2>1, <3>1
  <2> QED
    BY <1>3, <1>7, <2>1 DEF Distinct
<1> QED
  BY <1>1, <1>3, <1>7, <1>8, <1>9 DEF D

-----------------------------------------------------------------------------
(* The invariant of a request.                                             *)

\* A ranking the searches could have brought.
Sane(s) == s \in Seq(table \cap filters) /\ Distinct(s) /\ Len(s) <= RetrieveK

\* RagTypeOK, and what is empty as long as it has not been asked for.
RagTyped ==
  /\ pc \in Working \cup {"answered", "not found", "failed"}
  /\ Early \subseteq table /\ table \subseteq Docs /\ filters \subseteq Docs
  /\ alpha \in 0..10
  /\ embedded \in {"query", "hypothesis"}
  /\ score \in [Docs -> Int]
  /\ Sane(dense) /\ Sane(sparse) /\ Sane(fused) /\ Sane(contexts)
  /\ pc \in {"filters", "hyde", "dense"} => dense = <<>>
  /\ pc \in {"filters", "hyde", "dense", "sparse"} =>
       sparse = <<>> /\ fused = <<>> /\ contexts = <<>>

\* Found is the fusion, what the answer is made from is the reranked rest of
\* it; and where there is none, nothing had the words of the question.
RagInv ==
  /\ RagTyped
  /\ fused # <<>> => fused = Top(Fuse(dense, sparse, alpha), RetrieveK)
  /\ pc \in {"generate", "answered"} => contexts = Top(Reranked(fused, score), RerankK)
  /\ pc = "not found" => Early \cap filters \cap matches = {}

\* The empty ranking is sane.
LEMMA EmptyIsSane == Sane(<<>>)
<1>1. <<>> \in Seq(table \cap filters) /\ Len(<<>>) = 0
  BY EmptySeq
<1> QED
  BY <1>1, RagAssumption DEF Sane, Distinct

\* The invariant holds at first.
LEMMA RagFirst == RagInit => RagInv
<1> SUFFICES ASSUME RagInit PROVE RagInv
  OBVIOUS
<1>1. Sane(dense) /\ Sane(sparse) /\ Sane(fused) /\ Sane(contexts)
  BY EmptyIsSane DEF RagInit
<1>2. RagTyped
  BY <1>1, RagAssumption DEF RagInit, RagTyped, Working
<1> QED
  BY <1>2 DEF RagInit, RagInv

\* The first of a sane ranking are one.
LEMMA TopIsDistinct ==
  ASSUME NEW S, NEW s \in Seq(S), Distinct(s), NEW k \in Nat
  PROVE  Top(s, k) \in Seq(S) /\ Distinct(Top(s, k)) /\ Len(Top(s, k)) <= k
<1>1. PICK t : t = Top(s, k)
  OBVIOUS
<1>2. /\ t \in Seq(S) /\ Len(t) \in 0..k /\ Len(t) <= Len(s)
      /\ \A i \in 1..Len(t) : t[i] = s[i]
  BY <1>1, TopIsAPrefix
<1>3. Distinct(t)
  BY <1>2 DEF Distinct
<1> QED
  BY <1>1, <1>2, <1>3

\* Documents stay in the table.
LEMMA SaneStays ==
  ASSUME NEW s, Sane(s), table \subseteq table', filters' = filters
  PROVE  s \in Seq(table' \cap filters') /\ Distinct(s) /\ Len(s) <= RetrieveK
BY SeqMonotonic DEF Sane

\* A step of the indexer.
LEMMA IndexerKeepsRag == RagInv /\ IndexerCommits => RagInv'
<1> SUFFICES ASSUME RagInv, IndexerCommits PROVE RagInv'
  OBVIOUS
<1>1. table' = Docs /\ filters' = filters /\ table \subseteq table'
  BY DEF IndexerCommits, RagInv, RagTyped
<1>2. UNCHANGED <<pc, alpha, matches, embedded, dense, sparse, fused, score, contexts>>
  BY DEF IndexerCommits, request
<1>3. Sane(dense)' /\ Sane(sparse)' /\ Sane(fused)' /\ Sane(contexts)'
  BY <1>1, <1>2, SaneStays DEF RagInv, RagTyped, Sane
<1>4. RagTyped'
  BY <1>1, <1>2, <1>3, RagAssumption DEF RagInv, RagTyped
<1> QED
  BY <1>1, <1>2, <1>4 DEF RagInv

\* A step that leaves what was found.
LEMMA ElsewhereKeepsRag ==
  ASSUME RagInv,
         UNCHANGED <<table, alpha, matches, filters, dense, sparse, fused, score, contexts>>,
         \/ pc' \in {"failed", pc}
         \/ pc = "hyde" /\ pc' = "dense"
         \/ pc = "generate" /\ pc' = "answered",
         embedded' \in {"query", "hypothesis"}
  PROVE  RagInv'
<1>1. Sane(dense)' /\ Sane(sparse)' /\ Sane(fused)' /\ Sane(contexts)'
  BY DEF RagInv, RagTyped, Sane
<1>2. RagTyped'
  BY <1>1 DEF RagInv, RagTyped, Working
<1> QED
  BY <1>2 DEF RagInv

\* The filters are chosen before anything is found.
LEMMA FiltersKeepRag == RagInv /\ ExtractFilters => RagInv'
<1> SUFFICES ASSUME RagInv, ExtractFilters PROVE RagInv'
  OBVIOUS
<1>1. /\ pc = "filters" /\ pc' = "hyde" /\ filters' \in Conditions \cup {Docs}
      /\ UNCHANGED <<table, alpha, embedded, dense, sparse, fused, score, contexts>>
      /\ dense = <<>> /\ sparse = <<>> /\ fused = <<>> /\ contexts = <<>>
  BY DEF ExtractFilters, request, RagInv, RagTyped
<1>2. Sane(<<>>)'
  <2>1. <<>> \in Seq(table' \cap filters') /\ Len(<<>>) = 0
    BY EmptySeq
  <2> QED
    BY <2>1, RagAssumption DEF Sane, Distinct
<1>3. Sane(dense)' /\ Sane(sparse)' /\ Sane(fused)' /\ Sane(contexts)'
  BY <1>1, <1>2
<1>4. filters' \subseteq Docs
  BY <1>1, RagAssumption
<1>5. RagTyped'
  BY <1>1, <1>3, <1>4 DEF RagInv, RagTyped, Working
<1> QED
  BY <1>1, <1>5 DEF RagInv

\* A sequence of documents that the table has and the filters select.
LEMMA SubsetsAreSane ==
  ASSUME NEW S, S \subseteq table \cap filters, NEW s \in Seq(S), Distinct(s)
  PROVE  Sane(Top(s, RetrieveK))
<1>1. RetrieveK \in Nat
  BY RagAssumption
<1>2. s \in Seq(table \cap filters)
  BY SeqMonotonic
<1> QED
  BY <1>1, <1>2, TopIsDistinct DEF Sane

\* The dense search finds some of what the conditions select.
LEMMA VectorSearchKeepsRag == RagInv /\ VectorSearch => RagInv'
<1> SUFFICES ASSUME RagInv, VectorSearch PROVE RagInv'
  OBVIOUS
<1> DEFINE T == table \cap filters
<1>1. /\ pc = "dense" /\ pc' = "sparse"
      /\ UNCHANGED <<table, alpha, filters, embedded, sparse, fused, score, contexts>>
      /\ sparse = <<>> /\ fused = <<>> /\ contexts = <<>>
  BY DEF VectorSearch, request, RagInv, RagTyped
<1>2. PICK found \in SUBSET T : \E order \in Orderings(found) : dense' = Top(order, RetrieveK)
  BY DEF VectorSearch
<1>3. PICK order \in Orderings(found) : dense' = Top(order, RetrieveK)
  BY <1>2
<1>4. order \in Seq(found) /\ Distinct(order)
  <2>1. found \in SUBSET Docs
    BY DEF RagInv, RagTyped
  <2>2. IsFiniteSet(found)
    BY <2>1, RagAssumption, FS_Subset
  <2> QED
    BY <2>2, OrderingsAreDistinct
<1>5. Sane(Top(order, RetrieveK))
  BY <1>4, SubsetsAreSane
<1>6. Sane(dense)'
  BY <1>1, <1>3, <1>5 DEF Sane
<1>7. Sane(sparse)' /\ Sane(fused)' /\ Sane(contexts)'
  BY <1>1 DEF RagInv, RagTyped, Sane
<1>8. RagTyped'
  BY <1>1, <1>6, <1>7 DEF RagInv, RagTyped, Working
<1> QED
  BY <1>1, <1>8 DEF RagInv

\* The fusion loses no document but by its limit.
LEMMA FtsSearchKeepsRag == RagInv /\ FtsSearch => RagInv'
<1> SUFFICES ASSUME RagInv, FtsSearch PROVE RagInv'
  OBVIOUS
<1> DEFINE T == table \cap filters
<1>1. /\ pc = "sparse" /\ contexts = <<>>
      /\ UNCHANGED <<table, alpha, matches, filters, embedded, dense, score, contexts>>
      /\ Sane(dense) /\ alpha \in 0..10
  BY DEF FtsSearch, request, RagInv, RagTyped
<1>2. PICK matching \in SUBSET T : matching = table \cap filters \cap matches
  OBVIOUS
<1>3. PICK order \in Orderings(matching) :
        /\ sparse' = Top(order, RetrieveK)
        /\ fused' = Top(Fuse(dense, Top(order, RetrieveK), alpha), RetrieveK)
        /\ pc' = IF fused' = <<>> THEN "not found" ELSE "rerank"
  BY <1>2 DEF FtsSearch, Retrieved
<1>4. IsFiniteSet(matching)
  <2>1. matching \in SUBSET Docs
    BY DEF RagInv, RagTyped
  <2> QED
    BY <2>1, RagAssumption, FS_Subset
<1>5. /\ order \in Seq(matching) /\ Distinct(order)
      /\ Len(order) = Cardinality(matching) /\ Len(order) \in Nat
  BY <1>4, OrderingsAreDistinct
<1>6. PICK found : found = Top(order, RetrieveK)
  OBVIOUS
<1>7. Sane(found)
  BY <1>5, <1>6, SubsetsAreSane
<1>8. PICK docs : docs = Fuse(dense, found, alpha)
  OBVIOUS
<1>9. /\ docs \in Seq(Ranked(dense, found)) /\ Distinct(docs)
      /\ Range(docs) = Ranked(dense, found)
  <2>1. dense \in Seq(T) /\ Distinct(dense) /\ found \in Seq(T) /\ Distinct(found)
    BY <1>1, <1>7 DEF Sane
  <2> HIDE DEF T
  <2> QED
    BY <1>1, <1>8, <2>1, FusionIsInOrder
<1>10. Ranked(dense, found) \subseteq T
  <2>1. dense \in Seq(T) /\ found \in Seq(T) /\ Distinct(dense) /\ Distinct(found)
    BY <1>1, <1>7 DEF Sane
  <2>2. Range(dense) \subseteq T /\ Range(found) \subseteq T
    BY <2>1, RanksOfDocuments
  <2> QED
    BY <2>2 DEF Ranked
<1>11. Sane(Top(docs, RetrieveK))
  BY <1>9, <1>10, SubsetsAreSane
<1>12. sparse' = found /\ fused' = Top(docs, RetrieveK)
  BY <1>3, <1>6, <1>8
<1>13. Sane(sparse)' /\ Sane(fused)' /\ Sane(dense)' /\ Sane(contexts)'
  BY <1>1, <1>7, <1>11, <1>12 DEF RagInv, RagTyped, Sane
<1>14. ASSUME fused' = <<>> PROVE Early \cap filters \cap matches = {}
  <2>1. RetrieveK \in Nat /\ RetrieveK # 0
    BY RagAssumption
  <2>2. Len(Top(docs, RetrieveK)) \in {RetrieveK, Len(docs)}
    BY <1>9, <2>1, TopIsAPrefix
  <2>3. Len(docs) = 0
    BY <1>12, <1>14, <2>1, <2>2
  <2>4. Range(docs) = {}
    BY <1>9, <2>3 DEF Range
  <2>5. Range(found) = {}
    BY <1>9, <2>4 DEF Ranked
  <2>6. found \in Seq(T)
    BY <1>7 DEF Sane
  <2>7. PICK n \in Nat : n = Len(found) /\ DOMAIN found = 1..n
    BY <2>6
  <2>8. n = 0
    <3>1. \A i \in 1..n : found[i] \in Range(found)
      BY <2>7 DEF Range
    <3> QED
      BY <2>5, <3>1
  <2>9. Len(found) \in {RetrieveK, Len(order)}
    BY <1>5, <1>6, <2>1, TopIsAPrefix
  <2>10. Cardinality(matching) = 0
    BY <1>5, <2>1, <2>7, <2>8, <2>9
  <2>11. matching = {}
    BY <1>4, <2>10, FS_EmptySet
  <2>12. Early \subseteq table
    BY DEF RagInv, RagTyped
  <2> QED
    BY <1>2, <2>11, <2>12
<1>15. pc' \in {"not found", "rerank"} /\ (pc' = "not found" => fused' = <<>>)
  BY <1>3
<1>16. RagTyped'
  BY <1>1, <1>13, <1>15 DEF RagInv, RagTyped, Working
<1>17. fused' # <<>> => fused' = Top(Fuse(dense', sparse', alpha'), RetrieveK)
  BY <1>1, <1>8, <1>12
<1> QED
  BY <1>1, <1>14, <1>15, <1>16, <1>17 DEF RagInv

\* The answer is made from candidates.
LEMMA RerankKeepsRag == RagInv /\ Rerank => RagInv'
<1> SUFFICES ASSUME RagInv, Rerank PROVE RagInv'
  OBVIOUS
<1> DEFINE T == table \cap filters
<1>1. /\ pc = "rerank" /\ pc' = "generate"
      /\ UNCHANGED <<table, alpha, filters, embedded, dense, sparse, fused>>
      /\ Sane(fused) /\ T \subseteq Docs
  BY DEF Rerank, request, RagInv, RagTyped
<1>2. score' \in [Docs -> Int] /\ contexts' = Top(Reranked(fused, score'), RerankK)
  <2>1. score' \in [Docs -> Scores \cup {0}] /\ contexts' = Top(Reranked(fused, score'), RerankK)
    BY DEF Rerank
  <2>2. Scores \cup {0} \subseteq Int
    BY RagAssumption
  <2> QED
    BY <2>1, <2>2
<1>3. RerankK \in Nat /\ RerankK <= RetrieveK /\ RetrieveK \in Nat
  BY RagAssumption
<1>4. fused \in Seq(Docs) /\ Distinct(fused) /\ fused \in Seq(T)
  BY <1>1, SeqMonotonic DEF Sane
<1>5. PICK xs \in [Docs -> Int] : xs = score'
  BY <1>2
<1>6. Reranked(fused, xs) \in Seq(Range(fused)) /\ Distinct(Reranked(fused, xs))
  BY <1>4, RerankedIsInOrder
<1>7. Range(fused) \subseteq T
  BY <1>4, RanksOfDocuments
<1>8. PICK s : s = Reranked(fused, xs)
  OBVIOUS
<1>9. s \in Seq(T) /\ Distinct(s)
  BY <1>6, <1>7, <1>8, SeqMonotonic
<1>10. Top(s, RerankK) \in Seq(T) /\ Distinct(Top(s, RerankK)) /\ Len(Top(s, RerankK)) <= RerankK
  BY <1>3, <1>9, TopIsDistinct
<1>11. contexts' = Top(s, RerankK)
  BY <1>2, <1>5, <1>8
<1>12. Len(Top(s, RerankK)) <= RetrieveK
  <2>1. Len(Top(s, RerankK)) \in Nat
    BY <1>10
  <2> QED
    BY <1>3, <1>10, <2>1
<1>13. Sane(contexts)'
  BY <1>1, <1>10, <1>11, <1>12 DEF Sane
<1>14. Sane(dense)' /\ Sane(sparse)' /\ Sane(fused)'
  BY <1>1 DEF RagInv, RagTyped, Sane
<1>15. RagTyped'
  BY <1>1, <1>2, <1>13, <1>14 DEF RagInv, RagTyped, Working
<1> QED
  BY <1>1, <1>2, <1>15 DEF RagInv

\* Every step keeps the invariant.
LEMMA RagInductive == RagInv /\ [RagNext]_ragVars => RagInv'
<1> SUFFICES ASSUME RagInv, [RagNext]_ragVars PROVE RagInv'
  OBVIOUS
<1>1. CASE ExtractFilters
  BY <1>1, FiltersKeepRag
<1>2. CASE RewriteHyde
  <2>1. /\ pc = "hyde" /\ pc' = "dense" /\ embedded' \in {"query", "hypothesis"}
        /\ UNCHANGED <<table, alpha, matches, filters, dense, sparse, fused, score, contexts>>
    BY <1>2 DEF RewriteHyde, request
  <2> QED
    BY <2>1, ElsewhereKeepsRag
<1>3. CASE VectorSearch
  BY <1>3, VectorSearchKeepsRag
<1>4. CASE FtsSearch
  BY <1>4, FtsSearchKeepsRag
<1>5. CASE Rerank
  BY <1>5, RerankKeepsRag
<1>6. CASE Generate
  <2>1. /\ pc = "generate" /\ pc' = "answered" /\ embedded' \in {"query", "hypothesis"}
        /\ UNCHANGED <<table, alpha, matches, filters, dense, sparse, fused, score, contexts>>
    BY <1>6 DEF Generate, request, RagInv, RagTyped
  <2> QED
    BY <2>1, ElsewhereKeepsRag
<1>7. CASE Fail
  <2>1. /\ pc' = "failed" /\ embedded' \in {"query", "hypothesis"}
        /\ UNCHANGED <<table, alpha, matches, filters, dense, sparse, fused, score, contexts>>
    BY <1>7 DEF Fail, request, RagInv, RagTyped
  <2> QED
    BY <2>1, ElsewhereKeepsRag
<1>8. CASE IndexerCommits
  BY <1>8, IndexerKeepsRag
<1>9. CASE UNCHANGED ragVars
  <2>1. /\ pc' = pc /\ embedded' \in {"query", "hypothesis"}
        /\ UNCHANGED <<table, alpha, matches, filters, dense, sparse, fused, score, contexts>>
    BY <1>9 DEF ragVars, request, RagInv, RagTyped
  <2> QED
    BY <2>1, ElsewhereKeepsRag
<1> QED
  BY <1>1, <1>2, <1>3, <1>4, <1>5, <1>6, <1>7, <1>8, <1>9 DEF RagNext, Step, RagFinished

\* The invariant is one.
LEMMA RagInvariant == RagSpec => []RagInv
BY RagFirst, RagInductive, PTL DEF RagSpec

\* What the searches find, the fusion makes of it and the answer is made from
\* are documents of the table that the filters of the question select, none
\* twice and no more than the limit (rag.py:36-74).
THEOREM RagTypeCorrect == RagSpec => []RagTypeOK
<1>1. RagInv => RagTypeOK
  <2> SUFFICES ASSUME RagInv, NEW docs \in {dense, sparse, fused, contexts}
               PROVE  /\ Range(docs) \subseteq table \cap filters
                      /\ Len(docs) <= RetrieveK /\ IsInjective(docs)
    BY DEF RagInv, RagTyped, RagTypeOK
  <2>1. Sane(docs)
    BY DEF RagInv, RagTyped
  <2>2. docs \in Seq(table \cap filters) /\ Distinct(docs) /\ Len(docs) <= RetrieveK
    BY <2>1 DEF Sane
  <2>3. Range(docs) \subseteq table \cap filters
    BY <2>2, RanksOfDocuments
  <2>4. DOMAIN docs = 1..Len(docs)
    BY <2>2
  <2>5. IsInjective(docs)
    BY <2>2, <2>4 DEF Distinct, IsInjective
  <2> QED
    BY <2>2, <2>3, <2>5
<1> QED
  BY RagInvariant, <1>1, PTL

\* That there is nothing to be found is said only where nothing in the table
\* had the words of the question and fulfilled the conditions, for every table,
\* limit and weight, and whatever the dense search missed: the full-text search
\* alone finds the last document that does (rag.py:60).
THEOREM NotFoundMeansNone == RagSpec => []NotFoundIsTrue
<1>1. RagInv => NotFoundIsTrue
  BY DEF RagInv, NotFoundIsTrue
<1> QED
  BY RagInvariant, <1>1, PTL

\* The place of a document in the first of a ranking.
LEMMA PlacesInTop ==
  ASSUME NEW S, NEW s \in Seq(S), Distinct(s), NEW k \in Nat,
         NEW d \in Range(s), NEW e \in Range(s),
         Rank(d, s) < Rank(e, s)
  PROVE  Place(d, Top(s, k)) <= Place(e, Top(s, k))
<1>1. PICK t : t = Top(s, k)
  OBVIOUS
<1>2. /\ t \in Seq(S) /\ Len(t) \in Nat /\ Len(t) <= Len(s)
      /\ \A i \in 1..Len(t) : t[i] = s[i]
  <2>1. /\ t \in Seq(S) /\ Len(t) \in 0..k /\ Len(t) <= Len(s)
        /\ \A i \in 1..Len(t) : t[i] = s[i]
    BY <1>1, TopIsAPrefix
  <2> QED
    BY <2>1
<1>3. Distinct(t)
  BY <1>1, TopIsDistinct
<1>4. ASSUME NEW x \in Range(s)
      PROVE  /\ Rank(x, s) \in 1..Len(s)
             /\ Place(x, t) = IF Rank(x, s) <= Len(t) THEN Rank(x, s) ELSE Len(t) + 1
  <2>1. PICK r \in 1..Len(s) : r = Rank(x, s) /\ s[r] = x
    BY RanksOfDocuments
  <2>2. ASSUME r <= Len(t) PROVE Place(x, t) = r
    <3>1. r \in 1..Len(t)
      BY <1>2, <2>2
    <3>2. t[r] = x
      BY <1>2, <2>1, <3>1
    <3>3. x \in Range(t) /\ Rank(x, t) = r
      BY <1>2, <1>3, <3>1, <3>2, RanksOfDocuments
    <3>4. Contains(t, x)
      BY <1>2, <1>3, <3>3, RanksOfDocuments
    <3> QED
      BY <3>3, <3>4 DEF Place
  <2>3. ASSUME ~(r <= Len(t)) PROVE Place(x, t) = Len(t) + 1
    <3>1. ASSUME x \in Range(t) PROVE FALSE
      <4>1. PICK q \in 1..Len(t) : t[q] = x
        BY <1>2, <1>3, <3>1, RanksOfDocuments
      <4>2. q \in 1..Len(s) /\ s[q] = x
        BY <1>2, <4>1
      <4>3. q = r
        BY <2>1, <4>2 DEF Distinct
      <4> QED
        BY <2>3, <4>1, <4>3
    <3>2. ~Contains(t, x)
      BY <1>2, <1>3, <3>1, RanksOfDocuments
    <3> QED
      BY <3>2 DEF Place
  <2> QED
    BY <2>1, <2>2, <2>3
<1>5. Place(d, t) <= Place(e, t)
  BY <1>2, <1>4
<1> QED
  BY <1>1, <1>5

\* No weight, zero included, and no limit puts a document behind one that
\* neither ranking puts in front of it (_rrf_fuse, retriever.py:13-38): the
\* stable sort keeps what the scores do not decide.
THEOREM FusionKeepsAgreement == RagSpec => []FusionRespectsBothRankings
<1>1. RagInv => FusionRespectsBothRankings
  <2> SUFFICES ASSUME RagInv, fused # <<>>,
                      NEW d \in Ranked(dense, sparse), NEW e \in Ranked(dense, sparse),
                      Place(d, dense) <= Place(e, dense),
                      Place(d, sparse) <= Place(e, sparse), d # e
               PROVE  Place(d, fused) <= Place(e, fused)
    BY DEF FusionRespectsBothRankings, Ranked
  <2> DEFINE T == table \cap filters
  <2>1. /\ dense \in Seq(T) /\ Distinct(dense) /\ sparse \in Seq(T) /\ Distinct(sparse)
        /\ alpha \in 0..10 /\ fused = Top(Fuse(dense, sparse, alpha), RetrieveK)
    BY DEF RagInv, RagTyped, Sane
  <2> HIDE DEF T
  <2>2. PICK s : s = Fuse(dense, sparse, alpha)
    OBVIOUS
  <2>3. /\ s \in Seq(Ranked(dense, sparse)) /\ Distinct(s)
        /\ Range(s) = Ranked(dense, sparse)
        /\ Rank(d, s) < Rank(e, s)
    BY <2>1, <2>2, FusionIsInOrder
  <2>4. RetrieveK \in Nat
    BY RagAssumption
  <2>5. Place(d, Top(s, RetrieveK)) <= Place(e, Top(s, RetrieveK))
    BY <2>3, <2>4, PlacesInTop
  <2> QED
    BY <2>1, <2>2, <2>5
<1> QED
  BY RagInvariant, <1>1, PTL

\* The answer is made from the first of the candidates by the scores of the
\* cross-encoder, and by their place in the fusion where these are equal, and
\* from as many as there are up to the limit (rag.py:64-70).
THEOREM BestContexts == RagSpec => []ContextsAreTheBest
<1>1. RagInv => ContextsAreTheBest
  <2> SUFFICES ASSUME RagInv, pc \in {"generate", "answered"}
               PROVE  /\ Len(contexts) = Min({RerankK, Len(fused)})
                      /\ \A d \in Range(contexts), e \in Range(fused) :
                           \/ d = e
                           \/ Better(score, fused, d, e)
                           \/ Contains(contexts, e) /\ Rank(e, contexts) < Rank(d, contexts)
    BY DEF ContextsAreTheBest, Better
  <2>1. /\ fused \in Seq(Docs) /\ Distinct(fused) /\ score \in [Docs -> Int]
        /\ contexts = Top(Reranked(fused, score), RerankK)
        /\ contexts \in Seq(Docs) /\ Distinct(contexts)
    <3>1. table \cap filters \subseteq Docs
      BY DEF RagInv, RagTyped
    <3> QED
      BY <3>1, SeqMonotonic DEF RagInv, RagTyped, Sane
  <2>2. PICK s : s = Reranked(fused, score)
    OBVIOUS
  <2>3. /\ s \in Seq(Range(fused)) /\ Len(s) = Len(fused) /\ Len(fused) \in Nat
        /\ \A d \in Range(fused) : \E n \in 1..Len(fused) : s[n] = d
        /\ \A m, n \in 1..Len(fused) : m < n => Better(score, fused, s[m], s[n])
    <3>1. PICK f \in Seq(Docs), xs \in [Docs -> Int] : f = fused /\ xs = score /\ Distinct(f)
      BY <2>1
    <3>2. PICK u : u = Reranked(f, xs)
      OBVIOUS
    <3>3. /\ u \in Seq(Range(f)) /\ Len(u) = Len(f) /\ Len(f) \in Nat
          /\ \A d \in Range(f) : \E n \in 1..Len(f) : u[n] = d
          /\ \A m, n \in 1..Len(f) : m < n => Better(xs, f, u[m], u[n])
      BY <3>1, <3>2, RerankedIsInOrder
    <3> QED
      BY <2>2, <3>1, <3>2, <3>3
  <2>4. RerankK \in Nat
    BY RagAssumption
  <2>5. contexts = Top(s, RerankK)
    BY <2>1, <2>2
  <2>6. /\ Len(contexts) = Min({RerankK, Len(s)}) /\ Len(contexts) \in Nat /\ Len(contexts) <= Len(s)
        /\ \A i \in 1..Len(contexts) : contexts[i] = s[i]
    BY <2>3, <2>4, <2>5, TopIsAPrefix
  <2>7. ASSUME NEW d \in Range(contexts), NEW e \in Range(fused), d # e,
               ~(Contains(contexts, e) /\ Rank(e, contexts) < Rank(d, contexts))
        PROVE  Better(score, fused, d, e)
    <3>1. PICK m \in 1..Len(contexts) : m = Rank(d, contexts) /\ contexts[m] = d
      BY <2>1, RanksOfDocuments
    <3>2. PICK n \in 1..Len(fused) : s[n] = e
      BY <2>3
    <3>3. s[m] = d /\ m \in 1..Len(fused) /\ m # n
      <4>1. m \in 1..Len(fused)
        BY <2>3, <2>6, <3>1
      <4>2. s[m] = d
        BY <2>6, <3>1
      <4>3. m # n
        BY <2>7, <3>2, <4>2
      <4> QED
        BY <4>1, <4>2, <4>3
    <3>4. ASSUME n < m PROVE FALSE
      <4>1. n \in 1..Len(contexts)
        BY <2>6, <3>1, <3>4
      <4>2. contexts[n] = e
        BY <2>6, <3>2, <4>1
      <4>3. e \in Range(contexts) /\ Rank(e, contexts) = n
        BY <2>1, <4>1, <4>2, RanksOfDocuments
      <4>4. Contains(contexts, e)
        BY <2>1, <4>3, RanksOfDocuments
      <4> QED
        BY <2>7, <3>1, <3>4, <4>3, <4>4
    <3>5. m < n
      BY <3>3, <3>4
    <3> QED
      BY <2>3, <3>2, <3>3, <3>5
  <2> QED
    BY <2>3, <2>6, <2>7
<1> QED
  BY RagInvariant, <1>1, PTL

-----------------------------------------------------------------------------
(* Rounding and totals.                                                    *)

\* What division rounds down to.
LEMMA Quotients ==
  ASSUME NEW a \in Nat, NEW b \in Nat, b > 0
  PROVE  /\ a \div b \in Nat
         /\ (a \div b) * b <= a
         /\ \A q \in Nat : q * b <= a => q <= a \div b
<1>1. a \div b \in Nat
  OBVIOUS
<1>2. (a \div b) * b <= a
  OBVIOUS
<1>3. a < (a \div b) * b + b
  OBVIOUS
<1>4. ASSUME NEW q \in Nat, q * b <= a PROVE q <= a \div b
  <2> SUFFICES ASSUME ~(q <= a \div b) PROVE FALSE
    OBVIOUS
  <2>1. PICK n \in Nat : n = a \div b
    BY <1>1
  <2>2. n + 1 <= q
    BY <2>1
  <2>3. (n + 1) * b <= q * b
    BY <2>2, Products
  <2>4. (n + 1) * b = n * b + b
    OBVIOUS
  <2>5. n * b \in Nat /\ q * b \in Nat
    OBVIOUS
  <2> QED
    BY <1>3, <1>4, <2>1, <2>3, <2>4, <2>5
<1> QED
  BY <1>1, <1>2, <1>4

\* Rounding is monotone: a greater fraction is not rounded to less.
LEMMA RoundingIsMonotone ==
  ASSUME NEW n \in Nat, NEW d \in Nat, d > 0, NEW m \in Nat, NEW e \in Nat, e > 0
  PROVE  /\ Round4(n, d) \in Nat
         /\ n = 0 => Round4(n, d) = 0
         /\ n * e <= m * d => Round4(n, d) <= Round4(m, e)
<1>1. PICK a \in Nat, b \in Nat : a = 20000 * n + d /\ b = 2 * d /\ b > 0
  <2>1. 20000 * n + d \in Nat /\ 2 * d \in Nat /\ 2 * d > 0
    OBVIOUS
  <2> QED
    BY <2>1
<1>2. PICK u \in Nat, v \in Nat : u = 20000 * m + e /\ v = 2 * e /\ v > 0
  <2>1. 20000 * m + e \in Nat /\ 2 * e \in Nat /\ 2 * e > 0
    OBVIOUS
  <2> QED
    BY <2>1
<1>3. PICK q \in Nat : q = a \div b /\ q * b <= a
  BY <1>1, Quotients
<1>4. Round4(n, d) = q
  BY <1>1, <1>3 DEF Round4
<1>5. Round4(m, e) = u \div v
  BY <1>2 DEF Round4
<1>6. ASSUME n = 0 PROVE q = 0
  <2> SUFFICES ASSUME q # 0 PROVE FALSE
    OBVIOUS
  <2>1. a = d
    BY <1>1, <1>6
  <2>2. 1 * b <= q * b
    BY Products
  <2>3. q * b \in Nat /\ 1 * b = b
    OBVIOUS
  <2> QED
    BY <1>1, <1>3, <2>1, <2>2, <2>3
<1>7. ASSUME n * e <= m * d PROVE q <= u \div v
  <2>1. PICK p \in Int : p = 2 * q - 1
    OBVIOUS
  <2>2. p * d <= 20000 * n
    <3>1. q * b = p * d + d
      BY <1>1, <2>1
    <3>2. p * d \in Int /\ q * b \in Int
      OBVIOUS
    <3> QED
      BY <1>1, <1>3, <3>1, <3>2
  <2>3. (p * d) * e <= (20000 * n) * e
    BY <2>2, Products
  <2>4. (20000 * n) * e <= (20000 * m) * d
    <3>1. (n * e) * 20000 <= (m * d) * 20000
      BY <1>7, Products
    <3>2. (n * e) * 20000 = (20000 * n) * e /\ (m * d) * 20000 = (20000 * m) * d
      OBVIOUS
    <3> QED
      BY <3>1, <3>2
  <2>5. (p * e) * d <= (20000 * m) * d
    <3>1. (p * d) * e = (p * e) * d
      OBVIOUS
    <3>2. (p * e) * d \in Int /\ (20000 * n) * e \in Int /\ (20000 * m) * d \in Int
      OBVIOUS
    <3> QED
      BY <2>3, <2>4, <3>1, <3>2
  <2>6. p * e <= 20000 * m
    BY <2>5, Products
  <2>7. q * v <= u
    <3>1. q * v = p * e + e
      BY <1>2, <2>1
    <3>2. p * e \in Int
      OBVIOUS
    <3> QED
      BY <1>2, <2>6, <3>1, <3>2
  <2> QED
    BY <1>2, <2>7, Quotients
<1> QED
  BY <1>4, <1>5, <1>6, <1>7

\* The function Total defines: the sums of f over the parts of its domain.
IsSumOf(h, f) ==
  h = [S \in SUBSET DOMAIN f |->
         IF S = {} THEN 0 ELSE LET x == CHOOSE x \in S : TRUE IN f[x] + h[S \ {x}]]

\* There are the sums over the parts of a finite domain.
LEMMA SumsOverPartsExist ==
  ASSUME NEW D, IsFiniteSet(D), NEW f \in [D -> Nat]
  PROVE  \E h : IsSumOf(h, f)
<1> DEFINE first(S) == CHOOSE x \in S : TRUE
           next(h, S) == IF S = {} THEN 0 ELSE f[first(S)] + h[S \ {first(S)}]
           upTo(h, n) == /\ h = [S \in SUBSET D |-> h[S]]
                         /\ \A S \in SUBSET D : Cardinality(S) <= n => h[S] = next(h, S)
           T == {n \in Nat : \E h : upTo(h, n)}
<1>1. 0 \in T
  <2> DEFINE h == [S \in SUBSET D |-> 0]
  <2>1. \A S \in SUBSET D : IsFiniteSet(S) /\ Cardinality(S) \in Nat
    BY FS_Subset, FS_CardinalityType
  <2>2. ASSUME NEW S \in SUBSET D, Cardinality(S) <= 0 PROVE h[S] = next(h, S)
    <3>1. S = {}
      BY <2>1, <2>2, FS_EmptySet
    <3> QED
      BY <3>1
  <2>3. upTo(h, 0)
    BY <2>2
  <2> QED
    BY <2>3
<1>2. ASSUME NEW n \in Nat, n \in T PROVE n + 1 \in T
  <2>1. PICK h : upTo(h, n)
    BY <1>2
  <2> DEFINE g == [S \in SUBSET D |-> next(h, S)]
  <2>2. ASSUME NEW S \in SUBSET D, Cardinality(S) <= n + 1 PROVE g[S] = next(g, S)
    <3>1. CASE S = {}
      BY <3>1
    <3>2. CASE S # {}
      <4>1. PICK x \in S : x = first(S)
        BY <3>2
      <4>2. IsFiniteSet(S) /\ Cardinality(S) \in Nat
        BY FS_Subset, FS_CardinalityType
      <4>3. Cardinality(S \ {x}) = Cardinality(S) - 1
        BY <4>2, FS_RemoveElement
      <4>4. S \ {x} \in SUBSET D /\ Cardinality(S \ {x}) <= n
        BY <2>2, <4>2, <4>3
      <4>5. h[S \ {x}] = next(h, S \ {x})
        BY <2>1, <4>4
      <4>6. g[S \ {x}] = next(h, S \ {x})
        BY <4>4
      <4>7. g[S] = f[x] + h[S \ {x}]
        BY <3>2, <4>1
      <4>8. next(g, S) = f[x] + g[S \ {x}]
        BY <3>2, <4>1
      <4> QED
        BY <4>5, <4>6, <4>7, <4>8
    <3> QED
      BY <3>1, <3>2
  <2>3. g = [S \in SUBSET D |-> g[S]]
    OBVIOUS
  <2> HIDE DEF g
  <2>4. upTo(g, n + 1)
    BY <2>2, <2>3
  <2>5. \E f2 : upTo(f2, n + 1)
    <3> HIDE DEF upTo
    <3> QED
      BY <2>4
  <2>6. n + 1 \in Nat
    OBVIOUS
  <2> QED
    BY <2>5, <2>6
<1>3. Nat \subseteq T
  <2> HIDE DEF T
  <2> QED
    BY <1>1, <1>2, NatSetInduction
<1>4. Cardinality(D) \in Nat
  BY FS_CardinalityType
<1>5. PICK h : upTo(h, Cardinality(D))
  BY <1>3, <1>4
<1>6. \A S \in SUBSET D : Cardinality(S) <= Cardinality(D)
  BY FS_Subset
<1>7. h = [S \in SUBSET D |-> next(h, S)]
  BY <1>5, <1>6
<1>8. DOMAIN f = D
  OBVIOUS
<1>9. IsSumOf(h, f)
  BY <1>7, <1>8 DEF IsSumOf
<1> QED
  BY <1>9

\* A total is such a sum over the whole domain.
LEMMA TotalIsSum ==
  ASSUME NEW D, IsFiniteSet(D), NEW f \in [D -> Nat]
  PROVE  \E h : IsSumOf(h, f) /\ Total(f) = h[D]
<1> DEFINE over == CHOOSE h : IsSumOf(h, f)
<1>1. IsSumOf(over, f)
  BY SumsOverPartsExist
<1>2. Total(f) = over[D]
  BY DEF Total, IsSumOf
<1> QED
  BY <1>1, <1>2

\* A total grows with what is summed.
LEMMA TotalGrows ==
  ASSUME NEW D, IsFiniteSet(D), NEW f \in [D -> Nat], NEW g \in [D -> Nat],
         \A x \in D : f[x] <= g[x]
  PROVE  Total(f) \in Nat /\ Total(g) \in Nat /\ Total(f) <= Total(g)
<1>1. PICK u : IsSumOf(u, f) /\ Total(f) = u[D]
  BY TotalIsSum
<1>2. PICK v : IsSumOf(v, g) /\ Total(g) = v[D]
  BY TotalIsSum
<1> DEFINE first(S) == CHOOSE x \in S : TRUE
           Grown(S) == u[S] \in Nat /\ v[S] \in Nat /\ u[S] <= v[S]
           T == {n \in Nat : \A S \in SUBSET D : Cardinality(S) = n => Grown(S)}
<1>3. DOMAIN f = D /\ DOMAIN g = D
  OBVIOUS
<1>4. ASSUME NEW S \in SUBSET D
      PROVE  /\ u[S] = IF S = {} THEN 0 ELSE f[first(S)] + u[S \ {first(S)}]
             /\ v[S] = IF S = {} THEN 0 ELSE g[first(S)] + v[S \ {first(S)}]
  BY <1>1, <1>2, <1>3 DEF IsSumOf
<1>5. \A S \in SUBSET D : IsFiniteSet(S) /\ Cardinality(S) \in Nat
  BY FS_Subset, FS_CardinalityType
<1>6. 0 \in T
  <2>1. ASSUME NEW S \in SUBSET D, Cardinality(S) = 0 PROVE Grown(S)
    <3>1. S = {}
      BY <1>5, <2>1, FS_EmptySet
    <3> QED
      BY <1>4, <3>1
  <2> QED
    BY <2>1
<1>7. ASSUME NEW n \in Nat, n \in T PROVE n + 1 \in T
  <2>1. ASSUME NEW S \in SUBSET D, Cardinality(S) = n + 1 PROVE Grown(S)
    <3>1. S # {}
      <4>1. Cardinality({}) = 0
        BY FS_EmptySet
      <4>2. n + 1 # 0
        OBVIOUS
      <4> QED
        BY <2>1, <4>1, <4>2
    <3>2. PICK x \in S : x = first(S)
      BY <3>1
    <3>3. PICK R \in SUBSET D : R = S \ {x} /\ Cardinality(R) = n
      <4>1. IsFiniteSet(S)
        BY <1>5
      <4>2. Cardinality(S \ {x}) = Cardinality(S) - 1
        BY <4>1, FS_RemoveElement
      <4> QED
        BY <2>1, <4>2
    <3>4. u[R] \in Nat /\ v[R] \in Nat /\ u[R] <= v[R]
      BY <1>7, <3>3
    <3>5. u[S] = f[x] + u[R] /\ v[S] = g[x] + v[R]
      BY <1>4, <3>1, <3>2, <3>3
    <3>6. f[x] \in Nat /\ g[x] \in Nat /\ f[x] <= g[x]
      OBVIOUS
    <3> QED
      BY <3>4, <3>5, <3>6
  <2> QED
    BY <2>1
<1>8. Nat \subseteq T
  <2> HIDE DEF T
  <2> QED
    BY <1>6, <1>7, NatSetInduction
<1>9. Grown(D)
  BY <1>5, <1>8
<1> QED
  BY <1>1, <1>2, <1>9

\* The total of nothing but zeros is zero.
LEMMA TotalOfZeros ==
  ASSUME NEW D, IsFiniteSet(D), NEW f \in [D -> Nat], \A x \in D : f[x] = 0
  PROVE  Total(f) = 0
<1>1. PICK u : IsSumOf(u, f) /\ Total(f) = u[D]
  BY TotalIsSum
<1> DEFINE first(S) == CHOOSE x \in S : TRUE
           T == {n \in Nat : \A S \in SUBSET D : Cardinality(S) = n => u[S] = 0}
<1>2. ASSUME NEW S \in SUBSET D
      PROVE  u[S] = IF S = {} THEN 0 ELSE f[first(S)] + u[S \ {first(S)}]
  BY <1>1 DEF IsSumOf
<1>3. \A S \in SUBSET D : IsFiniteSet(S) /\ Cardinality(S) \in Nat
  BY FS_Subset, FS_CardinalityType
<1>4. 0 \in T
  <2>1. ASSUME NEW S \in SUBSET D, Cardinality(S) = 0 PROVE u[S] = 0
    <3>1. S = {}
      BY <1>3, <2>1, FS_EmptySet
    <3> QED
      BY <1>2, <3>1
  <2> QED
    BY <2>1
<1>5. ASSUME NEW n \in Nat, n \in T PROVE n + 1 \in T
  <2>1. ASSUME NEW S \in SUBSET D, Cardinality(S) = n + 1 PROVE u[S] = 0
    <3>1. S # {}
      <4>1. Cardinality({}) = 0
        BY FS_EmptySet
      <4>2. n + 1 # 0
        OBVIOUS
      <4> QED
        BY <2>1, <4>1, <4>2
    <3>2. PICK x \in S : x = first(S)
      BY <3>1
    <3>3. PICK R \in SUBSET D : R = S \ {x} /\ Cardinality(R) = n
      <4>1. IsFiniteSet(S)
        BY <1>3
      <4>2. Cardinality(S \ {x}) = Cardinality(S) - 1
        BY <4>1, FS_RemoveElement
      <4> QED
        BY <2>1, <4>2
    <3>4. u[R] = 0
      BY <1>5, <3>3
    <3>5. u[S] = f[x] + u[R]
      BY <1>2, <3>1, <3>2, <3>3
    <3> QED
      BY <3>4, <3>5
  <2> QED
    BY <2>1
<1>6. Nat \subseteq T
  <2> HIDE DEF T
  <2> QED
    BY <1>4, <1>5, NatSetInduction
<1> QED
  BY <1>1, <1>3, <1>6

-----------------------------------------------------------------------------
(* The metrics of the classifier.                                          *)

\* The same predictions, but the i-th is right.
Righted(results, i) == [results EXCEPT ![i] = Golden[i]]
Answers == Labels \cup {"error"}

\* The golden issues are finitely many, and more of them count for more.
LEMMA CountsOfItems ==
  /\ Items = 1..Len(Golden) /\ Len(Golden) \in Nat /\ Len(Golden) > 0
  /\ \A i \in Items : Golden[i] \in Labels
  /\ \A S \in SUBSET Items : IsFiniteSet(S) /\ Cardinality(S) \in Nat
  /\ \A S \in SUBSET Items, T \in SUBSET Items :
       S \subseteq T => Cardinality(S) <= Cardinality(T)
  /\ \A S \in SUBSET Items, i \in Items : i \notin S => Cardinality(S \cup {i}) = Cardinality(S) + 1
<1>1. /\ Items = 1..Len(Golden) /\ Len(Golden) \in Nat /\ Len(Golden) > 0
      /\ \A i \in Items : Golden[i] \in Labels
  BY EvaluationAssumption, EmptySeq DEF Items
<1>2. IsFiniteSet(Items)
  BY <1>1, FS_Interval
<1>3. \A S \in SUBSET Items : IsFiniteSet(S) /\ Cardinality(S) \in Nat
  BY <1>2, FS_Subset, FS_CardinalityType
<1>4. ASSUME NEW S \in SUBSET Items, NEW T \in SUBSET Items, S \subseteq T
      PROVE  Cardinality(S) <= Cardinality(T)
  BY <1>3, <1>4, FS_Subset
<1>5. ASSUME NEW S \in SUBSET Items, NEW i \in Items, i \notin S
      PROVE  Cardinality(S \cup {i}) = Cardinality(S) + 1
  BY <1>3, <1>5, FS_AddElement
<1> QED
  BY <1>1, <1>3, <1>4, <1>5

\* The counts behind the F1 of a label.
LEMMA CountsOfLabel ==
  ASSUME NEW results, NEW l
  PROVE  /\ Cardinality(Predicted(results, l)) \in Nat /\ Cardinality(Labelled(l)) \in Nat
         /\ Cardinality(Predicted(results, l) \cap Labelled(l)) \in Nat
         /\ Cardinality(Predicted(results, l) \cap Labelled(l)) <= Cardinality(Predicted(results, l))
         /\ Cardinality(Predicted(results, l) \cap Labelled(l)) <= Cardinality(Labelled(l))
<1>1. PICK P \in SUBSET Items : P = Predicted(results, l)
  BY DEF Predicted
<1>2. PICK L \in SUBSET Items : L = Labelled(l)
  BY DEF Labelled
<1>3. P \cap L \in SUBSET Items /\ P \cap L \subseteq P /\ P \cap L \subseteq L
  OBVIOUS
<1>4. Cardinality(P) \in Nat /\ Cardinality(L) \in Nat /\ Cardinality(P \cap L) \in Nat
  BY <1>3, CountsOfItems
<1>5. Cardinality(P \cap L) <= Cardinality(P) /\ Cardinality(P \cap L) <= Cardinality(L)
  BY <1>3, CountsOfItems
<1> QED
  BY <1>1, <1>2, <1>4, <1>5

\* F1 is a number, and 0 for a label that is not predicted.
LEMMA F1IsNumber ==
  ASSUME NEW results, NEW l
  PROVE  F1(results, l) \in Nat /\ (Predicted(results, l) = {} => F1(results, l) = 0)
<1>1. PICK t \in Nat, p \in Nat, n \in Nat :
        /\ t = Cardinality(Predicted(results, l) \cap Labelled(l))
        /\ p = Cardinality(Predicted(results, l)) /\ n = Cardinality(Labelled(l))
        /\ t <= p
  BY CountsOfLabel
<1>2. F1(results, l) = IF t = 0 THEN 0 ELSE Round4(2 * t, p + n)
  BY <1>1 DEF F1
<1>3. ASSUME t # 0 PROVE Round4(2 * t, p + n) \in Nat
  <2>1. 2 * t \in Nat /\ p + n \in Nat /\ p + n > 0
    BY <1>1, <1>3
  <2> QED
    BY <2>1, RoundingIsMonotone
<1>4. ASSUME Predicted(results, l) = {} PROVE t = 0
  <2>1. Predicted(results, l) \cap Labelled(l) = {}
    BY <1>4
  <2> QED
    BY <1>1, <2>1, FS_EmptySet
<1> QED
  BY <1>2, <1>3, <1>4

\* Being right once more lowers no F1.
LEMMA F1Grows ==
  ASSUME NEW results \in [Items -> Answers], NEW i \in Items, NEW l
  PROVE  F1(results, l) <= F1(Righted(results, i), l)
<1>1. PICK P \in SUBSET Items : P = Predicted(results, l)
  BY DEF Predicted
<1>2. PICK Q \in SUBSET Items : Q = Predicted(Righted(results, i), l)
  BY DEF Predicted
<1>3. PICK L \in SUBSET Items : L = Labelled(l)
  BY DEF Labelled
<1>4. PICK t \in Nat, p \in Nat, n \in Nat :
        t = Cardinality(P \cap L) /\ p = Cardinality(P) /\ n = Cardinality(L) /\ t <= p /\ t <= n
  BY <1>1, <1>3, CountsOfLabel
<1>5. PICK u \in Nat, q \in Nat :
        u = Cardinality(Q \cap L) /\ q = Cardinality(Q) /\ u <= q
  BY <1>2, <1>3, CountsOfLabel
<1>6. \A j \in Items : /\ j \in P <=> results[j] = l
                       /\ j \in Q <=> (IF j = i THEN Golden[i] ELSE results[j]) = l
                       /\ j \in L <=> Golden[j] = l
  BY <1>1, <1>2, <1>3 DEF Predicted, Labelled, Righted
<1>7. (u = t + 1 /\ q = p + 1) \/ (u = t /\ q <= p)
  <2>1. CASE Golden[i] = l /\ i \in P
    <3>1. Q = P
      BY <1>6, <2>1
    <3> QED
      BY <1>4, <1>5, <3>1
  <2>2. CASE Golden[i] = l /\ i \notin P
    <3>1. Q = P \cup {i} /\ Q \cap L = (P \cap L) \cup {i}
      BY <1>6, <2>2
    <3>2. P \cap L \in SUBSET Items /\ i \notin P \cap L
      BY <2>2
    <3> QED
      BY <1>4, <1>5, <2>2, <3>1, <3>2, CountsOfItems
  <2>3. CASE Golden[i] # l
    <3>1. Q \subseteq P /\ Q \cap L = P \cap L
      BY <1>6, <2>3
    <3> QED
      BY <1>4, <1>5, <3>1, CountsOfItems
  <2> QED
    BY <2>1, <2>2, <2>3
<1>8. F1(results, l) = IF t = 0 THEN 0 ELSE Round4(2 * t, p + n)
  BY <1>1, <1>3, <1>4 DEF F1
<1>9. F1(Righted(results, i), l) = IF u = 0 THEN 0 ELSE Round4(2 * u, q + n)
  BY <1>2, <1>3, <1>4, <1>5 DEF F1
<1>10. CASE t = 0
  BY <1>8, <1>10, F1IsNumber
<1>11. CASE t # 0
  <2>1. u # 0 /\ p + n > 0 /\ q + n > 0
    BY <1>4, <1>5, <1>7, <1>11
  <2>2. (2 * t) * (q + n) <= (2 * u) * (p + n)
    <3>1. CASE u = t + 1 /\ q = p + 1
      <4>1. (2 * t) * (q + n) = (2 * t) * (p + n) + 2 * t
        BY <3>1
      <4>2. (2 * u) * (p + n) = (2 * t) * (p + n) + 2 * (p + n)
        BY <3>1
      <4>3. (2 * t) * (p + n) \in Nat
        OBVIOUS
      <4> QED
        BY <1>4, <4>1, <4>2, <4>3
    <3>2. CASE u = t /\ q <= p
      <4>1. (q + n) * (2 * t) <= (p + n) * (2 * t)
        <5>1. q + n \in Int /\ p + n \in Int /\ q + n <= p + n /\ 2 * t \in Nat
          BY <3>2
        <5> QED
          BY <5>1, Products
      <4>2. (q + n) * (2 * t) = (2 * t) * (q + n) /\ (p + n) * (2 * t) = (2 * t) * (p + n)
        OBVIOUS
      <4> QED
        BY <3>2, <4>1, <4>2
    <3> QED
      BY <1>7, <3>1, <3>2
  <2>3. 2 * t \in Nat /\ p + n \in Nat /\ 2 * u \in Nat /\ q + n \in Nat
    OBVIOUS
  <2>4. Round4(2 * t, p + n) <= Round4(2 * u, q + n)
    BY <2>1, <2>2, <2>3, RoundingIsMonotone
  <2> QED
    BY <1>8, <1>9, <1>11, <2>1, <2>4
<1> QED
  BY <1>10, <1>11

\* Being right once more lowers no accuracy.
LEMMA AccuracyGrows ==
  ASSUME NEW results \in [Items -> Answers], NEW i \in Items
  PROVE  /\ Accuracy(results) \in Nat /\ Accuracy(results) <= Accuracy(Righted(results, i))
         /\ Correct(results) = {} => Accuracy(results) = 0
<1>1. PICK C \in SUBSET Items : C = Correct(results)
  BY DEF Correct
<1>2. PICK B \in SUBSET Items : B = Correct(Righted(results, i))
  BY DEF Correct
<1>3. C \subseteq B
  BY <1>1, <1>2 DEF Correct, Righted
<1>4. PICK c \in Nat, b \in Nat : c = Cardinality(C) /\ b = Cardinality(B) /\ c <= b
  BY <1>3, CountsOfItems
<1>5. PICK n \in Nat : n = Len(Golden) /\ n > 0
  BY CountsOfItems
<1>6. c * n <= b * n
  BY <1>4, Products
<1>7. Accuracy(results) = Round4(c, n) /\ Accuracy(Righted(results, i)) = Round4(b, n)
  BY <1>1, <1>2, <1>4, <1>5 DEF Accuracy
<1>8. Correct(results) = {} => c = 0
  BY <1>1, <1>4, FS_EmptySet
<1>9. Round4(c, n) \in Nat /\ (c = 0 => Round4(c, n) = 0) /\ Round4(c, n) <= Round4(b, n)
  BY <1>5, <1>6, RoundingIsMonotone
<1> QED
  BY <1>7, <1>8, <1>9

\* Being right once more does not lower the mean.
LEMMA MacroF1Grows ==
  ASSUME NEW results \in [Items -> Answers], NEW i \in Items
  PROVE  /\ MacroF1(results) \in Nat /\ MacroF1(results) <= MacroF1(Righted(results, i))
         /\ (\A l \in Labels : Predicted(results, l) = {}) => MacroF1(results) = 0
<1> DEFINE f == [l \in Labels |-> F1(results, l)]
           g == [l \in Labels |-> F1(Righted(results, i), l)]
<1>1. f \in [Labels -> Nat] /\ g \in [Labels -> Nat]
  BY F1IsNumber
<1>2. \A l \in Labels : f[l] <= g[l]
  BY F1Grows
<1>3. (\A l \in Labels : Predicted(results, l) = {}) => \A l \in Labels : f[l] = 0
  BY F1IsNumber
<1>4. IsFiniteSet(Labels)
  BY EvaluationAssumption
<1>5. PICK n \in Nat : n = 10000 * Cardinality(Labels) /\ n > 0
  <2>1. Cardinality(Labels) \in Nat /\ Cardinality(Labels) # 0
    BY <1>4, EvaluationAssumption, FS_CardinalityType, FS_EmptySet
  <2>2. 10000 * Cardinality(Labels) \in Nat /\ 10000 * Cardinality(Labels) > 0
    BY <2>1
  <2> QED
    BY <2>2
<1>6. MacroF1(results) = Round4(Total(f), n) /\ MacroF1(Righted(results, i)) = Round4(Total(g), n)
  BY <1>5 DEF MacroF1
<1> HIDE DEF f, g
<1>7. PICK s \in Nat, t \in Nat : s = Total(f) /\ t = Total(g) /\ s <= t
  BY <1>1, <1>2, <1>4, TotalGrows
<1>8. (\A l \in Labels : Predicted(results, l) = {}) => s = 0
  BY <1>1, <1>3, <1>4, <1>7, TotalOfZeros
<1>9. s * n <= t * n
  BY <1>7, Products
<1>10. Round4(s, n) \in Nat /\ (s = 0 => Round4(s, n) = 0) /\ Round4(s, n) <= Round4(t, n)
  BY <1>5, <1>9, RoundingIsMonotone
<1> QED
  BY <1>6, <1>7, <1>8, <1>10

\* Being right once more lowers no metric.
LEMMA MetricsGrow ==
  ASSUME NEW results \in [Items -> Answers], NEW i \in Items, NEW name
  PROVE  /\ Metric(results, name) \in Nat
         /\ Metric(Righted(results, i), name) \in Nat
         /\ Metric(results, name) <= Metric(Righted(results, i), name)
<1>1. Righted(results, i) \in [Items -> Answers]
  <2>1. Golden[i] \in Answers
    BY CountsOfItems DEF Answers
  <2> QED
    BY <2>1 DEF Righted
<1>2. CASE name = "accuracy"
  BY <1>1, <1>2, AccuracyGrows DEF Metric
<1>3. CASE name = "macro_f1"
  BY <1>1, <1>3, MacroF1Grows DEF Metric
<1>4. CASE name \in Labels \ Names
  BY <1>4, F1IsNumber, F1Grows DEF Metric, Names
<1>5. CASE name \notin Labels \cup Names
  BY <1>5 DEF Metric, Names
<1> QED
  BY <1>2, <1>3, <1>4, <1>5 DEF Names

\* Without a label every metric is 0.
LEMMA ErrorsMeasureZero ==
  ASSUME NEW results \in [Items -> Answers], \A i \in Items : results[i] = "error",
         NEW name
  PROVE  Metric(results, name) = 0
<1>1. \A l \in Labels : Predicted(results, l) = {}
  BY EvaluationAssumption DEF Predicted
<1>2. Correct(results) = {}
  BY CountsOfItems, EvaluationAssumption DEF Correct
<1>3. 1 \in Items
  BY CountsOfItems
<1>4. CASE name = "accuracy"
  BY <1>2, <1>3, <1>4, AccuracyGrows DEF Metric
<1>5. CASE name = "macro_f1"
  BY <1>1, <1>3, <1>5, MacroF1Grows DEF Metric
<1>6. CASE name \in Labels \ Names
  BY <1>1, <1>6, F1IsNumber DEF Metric, Names
<1>7. CASE name \notin Labels \cup Names
  BY <1>7 DEF Metric, Names
<1> QED
  BY <1>4, <1>5, <1>6, <1>7 DEF Names

-----------------------------------------------------------------------------
(* The two gates.                                                          *)

Outcomes == {"hit", "miss", "failed"}

\* What the gate of the classifier has seen and what that of the pipeline has.
GateTyped ==
  /\ stage \in {"classify", "sweep", "ablation", "keys", "generate", "check"} \cup Verdict
  /\ thresholds \in Files
  /\ predicted \in Seq(Answers) /\ Len(predicted) <= Len(Golden)
  /\ Len(alphas) \in Nat /\ Len(alphas) > 0
  /\ DOMAIN outcomes = 1..Len(alphas)
  /\ \A a \in 1..Len(alphas) : outcomes[a] \in Seq(Outcomes)
  /\ best \in 1..Len(alphas)
  /\ generation \in [Generated -> Values \cup {Null}]

\* check_thresholds finds that a metric of the pipeline falls short.
Short(name) ==
  RagMetrics[name] # Null /\ thresholds[name] # Null /\ RagMetrics[name] < thresholds[name]

\* The two gates share no step, and each passes only by its judgement.
GateInv ==
  /\ GateTyped
  /\ stage \in {"sweep", "ablation", "keys", "generate", "check"} => predicted = <<>>
  /\ stage \in {"ablation", "keys", "generate", "check"} => Swept
  /\ stage = "passed" /\ predicted # <<>> =>
       Len(predicted) = Len(Golden) /\ Judged(predicted) = "passed"
  /\ stage = "passed" /\ predicted = <<>> =>
       Swept /\ \A name \in DOMAIN RagMetrics \cap DOMAIN thresholds : ~Short(name)

\* The invariant holds at first.
LEMMA GateFirst == GateInit => GateInv
<1> SUFFICES ASSUME GateInit PROVE GateInv
  OBVIOUS
<1>1. Len(alphas) \in Nat /\ Len(alphas) > 0
  <2>1. Sweep \in Seq(1..9) /\ Sweep # <<>>
    BY EvaluationAssumption
  <2>2. Len(Sweep) \in Nat /\ Len(Sweep) > 0
    BY <2>1, EmptySeq
  <2>3. Len(<<6>>) = 1
    OBVIOUS
  <2> QED
    BY <2>2, <2>3 DEF GateInit
<1>2. predicted \in Seq(Answers) /\ Len(predicted) <= Len(Golden)
  <2>1. predicted = <<>> /\ <<>> \in Seq(Answers) /\ Len(<<>>) = 0
    BY EmptySeq DEF GateInit
  <2> QED
    BY <2>1, CountsOfItems
<1>3. DOMAIN outcomes = 1..Len(alphas) /\ \A a \in 1..Len(alphas) : outcomes[a] \in Seq(Outcomes)
  <2>1. outcomes = [a \in 1..Len(alphas) |-> <<>>] /\ <<>> \in Seq(Outcomes)
    BY EmptySeq DEF GateInit
  <2> QED
    BY <2>1
<1>4. generation \in [Generated -> Values \cup {Null}]
  BY DEF GateInit, Unmeasured
<1>5. GateTyped
  BY <1>1, <1>2, <1>3, <1>4 DEF GateInit, GateTyped
<1> QED
  BY <1>5 DEF GateInit, GateInv

\* A verdict of the classifier's gate.
LEMMA ClassifierKeepsGate == GateInv /\ (CallClassifier \/ Judge) => GateInv'
<1> SUFFICES ASSUME GateInv, CallClassifier \/ Judge PROVE GateInv'
  OBVIOUS
<1>1. /\ stage = "classify" /\ UNCHANGED <<thresholds, alphas, outcomes, best, generation>>
  BY DEF CallClassifier, Judge, flags, sweepVars
<1>2. CASE CallClassifier
  <2>1. PICK label \in Answers : predicted' = Append(predicted, label)
    BY <1>2 DEF CallClassifier, Answers
  <2>2. stage' = stage /\ Len(predicted) < Len(Golden)
    BY <1>2 DEF CallClassifier
  <2>3. predicted' \in Seq(Answers) /\ Len(predicted') <= Len(Golden)
    <3>1. predicted \in Seq(Answers)
      BY DEF GateInv, GateTyped
    <3> QED
      BY <2>1, <2>2, <3>1, CountsOfItems, AppendProperties
  <2>4. GateTyped'
    BY <1>1, <2>2, <2>3 DEF GateInv, GateTyped
  <2> QED
    BY <1>1, <2>2, <2>4 DEF GateInv
<1>3. CASE Judge
  <2>1. predicted' = predicted /\ stage' = Judged(predicted) /\ Len(predicted) = Len(Golden)
    BY <1>3 DEF Judge
  <2>2. Judged(predicted) \in Verdict
    BY DEF Judged, Verdict
  <2>3. predicted # <<>>
    <3>1. Len(<<>>) = 0
      BY EmptySeq
    <3> QED
      BY <2>1, <3>1, CountsOfItems
  <2>4. GateTyped'
    BY <1>1, <2>1, <2>2 DEF GateInv, GateTyped
  <2>5. Judged(predicted)' = Judged(predicted)
    BY <1>1, <2>1 DEF Judged, Metric
  <2>6. stage' \notin {"sweep", "ablation", "keys", "generate", "check"}
    BY <2>1, <2>2 DEF Verdict
  <2> QED
    BY <2>1, <2>3, <2>4, <2>5, <2>6 DEF GateInv
<1> QED
  BY <1>2, <1>3

\* A question of the sweep.
LEMMA SweepKeepsGate == GateInv /\ AskQuestion => GateInv'
<1> SUFFICES ASSUME GateInv, AskQuestion PROVE GateInv'
  OBVIOUS
<1>1. /\ stage = "sweep" /\ UNCHANGED <<stage, thresholds, predicted, alphas, best, generation>>
  BY DEF AskQuestion, flags
<1>2. PICK outcome \in Outcomes :
        outcomes' = [outcomes EXCEPT ![Current] = Append(@, outcome)]
  BY DEF AskQuestion, Outcomes
<1>3. PICK N \in Nat : N = Len(alphas) /\ DOMAIN outcomes = 1..N
                       /\ \A a \in 1..N : outcomes[a] \in Seq(Outcomes)
  BY DEF GateInv, GateTyped
<1>4. \A a \in 1..N : Append(outcomes[a], outcome) \in Seq(Outcomes)
  BY <1>3, AppendProperties
<1>5. DOMAIN outcomes' = 1..N /\ \A a \in 1..N : outcomes'[a] \in Seq(Outcomes)
  BY <1>2, <1>3, <1>4
<1>6. GateTyped'
  BY <1>1, <1>3, <1>5 DEF GateInv, GateTyped
<1> QED
  BY <1>1, <1>6 DEF GateInv

\* Of finitely many numbers there is a first greatest.
LEMMA FirstGreatest ==
  ASSUME NEW v
  PROVE  \A n \in Nat :
           n > 0 /\ (\A a \in 1..n : v[a] \in Int) =>
             \E a \in 1..n : /\ \A b \in 1..n : v[a] >= v[b]
                             /\ \A b \in 1..n : v[b] >= v[a] => a <= b
<1> DEFINE Is(n, a) == /\ \A b \in 1..n : v[a] >= v[b]
                       /\ \A b \in 1..n : v[b] >= v[a] => a <= b
           T == {n \in Nat : n > 0 /\ (\A a \in 1..n : v[a] \in Int) => \E a \in 1..n : Is(n, a)}
<1>1. 0 \in T
  OBVIOUS
<1>2. ASSUME NEW n \in Nat, n \in T PROVE n + 1 \in T
  <2> SUFFICES ASSUME \A a \in 1..(n + 1) : v[a] \in Int PROVE \E a \in 1..(n + 1) : Is(n + 1, a)
    OBVIOUS
  <2>1. CASE n = 0
    <3>1. Is(n + 1, 1)
      BY <2>1
    <3> QED
      BY <2>1, <3>1
  <2>2. CASE n # 0
    <3>1. PICK a \in 1..n : Is(n, a)
      BY <1>2, <2>2
    <3>2. \A b \in 1..(n + 1) : b \in 1..n \/ b = n + 1
      OBVIOUS
    <3>3. CASE v[n + 1] > v[a]
      <4>1. Is(n + 1, n + 1)
        BY <3>1, <3>2, <3>3
      <4> QED
        BY <4>1
    <3>4. CASE ~(v[n + 1] > v[a])
      <4>1. Is(n + 1, a)
        BY <3>1, <3>2, <3>4
      <4> QED
        BY <4>1
    <3> QED
      BY <3>3, <3>4
  <2> QED
    BY <2>1, <2>2
<1>3. Nat \subseteq T
  <2> HIDE DEF T
  <2> QED
    BY <1>1, <1>2, NatSetInduction
<1> QED
  BY <1>3

\* The rate of a swept alpha is a number; it is 0 where every question failed.
LEMMA HitRates ==
  ASSUME GateTyped, Swept, NEW a \in DOMAIN outcomes
  PROVE  /\ HitRate(a) \in Nat
         /\ (\A q \in 1..Questions : outcomes[a][q] = "failed") => HitRate(a) = 0
<1>1. PICK n \in Nat : n = Len(outcomes[a]) /\ n = Questions /\ n > 0 /\ DOMAIN outcomes[a] = 1..n
  BY EvaluationAssumption DEF GateTyped, Swept
<1>2. PICK S \in SUBSET (1..n) : S = {q \in DOMAIN outcomes[a] : outcomes[a][q] = "hit"}
  BY <1>1
<1>3. IsFiniteSet(1..n)
  BY FS_Interval
<1>4. PICK h \in Nat : h = Cardinality(S)
  BY <1>3, FS_Subset, FS_CardinalityType
<1>5. HitRate(a) = Round4(h, n)
  BY <1>1, <1>2, <1>4 DEF HitRate, Hits
<1>6. ASSUME \A q \in 1..Questions : outcomes[a][q] = "failed" PROVE h = 0
  <2>1. S = {}
    BY <1>1, <1>2, <1>6
  <2> QED
    BY <1>4, <2>1, FS_EmptySet
<1>7. Round4(h, n) \in Nat /\ (h = 0 => Round4(h, n) = 0)
  BY <1>1, RoundingIsMonotone
<1> QED
  BY <1>5, <1>6, <1>7

\* The end of the sweep.
LEMMA EndKeepsGate == GateInv /\ EndSweep => GateInv'
<1> SUFFICES ASSUME GateInv, EndSweep PROVE GateInv'
  OBVIOUS
<1>1. /\ stage = "sweep" /\ Swept /\ stage' \in {"ablation", "keys", "check"}
      /\ UNCHANGED <<thresholds, predicted, alphas, outcomes, generation>>
      /\ predicted = <<>>
  BY DEF EndSweep, Afterwards, flags, GateInv
<1>2. PICK N \in Nat : N = Len(alphas) /\ N > 0 /\ DOMAIN outcomes = 1..N
  BY DEF GateInv, GateTyped
<1> DEFINE v == [a \in 1..N |-> HitRate(a)]
           First == {a \in DOMAIN outcomes : \A b \in DOMAIN outcomes : HitRate(a) >= HitRate(b)}
<1>3. \A a \in 1..N : v[a] \in Int /\ v[a] = HitRate(a)
  BY <1>1, <1>2, HitRates DEF GateInv
<1>4. PICK a \in 1..N : /\ \A b \in 1..N : v[a] >= v[b]
                        /\ \A b \in 1..N : v[b] >= v[a] => a <= b
  <2> HIDE DEF v
  <2> QED
    BY <1>2, <1>3, FirstGreatest
<1>5. a \in First
  BY <1>2, <1>3, <1>4
<1>6. ASSUME NEW b \in First PROVE a <= b
  <2>1. b \in 1..N /\ v[b] >= v[a]
    BY <1>2, <1>3
  <2> QED
    BY <1>4, <2>1
<1>7. best' = Min(First)
  BY DEF EndSweep
<1> HIDE DEF First
<1>8. Min(First) \in First
  BY <1>5, <1>6 DEF Min
<1>9. best' \in 1..N
  BY <1>2, <1>7, <1>8 DEF First
<1>10. GateTyped'
  BY <1>1, <1>2, <1>9 DEF GateInv, GateTyped
<1>11. Swept'
  BY <1>1 DEF Swept
<1> QED
  BY <1>1, <1>10, <1>11 DEF GateInv

\* What the runner does between the sweep and its check.
LEMMA LaterKeepsGate ==
  GateInv /\ (Ablate \/ InjectKeys \/ AskForGeneration \/ Evaluate) => GateInv'
<1> SUFFICES ASSUME GateInv, Ablate \/ InjectKeys \/ AskForGeneration \/ Evaluate PROVE GateInv'
  OBVIOUS
<1>1. /\ stage \in {"ablation", "keys", "generate"}
      /\ stage' \in {"keys", "generate", "check", "stopped"}
      /\ UNCHANGED <<thresholds, predicted, alphas, outcomes, best>>
  BY DEF Ablate, InjectKeys, AskForGeneration, Evaluate, Afterwards, flags, sweepVars
<1>2. generation' \in [Generated -> Values \cup {Null}]
  BY DEF Ablate, InjectKeys, AskForGeneration, Evaluate, sweepVars, GateInv, GateTyped
<1>3. GateTyped'
  BY <1>1, <1>2 DEF GateInv, GateTyped, Verdict
<1>4. Swept' /\ predicted' = <<>>
  BY <1>1 DEF GateInv, Swept
<1> QED
  BY <1>1, <1>3, <1>4 DEF GateInv

\* The verdict on the pipeline.
LEMMA CheckKeepsGate == GateInv /\ Check => GateInv'
<1> SUFFICES ASSUME GateInv, Check PROVE GateInv'
  OBVIOUS
<1>1. /\ stage = "check" /\ stage' \in {"stopped", "failed", "passed"}
      /\ UNCHANGED <<thresholds, predicted, alphas, outcomes, best, generation>>
      /\ predicted = <<>> /\ Swept
  BY DEF Check, flags, sweepVars, GateInv
<1>2. stage' = "passed" => \A name \in DOMAIN RagMetrics \cap DOMAIN thresholds : ~Short(name)
  BY DEF Check, Short
<1>3. GateTyped'
  BY <1>1 DEF GateInv, GateTyped, Verdict
<1>4. Swept' /\ RagMetrics' = RagMetrics
  BY <1>1 DEF Swept, RagMetrics, HitRate
<1>5. \A name : Short(name)' = Short(name)
  BY <1>1, <1>4 DEF Short
<1>6. stage' = "passed" => \A name \in DOMAIN RagMetrics' \cap DOMAIN thresholds' : ~Short(name)'
  BY <1>1, <1>2, <1>4, <1>5
<1> QED
  BY <1>1, <1>3, <1>4, <1>6 DEF GateInv

\* Every step keeps the invariant.
LEMMA GateInductive == GateInv /\ [GateNext]_gateVars => GateInv'
<1> SUFFICES ASSUME GateInv, [GateNext]_gateVars PROVE GateInv'
  OBVIOUS
<1>1. CASE UNCHANGED gateVars
  <2>1. UNCHANGED <<stage, thresholds, predicted, alphas, outcomes, best, generation>>
    BY <1>1 DEF gateVars, flags, sweepVars
  <2>2. GateTyped' /\ Swept' = Swept /\ Judged(predicted)' = Judged(predicted)
    BY <2>1 DEF GateInv, GateTyped, Swept, Judged, Metric
  <2>3. RagMetrics' = RagMetrics
    BY <2>1 DEF RagMetrics, HitRate
  <2>4. \A name : Short(name)' = Short(name)
    BY <2>1, <2>3 DEF Short
  <2> QED
    BY <2>1, <2>2, <2>3, <2>4 DEF GateInv
<1> QED
  BY <1>1, ClassifierKeepsGate, SweepKeepsGate, EndKeepsGate, LaterKeepsGate, CheckKeepsGate
     DEF GateNext, GateFinished

\* The invariant is one.
LEMMA GateInvariant == GateSpec => []GateInv
BY GateFirst, GateInductive, PTL DEF GateSpec

\* The runners have a prediction for no more issues than there are, a list of
\* outcomes for each alpha, and take one of the alphas for the best.
THEOREM GateTypeCorrect == GateSpec => []GateTypeOK
<1>1. GateInv => GateTypeOK
  BY DEF GateInv, GateTyped, GateTypeOK, Answers, Outcomes
<1> QED
  BY GateInvariant, <1>1, PTL

\* Thresholds that the api service boots with are positive.
LEMMA BootedThresholds ==
  ASSUME thresholds \in Files, Boots(thresholds), NEW name \in DOMAIN thresholds
  PROVE  thresholds[name] \in Nat /\ thresholds[name] > 0 /\ thresholds[name] # Null
<1>1. thresholds[name] \in {Null} \cup Nat
  BY EvaluationAssumption
<1>2. thresholds[name] \notin {0, Null}
  BY DEF Boots
<1> QED
  BY <1>1, <1>2 DEF Null

\* A gate of either runner whose thresholds the api service has accepted at its
\* boot does not pass on a service of which every request fails, for every set
\* of labels, issues, questions and alphas.
THEOREM DeadServiceFails == GateSpec => []DeadServiceIsNoticed
<1>1. GateInv => DeadServiceIsNoticed
  <2> SUFFICES ASSUME GateInv, stage = "passed", Boots(thresholds)
               PROVE  /\ predicted # <<>> /\ DOMAIN thresholds \ RagNames # {} =>
                           \E i \in Items : predicted[i] # "error"
                      /\ predicted = <<>> /\ DOMAIN thresholds \cap {"hit_at_5", "mrr"} # {} =>
                           \E a \in DOMAIN outcomes, q \in 1..Questions : outcomes[a][q] # "failed"
    BY DEF DeadServiceIsNoticed
  <2>1. ASSUME predicted # <<>>, \A i \in Items : predicted[i] = "error",
               NEW name \in DOMAIN thresholds \ RagNames
        PROVE  FALSE
    <3>1. Judged(predicted) = "passed" /\ Len(predicted) = Len(Golden) /\ predicted \in Seq(Answers)
      BY <2>1 DEF GateInv, GateTyped
    <3>2. predicted \in [Items -> Answers]
      BY <3>1, CountsOfItems
    <3>3. Metric(predicted, name) = 0
      BY <2>1, <3>2, ErrorsMeasureZero
    <3>4. thresholds[name] \in Nat /\ thresholds[name] > 0
      BY BootedThresholds DEF GateInv, GateTyped
    <3>5. ~(Metric(predicted, name) < thresholds[name])
      BY <3>1 DEF Judged
    <3> QED
      BY <3>3, <3>4, <3>5
  <2>2. ASSUME predicted = <<>>,
               \A a \in DOMAIN outcomes, q \in 1..Questions : outcomes[a][q] = "failed",
               NEW name \in DOMAIN thresholds \cap {"hit_at_5", "mrr"}
        PROVE  FALSE
    <3>1. /\ GateTyped /\ Swept /\ best \in DOMAIN outcomes
          /\ \A n \in DOMAIN RagMetrics \cap DOMAIN thresholds : ~Short(n)
      BY <2>2 DEF GateInv, GateTyped
    <3>2. HitRate(best) = 0
      BY <2>2, <3>1, HitRates
    <3>3. name \in DOMAIN RagMetrics /\ RagMetrics[name] = HitRate(best)
      BY DEF RagMetrics, RagNames, Generated
    <3>4. thresholds[name] \in Nat /\ thresholds[name] > 0 /\ thresholds[name] # Null
      BY <3>1, BootedThresholds DEF GateTyped
    <3>5. ~Short(name)
      BY <3>1, <3>3
    <3> QED
      BY <3>2, <3>3, <3>4, <3>5 DEF Short, Null
  <2> QED
    BY <2>1, <2>2
<1> QED
  BY GateInvariant, <1>1, PTL

\* A classifier that is right on one issue more does not fail the gate it
\* passed, for every set of labels and issues and every file of thresholds
\* (classification/runner.py:40-92).
THEOREM BetterPasses == GateSpec => []BetterNeverFails
<1>1. GateInv => BetterNeverFails
  <2> SUFFICES ASSUME GateInv, stage = "passed", predicted # <<>>, NEW i \in Items
               PROVE  Judged(Righted(predicted, i)) = "passed"
    BY DEF BetterNeverFails, Righted
  <2>1. Judged(predicted) = "passed" /\ Len(predicted) = Len(Golden) /\ predicted \in Seq(Answers)
    BY DEF GateInv, GateTyped
  <2>2. predicted \in [Items -> Answers]
    BY <2>1, CountsOfItems
  <2> DEFINE set == DOMAIN thresholds \ RagNames
  <2>3. ASSUME NEW name \in set
        PROVE  thresholds[name] # Null /\ ~(Metric(Righted(predicted, i), name) < thresholds[name])
    <3>1. thresholds[name] # Null /\ ~(Metric(predicted, name) < thresholds[name])
      BY <2>1 DEF Judged
    <3>2. thresholds[name] \in Nat
      BY <3>1, EvaluationAssumption DEF GateInv, GateTyped
    <3>3. PICK m \in Nat, n \in Nat :
            m = Metric(predicted, name) /\ n = Metric(Righted(predicted, i), name) /\ m <= n
      BY <2>2, MetricsGrow
    <3> QED
      BY <3>1, <3>2, <3>3
  <2>4. thresholds # << >>
    BY <2>1 DEF Judged
  <2>5. \A name \in set : /\ thresholds[name] # Null
                         /\ ~(Metric(Righted(predicted, i), name) < thresholds[name])
    BY <2>3
  <2> QED
    BY <2>4, <2>5 DEF Judged
<1> QED
  BY GateInvariant, <1>1, PTL
=============================================================================
