-------------------------- MODULE DataSplitsProofs --------------------------
(***************************************************************************)
(* Proofs about DataSplits, for any issues, labels and numbers of runs, in *)
(* whatever order the scripts are started and wherever they stop.          *)
(***************************************************************************)
EXTENDS DataSplits, FiniteSetTheorems, TLAPS

-----------------------------------------------------------------------------
(* Types.                                                                  *)

\* A fetch finds only what is listed.
LEMMA FetchedAreOfTheList ==
  ASSUME NEW S, NEW n, NEW T \in Fetched(S, n)
  PROVE  T \subseteq S
BY DEF Fetched, Newest

\* Only labelled issues are in a split.
LEMMA SplitsAreLabelled ==
  ASSUME NEW S, NEW f \in Files
  PROVE  SplitDataset(S)[f] \subseteq Labelled(S)
BY DEF SplitDataset

\* The type invariant holds at first.
LEMMA TypedFirst == Init => TypeOK
<1> SUFFICES ASSUME Init PROVE TypeOK
  OBVIOUS
<1>1. NoCorpus \in Corpus /\ NoCorpus.core = {}
  BY DEF NoCorpus, Corpus
<1>2. parts \in [of : Nat, data : SUBSET Issues, ids : [Files -> SUBSET Issues]]
  BY DEF Init, NoParts
<1>3. splits \in [Files -> Split]
  BY DEF Init, Split, Unreadable
<1> QED
  BY <1>1, <1>2, <1>3 DEF Init, TypeOK

\* Every step keeps the type invariant.
LEMMA TypeIsKept == TypeOK /\ [Next]_vars => TypeOK'
<1> SUFFICES ASSUME TypeOK, [Next]_vars PROVE TypeOK'
  OBVIOUS
<1> USE DEF TypeOK
<1>n. NoCorpus \in Corpus /\ NoCorpus.core = {}
  BY DEF NoCorpus, Corpus
<1>p. NoParts \in [of : Nat, data : SUBSET Issues, ids : [Files -> SUBSET Issues]]
  BY DEF NoParts
<1>1. CASE CloseIssue
  BY <1>1 DEF CloseIssue, splitVars, corpusVars
<1>2. CASE FetchIssues
  <2>1. raw' \subseteq CoreIssues
    BY <1>2, FetchedAreOfTheList DEF FetchIssues
  <2> QED
    BY <1>2, <2>1 DEF FetchIssues, splitVars, corpusVars
<1>3. CASE FetchDocs
  <2>1. docs' \subseteq DocsIssues
    BY <1>3, FetchedAreOfTheList DEF FetchDocs
  <2> QED
    BY <1>3, <2>1 DEF FetchDocs, splitVars, corpusVars
<1>4. CASE StartSplit
  <2>1. SplitDataset(raw \cup docs) \in [Files -> SUBSET Issues]
    BY DEF SplitDataset, Labelled, Issues
  <2>6. raw \cup docs \in SUBSET Issues
    BY DEF Issues
  <2>2. parts' \in [of : Nat, data : SUBSET Issues, ids : [Files -> SUBSET Issues]]
    BY <1>4, <2>1, <2>6 DEF StartSplit
  <2>3. runs' \in Nat
    BY <1>4 DEF StartSplit
  <2>4. writing' \in Files \cup {"none"}
    BY <1>4 DEF StartSplit, Files
  <2>5. UNCHANGED <<closed, raw, docs, fetches, splits, excluded, corpus>>
    BY <1>4 DEF StartSplit, corpusVars
  <2> QED
    BY <2>2, <2>3, <2>4, <2>5
<1>5. CASE WriteSplit
  <2>1. writing \in Files
    BY <1>5 DEF WriteSplit
  <2>2. [run |-> runs, docs |-> parts.of, data |-> parts.data, ids |-> parts.ids[writing]] \in Split
    BY <2>1 DEF Split
  <2>3. splits' \in [Files -> Split]
    BY <1>5, <2>1, <2>2 DEF WriteSplit
  <2>4. writing' \in Files \cup {"none"}
    BY <1>5, <2>1 DEF WriteSplit, After, Files
  <2>5. parts' \in [of : Nat, data : SUBSET Issues, ids : [Files -> SUBSET Issues]]
    BY <1>5, <1>p DEF WriteSplit
  <2> QED
    BY <1>5, <2>3, <2>4, <2>5 DEF WriteSplit, corpusVars
<1>6. CASE SplitStops
  <2>1. writing \in Files /\ Unreadable(runs) \in Split
    BY <1>6 DEF SplitStops, Unreadable, Split
  <2>2. splits' \in [Files -> Split]
    BY <1>6, <2>1 DEF SplitStops
  <2> QED
    BY <1>6, <1>p, <2>2 DEF SplitStops, corpusVars
<1>7. CASE StartCorpus
  <2>1. Stamps \in [Files -> Nat]
    BY DEF Stamps, Split
  <2>2. CoreExcluded \subseteq Issues
    BY DEF CoreExcluded, Split
  <2>3. excluded' \in Corpus
    BY <1>7, <2>1, <2>2 DEF StartCorpus, Corpus
  <2> QED
    BY <1>7, <2>3 DEF StartCorpus, splitVars
<1>8. CASE WriteCorpus
  <2>1. PICK core \in UpTo((closed \cap CoreIssues) \ excluded.core, MaxCore),
             io \in Fetched((closed \cap DocsIssues) \ excluded.io, MaxIo) \cup {{}} :
          corpus' = IF core \cup io = {} THEN corpus
                    ELSE [excluded EXCEPT !.core = core, !.io = io, !.running = FALSE]
    BY <1>8 DEF WriteCorpus
  <2>2. core \subseteq CoreIssues /\ io \subseteq DocsIssues
    BY FetchedAreOfTheList DEF UpTo
  <2>3. [excluded EXCEPT !.core = core, !.io = io, !.running = FALSE] \in Corpus
    BY <2>2 DEF Corpus, Issues
  <2>4. [excluded EXCEPT !.core = core, !.io = io, !.running = FALSE].core = core
    BY DEF Corpus
  <2>5. corpus' \in Corpus /\ corpus'.core \subseteq CoreIssues
    BY <2>1, <2>2, <2>3, <2>4
  <2> QED
    BY <1>8, <2>5, <1>n DEF WriteCorpus, splitVars
<1>9. CASE CorpusStops
  BY <1>9, <1>n DEF CorpusStops, splitVars
<1>10. CASE UNCHANGED vars
  BY <1>10 DEF vars, splitVars, corpusVars
<1> QED
  BY <1>1, <1>2, <1>3, <1>4, <1>5, <1>6, <1>7, <1>8, <1>9, <1>10 DEF Next

\* The files hold issues of the repositories they are made from.
THEOREM TypeCorrect == Spec => []TypeOK
BY TypedFirst, TypeIsKept, PTL DEF Spec

-----------------------------------------------------------------------------
(* The splits are temporal.  A file holds its part of what split_dataset   *)
(* makes of the issues it was computed from, however the runs before and   *)
(* after it ended; and what split_dataset makes of one set of issues is    *)
(* complete and in order.                                                  *)

Before == {<<"train", "val">>, <<"train", "test">>, <<"val", "test">>}

InOrder(S, T) == \A i \in S, j \in T : MappedLabel(i) = MappedLabel(j) => i < j

SplitsAreComputed ==
  /\ writing # "none" => parts.ids = SplitDataset(parts.data)
  /\ \A f \in Files : splits[f].ids = SplitDataset(splits[f].data)[f]

TemporalInv == TypeOK /\ SplitsAreComputed

\* An issue with fewer before it in its group is older.
LEMMA FewerBeforeIsOlder ==
  ASSUME NEW G \in SUBSET Issues, NEW i \in G, NEW j \in G,
         Cardinality({k \in G : k < i}) < Cardinality({k \in G : k < j})
  PROVE  i < j
<1> DEFINE Until(m) == {k \in G : k < m}
<1>1. i \in Nat /\ j \in Nat /\ G \subseteq Nat /\ IsFiniteSet(G)
  BY SplitsAssumption, FS_Subset
<1>2. IsFiniteSet(Until(i)) /\ IsFiniteSet(Until(j))
  BY <1>1, FS_Subset
<1>3. SUFFICES ASSUME ~(i < j) PROVE FALSE
  OBVIOUS
<1>4. Until(j) \subseteq Until(i)
  <2>1. j <= i
    BY <1>1, <1>3
  <2>2. \A k \in G : k < j => k < i
    BY <1>1, <2>1
  <2> QED
    BY <2>2
<1>5. Cardinality(Until(j)) <= Cardinality(Until(i))
  BY <1>2, <1>4, FS_Subset
<1>6. Cardinality(Until(j)) \in Nat /\ Cardinality(Until(i)) \in Nat
  BY <1>2, FS_CardinalityType
<1> QED
  BY <1>5, <1>6

\* Within a group the splits are cut at places that do not cross.
LEMMA CutsAreInOrder ==
  ASSUME NEW G \in SUBSET Issues, NEW i \in G, NEW j \in G, NEW p \in Before,
         p[1] \in SplitOf(G, i), p[2] \in SplitOf(G, j)
  PROVE  i < j
<1> DEFINE n == Cardinality(G)
           at(m) == Cardinality({k \in G : k < m})
           a == (70 * n) \div 100
           b == (85 * n) \div 100
<1>1. IsFiniteSet(G)
  BY SplitsAssumption, FS_Subset
<1>2. n \in Nat
  BY <1>1, FS_CardinalityType
<1>3. at(i) \in Nat /\ at(j) \in Nat
  BY <1>1, FS_Subset, FS_CardinalityType
<1>4. a \in Int /\ b \in Int /\ a <= b
  BY <1>2
<1>5. /\ "train" \in SplitOf(G, i) => at(i) < a
      /\ "val" \in SplitOf(G, i) => at(i) >= a /\ at(i) < b
      /\ "val" \in SplitOf(G, j) => at(j) >= a /\ at(j) < b
      /\ "test" \in SplitOf(G, j) => at(j) >= b
  BY DEF SplitOf
<1> HIDE DEF n, at, a, b
<1>6. at(i) < at(j)
  BY <1>3, <1>4, <1>5 DEF Before
<1> QED
  BY <1>6, FewerBeforeIsOlder DEF at

\* The splits computed from one set of issues are in order, label by label.
LEMMA DatasetIsInOrder ==
  ASSUME NEW S \in SUBSET Issues, NEW p \in Before
  PROVE  InOrder(SplitDataset(S)[p[1]], SplitDataset(S)[p[2]])
<1> SUFFICES ASSUME NEW i \in SplitDataset(S)[p[1]], NEW j \in SplitDataset(S)[p[2]],
                    MappedLabel(i) = MappedLabel(j)
             PROVE  i < j
  BY DEF InOrder
<1>1. p[1] \in Files /\ p[2] \in Files
  BY DEF Before, Files
<1>2. /\ i \in S /\ p[1] \in SplitOf(GroupOf(S, i), i)
      /\ j \in S /\ p[2] \in SplitOf(GroupOf(S, j), j)
  BY <1>1 DEF SplitDataset, Labelled
<1>3. GroupOf(S, i) = GroupOf(S, j) /\ GroupOf(S, i) \in SUBSET Issues
  BY DEF GroupOf
<1>4. i \in GroupOf(S, i) /\ j \in GroupOf(S, i)
  BY <1>2 DEF GroupOf
<1> QED
  BY <1>2, <1>3, <1>4, CutsAreInOrder

\* An issue is in some split, wherever it is in its group.
LEMMA EveryIssueHasASplit ==
  ASSUME NEW G \in SUBSET Issues, NEW i \in G
  PROVE  \E f \in Files : f \in SplitOf(G, i)
<1> DEFINE n == Cardinality(G)
           at == Cardinality({j \in G : j < i})
<1>1. IsFiniteSet(G)
  BY SplitsAssumption, FS_Subset
<1>2. n \in Nat
  BY <1>1, FS_CardinalityType
<1>3. at \in Nat
  <2>1. IsFiniteSet({j \in G : j < i})
    BY <1>1, FS_Subset
  <2> QED
    BY <2>1, FS_CardinalityType
<1>4. (70 * n) \div 100 \in Int /\ (85 * n) \div 100 \in Int
  BY <1>2
<1>5. /\ at < (70 * n) \div 100 => "train" \in SplitOf(G, i)
      /\ at >= (70 * n) \div 100 /\ at < (85 * n) \div 100 => "val" \in SplitOf(G, i)
      /\ at >= (85 * n) \div 100 => "test" \in SplitOf(G, i)
  BY DEF SplitOf, Files
<1> HIDE DEF n, at
<1> QED
  BY <1>3, <1>4, <1>5 DEF Files

\* The splits of one set of issues hold every labelled one, and no other.
LEMMA DatasetIsComplete ==
  ASSUME NEW S \in SUBSET Issues
  PROVE  UNION {SplitDataset(S)[f] : f \in Files} = Labelled(S)
<1>1. ASSUME NEW i \in Labelled(S)
      PROVE  \E f \in Files : i \in SplitDataset(S)[f]
  <2>1. GroupOf(S, i) \in SUBSET Issues /\ i \in GroupOf(S, i)
    BY <1>1 DEF GroupOf, Labelled
  <2>2. PICK f \in Files : f \in SplitOf(GroupOf(S, i), i)
    BY <2>1, EveryIssueHasASplit
  <2> QED
    BY <1>1, <2>2 DEF SplitDataset
<1>2. \A f \in Files : SplitDataset(S)[f] \subseteq Labelled(S)
  BY SplitsAreLabelled
<1> QED
  BY <1>1, <1>2

\* The splits of no issues are empty.
LEMMA NothingIsSplit ==
  ASSUME NEW f \in Files, NEW n
  PROVE  Unreadable(n).ids = SplitDataset(Unreadable(n).data)[f]
BY DEF Unreadable, SplitDataset, Labelled

\* The inductive invariant holds at first.
LEMMA TemporalFirst == Init => TemporalInv
<1> SUFFICES ASSUME Init PROVE TemporalInv
  OBVIOUS
<1>1. \A f \in Files : splits[f] = Unreadable(0)
  BY DEF Init
<1>2. \A f \in Files : splits[f].ids = SplitDataset(splits[f].data)[f]
  BY <1>1, NothingIsSplit
<1> QED
  BY <1>2, TypedFirst DEF Init, TemporalInv, SplitsAreComputed

\* Every step keeps the inductive invariant.
LEMMA TemporalIsKept == TemporalInv /\ [Next]_vars => TemporalInv'
<1> SUFFICES ASSUME TemporalInv, [Next]_vars PROVE TemporalInv'
  OBVIOUS
<1>t. TypeOK /\ TypeOK'
  BY TypeIsKept DEF TemporalInv
<1> SUFFICES SplitsAreComputed'
  BY <1>t DEF TemporalInv
<1>1. CASE StartSplit
  <2>1. /\ parts' = [of |-> fetches, data |-> raw \cup docs, ids |-> SplitDataset(raw \cup docs)]
        /\ splits' = splits
    BY <1>1 DEF StartSplit
  <2>2. parts'.ids = SplitDataset(parts'.data)
    BY <2>1
  <2> QED
    BY <2>1, <2>2 DEF TemporalInv, SplitsAreComputed
<1>2. CASE WriteSplit
  <2>1. /\ writing \in Files /\ writing # "none"
        /\ \A f \in Files : splits'[f] =
             IF f = writing THEN [run |-> runs, docs |-> parts.of, data |-> parts.data,
                                  ids |-> parts.ids[writing]]
             ELSE splits[f]
        /\ writing' # "none" => parts' = parts
    BY <1>2, <1>t DEF WriteSplit, TypeOK
  <2>2. parts.ids = SplitDataset(parts.data)
    BY <2>1 DEF TemporalInv, SplitsAreComputed
  <2>3. ASSUME NEW f \in Files
        PROVE  splits'[f].ids = SplitDataset(splits'[f].data)[f]
    BY <2>1, <2>2 DEF TemporalInv, SplitsAreComputed
  <2> QED
    BY <2>1, <2>2, <2>3 DEF SplitsAreComputed
<1>3. CASE SplitStops
  <2>1. /\ writing' = "none"
        /\ \A f \in Files : splits'[f] \in {splits[f], Unreadable(runs)}
    BY <1>3, <1>t DEF SplitStops, TypeOK
  <2>2. \A f \in Files : splits'[f].ids = SplitDataset(splits'[f].data)[f]
    BY <2>1, NothingIsSplit DEF TemporalInv, SplitsAreComputed
  <2> QED
    BY <2>1, <2>2 DEF SplitsAreComputed
<1>4. CASE UNCHANGED splitVars
  BY <1>4 DEF TemporalInv, SplitsAreComputed, splitVars
<1> QED
  <2>1. CloseIssue \/ FetchIssues \/ FetchDocs \/ StartCorpus \/ WriteCorpus \/ CorpusStops
          => UNCHANGED splitVars
    BY DEF CloseIssue, FetchIssues, FetchDocs, StartCorpus, WriteCorpus, CorpusStops
  <2>2. UNCHANGED vars => UNCHANGED splitVars
    BY DEF vars
  <2> QED
    BY <1>1, <1>2, <1>3, <1>4, <2>1, <2>2 DEF Next

\* The inductive invariant implies the property.
LEMMA ComputedIsTemporal == TemporalInv => SplitsAreTemporal
<1> SUFFICES ASSUME TemporalInv, OfOneDataSet
             PROVE  /\ CoreExcluded = Labelled(splits["train"].data)
                    /\ Earlier("train", "val") /\ Earlier("train", "test")
                    /\ Earlier("val", "test")
  BY DEF SplitsAreTemporal
<1>1. PICK S \in SUBSET Issues : S = splits["train"].data
  BY DEF TemporalInv, TypeOK, Split, Files
<1>2. \A f \in Files : splits[f].ids = SplitDataset(S)[f]
  BY <1>1 DEF TemporalInv, SplitsAreComputed, OfOneDataSet, Files
<1>3. ASSUME NEW p \in Before
      PROVE  Earlier(p[1], p[2])
  <2>1. p[1] \in Files /\ p[2] \in Files
    BY DEF Before, Files
  <2>2. InOrder(SplitDataset(S)[p[1]], SplitDataset(S)[p[2]])
    BY DatasetIsInOrder
  <2> QED
    BY <1>2, <2>1, <2>2 DEF InOrder, Earlier
<1>4. Earlier("train", "val") /\ Earlier("train", "test") /\ Earlier("val", "test")
  <2>1. \A f, g \in Files : <<f, g>> \in Before => Earlier(f, g)
    BY <1>3
  <2> QED
    BY <2>1 DEF Before, Files
<1>5. CoreExcluded = UNION {SplitDataset(S)[f] : f \in Files}
  BY <1>2 DEF CoreExcluded
<1> QED
  BY <1>1, <1>4, <1>5, DatasetIsComplete

\* Splits of the same issues are complete and temporal, label by label: no
\* issue is lost, and a classifier is never trained on an issue newer than one
\* of the same label it is tested on.
THEOREM SplitsStayTemporal == Spec => []SplitsAreTemporal
<1>1. Spec => []TemporalInv
  BY TemporalFirst, TemporalIsKept, PTL DEF Spec
<1> QED
  BY <1>1, ComputedIsTemporal, PTL

-----------------------------------------------------------------------------
(* The corpus is clean.  A file whose number is still the one that was     *)
(* read, and whose docs issues are of the fetch that was read, holds only  *)
(* issues that were left out: a split is written anew under a new number,  *)
(* and docs_issues.parquet only under a new number of the fetch.           *)

\* The splits the current run has still to write.
Unwritten ==
  CASE writing = "train" -> Files
    [] writing = "val" -> {"val", "test"}
    [] writing = "test" -> {"test"}
    [] writing = "none" -> {}

RunsAreNew ==
  /\ \A f \in Files : splits[f].run <= runs
  /\ \A f \in Unwritten : splits[f].run < runs

DocsAreKnown ==
  /\ \A f \in Files : /\ splits[f].docs <= fetches
                      /\ splits[f].docs = fetches => splits[f].ids \cap DocsIssues \subseteq docs
  /\ parts.of <= fetches
  /\ parts.of = fetches => \A f \in Files : parts.ids[f] \cap DocsIssues \subseteq docs

ExcludedInv ==
  excluded.running => \A f \in Files :
    /\ excluded.of[f] <= splits[f].run
    /\ excluded.of[f] = splits[f].run =>
         /\ splits[f].ids \subseteq excluded.core
         /\ splits[f].docs = excluded.docs => splits[f].ids \cap DocsIssues \subseteq excluded.io

CorpusIsOfSplits ==
  \A f \in Files :
    /\ corpus.of[f] <= splits[f].run
    /\ corpus.of[f] = splits[f].run /\ splits[f].docs = corpus.docs =>
         (corpus.core \cup corpus.io) \cap splits[f].ids = {}

CorpusInv == TypeOK /\ RunsAreNew /\ DocsAreKnown /\ ExcludedInv /\ CorpusIsOfSplits

\* The inductive invariant holds at first.
LEMMA CorpusFirst == Init => CorpusInv
<1> SUFFICES ASSUME Init PROVE CorpusInv
  OBVIOUS
<1>1. RunsAreNew
  BY DEF Init, RunsAreNew, Unwritten, Unreadable
<1>2. DocsAreKnown
  BY DEF Init, DocsAreKnown, NoParts, Unreadable
<1>3. ExcludedInv
  BY DEF Init, ExcludedInv, NoCorpus
<1>4. CorpusIsOfSplits
  BY DEF Init, CorpusIsOfSplits, NoCorpus, Unreadable
<1> QED
  BY <1>1, <1>2, <1>3, <1>4, TypedFirst DEF CorpusInv

\* Every step keeps the numbers of runs in order.
LEMMA RunsStayNew == CorpusInv /\ [Next]_vars => RunsAreNew'
<1> SUFFICES ASSUME CorpusInv, [Next]_vars PROVE RunsAreNew'
  OBVIOUS
<1>t. /\ runs \in Nat /\ writing \in Files \cup {"none"}
      /\ \A f \in Files : splits[f].run \in Nat
      /\ RunsAreNew
  BY DEF CorpusInv, TypeOK, Split
<1>1. CASE UNCHANGED <<writing, runs, splits>>
  BY <1>t, <1>1 DEF RunsAreNew, Unwritten
<1>2. CASE StartSplit
  <2>1. splits' = splits /\ runs' = runs + 1 /\ writing' = "train"
    BY <1>2 DEF StartSplit
  <2>2. \A f \in Files : splits'[f].run < runs' /\ splits'[f].run <= runs'
    BY <1>t, <2>1 DEF RunsAreNew
  <2> QED
    BY <2>1, <2>2 DEF RunsAreNew, Unwritten
<1>3. CASE WriteSplit
  <2>1. /\ writing \in Files /\ writing # "none" /\ writing' = After(writing) /\ runs' = runs
        /\ \A f \in Files : splits'[f].run = IF f = writing THEN runs ELSE splits[f].run
    BY <1>3, <1>t DEF WriteSplit, CorpusInv, TypeOK
  <2>2. \A f \in Files : splits'[f].run <= runs'
    BY <1>t, <2>1 DEF RunsAreNew
  <2>3. Unwritten' \subseteq Unwritten /\ writing \notin Unwritten' /\ Unwritten \subseteq Files
    BY <2>1 DEF Unwritten, After, Files
  <2>4. \A f \in Unwritten' : splits'[f].run < runs'
    BY <1>t, <2>1, <2>3 DEF RunsAreNew
  <2> QED
    BY <2>2, <2>4 DEF RunsAreNew
<1>4. CASE SplitStops
  <2>1. writing' = "none" /\ runs' = runs
    BY <1>4 DEF SplitStops
  <2>2. \A f \in Files : splits'[f] \in {splits[f], Unreadable(runs)}
    BY <1>4 DEF SplitStops, CorpusInv, TypeOK
  <2>3. \A f \in Files : splits'[f].run <= runs'
    BY <1>t, <2>1, <2>2 DEF RunsAreNew, Unreadable
  <2> QED
    BY <2>1, <2>3 DEF RunsAreNew, Unwritten
<1>5. CASE UNCHANGED splitVars
  BY <1>1, <1>5 DEF splitVars
<1> QED
  <2>1. CloseIssue \/ FetchIssues \/ FetchDocs \/ StartCorpus \/ WriteCorpus \/ CorpusStops
          => UNCHANGED splitVars
    BY DEF CloseIssue, FetchIssues, FetchDocs, StartCorpus, WriteCorpus, CorpusStops
  <2>2. UNCHANGED vars => UNCHANGED splitVars
    BY DEF vars
  <2> QED
    BY <1>2, <1>3, <1>4, <1>5, <2>1, <2>2 DEF Next

\* Every step keeps the docs issues those of their fetch.
LEMMA DocsStayKnown == CorpusInv /\ [Next]_vars => DocsAreKnown'
<1> SUFFICES ASSUME CorpusInv, [Next]_vars PROVE DocsAreKnown'
  OBVIOUS
<1>t. /\ fetches \in Nat /\ parts.of \in Nat
      /\ \A f \in Files : splits[f].docs \in Nat
      /\ DocsAreKnown
  BY DEF CorpusInv, TypeOK, Split
<1>1. CASE UNCHANGED <<docs, fetches, parts, splits>>
  BY <1>t, <1>1 DEF DocsAreKnown
<1>2. CASE FetchDocs
  <2>1. fetches' = fetches + 1 /\ splits' = splits /\ parts' = parts
    BY <1>2 DEF FetchDocs, splitVars
  <2>2. parts'.of <= fetches' /\ parts'.of # fetches'
    BY <1>t, <2>1 DEF DocsAreKnown
  <2>3. \A f \in Files : splits'[f].docs <= fetches' /\ splits'[f].docs # fetches'
    BY <1>t, <2>1 DEF DocsAreKnown
  <2> QED
    BY <2>2, <2>3 DEF DocsAreKnown
<1>3. CASE StartSplit
  <2>1. /\ parts' = [of |-> fetches, data |-> raw \cup docs, ids |-> SplitDataset(raw \cup docs)]
        /\ UNCHANGED <<docs, fetches, splits>>
    BY <1>3 DEF StartSplit
  <2>2. \A f \in Files : parts'.ids[f] \subseteq raw \cup docs
    BY <2>1, SplitsAreLabelled DEF Labelled
  <2>3. raw \cap DocsIssues = {}
    BY SplitsAssumption DEF CorpusInv, TypeOK
  <2>4. parts'.of = fetches /\ \A f \in Files : parts'.ids[f] \cap DocsIssues \subseteq docs
    BY <2>1, <2>2, <2>3
  <2>5. \A f \in Files : /\ splits'[f].docs <= fetches'
                         /\ splits'[f].docs = fetches' =>
                              splits'[f].ids \cap DocsIssues \subseteq docs'
    BY <1>t, <2>1 DEF DocsAreKnown
  <2>6. parts'.of <= fetches'
    BY <1>t, <2>1, <2>4
  <2>7. \A f \in Files : parts'.ids[f] \cap DocsIssues \subseteq docs'
    BY <2>1, <2>4
  <2> QED
    BY <2>5, <2>6, <2>7 DEF DocsAreKnown
<1>4. CASE WriteSplit
  <2>1. /\ writing \in Files
        /\ \A f \in Files : splits'[f] =
             IF f = writing THEN [run |-> runs, docs |-> parts.of, data |-> parts.data,
                                  ids |-> parts.ids[writing]]
             ELSE splits[f]
        /\ parts' = parts \/ parts' = NoParts
        /\ UNCHANGED <<docs, fetches>>
    BY <1>4 DEF WriteSplit, CorpusInv, TypeOK
  <2>2. \A f \in Files : /\ splits'[f].docs <= fetches
                         /\ splits'[f].docs = fetches => splits'[f].ids \cap DocsIssues \subseteq docs
    BY <1>t, <2>1 DEF DocsAreKnown
  <2>3. /\ parts'.of <= fetches
        /\ parts'.of = fetches => \A f \in Files : parts'.ids[f] \cap DocsIssues \subseteq docs
    BY <1>t, <2>1 DEF DocsAreKnown, NoParts
  <2> QED
    BY <2>1, <2>2, <2>3 DEF DocsAreKnown
<1>5. CASE SplitStops
  <2>1. /\ parts' = NoParts /\ UNCHANGED <<docs, fetches>>
        /\ \A f \in Files : splits'[f] \in {splits[f], Unreadable(runs)}
    BY <1>5 DEF SplitStops, CorpusInv, TypeOK
  <2>2. \A f \in Files : /\ splits'[f].docs <= fetches
                         /\ splits'[f].docs = fetches => splits'[f].ids \cap DocsIssues \subseteq docs
    BY <1>t, <2>1 DEF DocsAreKnown, Unreadable
  <2> QED
    BY <1>t, <2>1, <2>2 DEF DocsAreKnown, NoParts
<1> QED
  <2>1. CloseIssue \/ FetchIssues \/ StartCorpus \/ WriteCorpus \/ CorpusStops
          => UNCHANGED <<docs, fetches, parts, splits>>
    BY DEF CloseIssue, FetchIssues, StartCorpus, WriteCorpus, CorpusStops, splitVars
  <2>2. UNCHANGED vars => UNCHANGED <<docs, fetches, parts, splits>>
    BY DEF vars, splitVars
  <2> QED
    BY <1>1, <1>2, <1>3, <1>4, <1>5, <2>1, <2>2 DEF Next

\* A split that is written, or torn, gets a number above every one it had.
LEMMA WrittenIsNewer ==
  ASSUME CorpusInv, WriteSplit \/ SplitStops
  PROVE  \A f \in Files : \/ splits'[f] = splits[f]
                          \/ splits'[f].run = runs /\ splits[f].run < runs
<1>1. /\ writing \in Files
      /\ \A f \in Files : splits'[f] = splits[f] \/ (f = writing /\ splits'[f].run = runs)
  <2>1. writing \in Files /\ splits \in [Files -> Split]
    BY DEF WriteSplit, SplitStops, CorpusInv, TypeOK
  <2>2. CASE WriteSplit
    <3>1. PICK t : t = [run |-> runs, docs |-> parts.of, data |-> parts.data,
                        ids |-> parts.ids[writing]]
      OBVIOUS
    <3>2. splits' = [splits EXCEPT ![writing] = t] /\ t.run = runs
      BY <2>2, <3>1 DEF WriteSplit
    <3>3. \A f \in Files : splits'[f] = splits[f] \/ (f = writing /\ splits'[f] = t)
      BY <2>1, <3>2
    <3> QED
      BY <2>1, <3>2, <3>3
  <2>3. CASE SplitStops
    <3>0. PICK t : t = Unreadable(runs)
      OBVIOUS
    <3>1. t = Unreadable(runs) /\ t.run = runs
      BY <3>0 DEF Unreadable
    <3>2. \/ splits' = splits
          \/ splits' = [splits EXCEPT ![writing] = t]
      BY <2>3, <3>1 DEF SplitStops
    <3>3. \A f \in Files : splits'[f] = splits[f] \/ (f = writing /\ splits'[f] = t)
      BY <2>1, <3>2
    <3> QED
      BY <2>1, <3>1, <3>3
  <2> QED
    BY <2>2, <2>3
<1>2. writing \in Unwritten
  BY <1>1 DEF Unwritten, Files
<1> QED
  BY <1>1, <1>2 DEF CorpusInv, RunsAreNew

\* Every step keeps what is left out complete.
LEMMA ExcludedStays == CorpusInv /\ [Next]_vars => ExcludedInv'
<1> SUFFICES ASSUME CorpusInv, [Next]_vars PROVE ExcludedInv'
  OBVIOUS
<1>t. /\ runs \in Nat /\ fetches \in Nat
      /\ \A f \in Files : splits[f].run \in Nat /\ excluded.of[f] \in Nat
      /\ ExcludedInv /\ DocsAreKnown
  BY DEF CorpusInv, TypeOK, Split, Corpus
<1>1. CASE UNCHANGED <<splits, excluded>>
  BY <1>1, <1>t DEF ExcludedInv
<1>2. CASE WriteSplit \/ SplitStops
  <2>1. excluded' = excluded
    BY <1>2 DEF WriteSplit, SplitStops, corpusVars
  <2> SUFFICES ASSUME excluded.running, NEW f \in Files
               PROVE  /\ excluded.of[f] <= splits'[f].run
                      /\ excluded.of[f] = splits'[f].run =>
                           /\ splits'[f].ids \subseteq excluded.core
                           /\ splits'[f].docs = excluded.docs =>
                                splits'[f].ids \cap DocsIssues \subseteq excluded.io
    BY <2>1 DEF ExcludedInv
  <2>2. CASE splits'[f] = splits[f]
    BY <1>t, <2>2 DEF ExcludedInv
  <2>3. CASE splits'[f].run = runs /\ splits[f].run < runs
    <3>1. excluded.of[f] <= splits[f].run
      BY <1>t DEF ExcludedInv
    <3>2. excluded.of[f] < splits'[f].run
      BY <1>t, <2>3, <3>1
    <3> QED
      BY <1>t, <2>3, <3>2
  <2> QED
    BY <1>2, <2>2, <2>3, WrittenIsNewer
<1>3. CASE StartCorpus
  <2>1. /\ excluded' = [of |-> Stamps, docs |-> fetches, core |-> CoreExcluded, io |-> docs,
                        running |-> TRUE]
        /\ splits' = splits
    BY <1>3 DEF StartCorpus, splitVars
  <2>2. \A f \in Files : excluded'.of[f] = splits[f].run
    BY <2>1 DEF Stamps
  <2>3. \A f \in Files : splits[f].ids \subseteq excluded'.core
    BY <2>1 DEF CoreExcluded
  <2>4. \A f \in Files : splits[f].docs = excluded'.docs =>
                           splits[f].ids \cap DocsIssues \subseteq excluded'.io
    BY <1>t, <2>1 DEF DocsAreKnown
  <2> QED
    BY <1>t, <2>1, <2>2, <2>3, <2>4 DEF ExcludedInv
<1>4. CASE excluded' = NoCorpus
  BY <1>4 DEF ExcludedInv, NoCorpus
<1> QED
  <2>1. CloseIssue \/ FetchIssues \/ FetchDocs \/ StartSplit => UNCHANGED <<splits, excluded>>
    BY DEF CloseIssue, FetchIssues, FetchDocs, StartSplit, splitVars, corpusVars
  <2>2. WriteCorpus \/ CorpusStops => excluded' = NoCorpus
    BY DEF WriteCorpus, CorpusStops
  <2>3. UNCHANGED vars => UNCHANGED <<splits, excluded>>
    BY DEF vars, splitVars, corpusVars
  <2> QED
    BY <1>1, <1>2, <1>3, <1>4, <2>1, <2>2, <2>3 DEF Next

\* Every step keeps the corpus free of the splits it was made against.
LEMMA CorpusStays == CorpusInv /\ [Next]_vars => CorpusIsOfSplits'
<1> SUFFICES ASSUME CorpusInv, [Next]_vars PROVE CorpusIsOfSplits'
  OBVIOUS
<1>t. /\ runs \in Nat
      /\ \A f \in Files : splits[f].run \in Nat /\ corpus.of[f] \in Nat
      /\ CorpusIsOfSplits
  BY DEF CorpusInv, TypeOK, Split, Corpus
<1>1. CASE UNCHANGED <<splits, corpus>>
  BY <1>1, <1>t DEF CorpusIsOfSplits
<1>2. CASE WriteSplit \/ SplitStops
  <2>1. corpus' = corpus
    BY <1>2 DEF WriteSplit, SplitStops, corpusVars
  <2> SUFFICES ASSUME NEW f \in Files
               PROVE  /\ corpus.of[f] <= splits'[f].run
                      /\ corpus.of[f] = splits'[f].run /\ splits'[f].docs = corpus.docs =>
                           (corpus.core \cup corpus.io) \cap splits'[f].ids = {}
    BY <2>1 DEF CorpusIsOfSplits
  <2>2. CASE splits'[f] = splits[f]
    BY <1>t, <2>2 DEF CorpusIsOfSplits
  <2>3. CASE splits'[f].run = runs /\ splits[f].run < runs
    <3>1. corpus.of[f] <= splits[f].run
      BY <1>t DEF CorpusIsOfSplits
    <3>2. corpus.of[f] < splits'[f].run
      BY <1>t, <2>3, <3>1
    <3> QED
      BY <1>t, <2>3, <3>2
  <2> QED
    BY <1>2, <2>2, <2>3, WrittenIsNewer
<1>3. CASE WriteCorpus
  <2>1. PICK core \in UpTo((closed \cap CoreIssues) \ excluded.core, MaxCore),
             io \in Fetched((closed \cap DocsIssues) \ excluded.io, MaxIo) \cup {{}} :
          corpus' = IF core \cup io = {} THEN corpus
                    ELSE [excluded EXCEPT !.core = core, !.io = io, !.running = FALSE]
    BY <1>3 DEF WriteCorpus
  <2>2. excluded.running /\ splits' = splits
    BY <1>3 DEF WriteCorpus, splitVars
  <2>3. CASE corpus' = corpus
    BY <1>1, <2>2, <2>3
  <2>4. CASE corpus' = [excluded EXCEPT !.core = core, !.io = io, !.running = FALSE]
    <3>1. core \cap excluded.core = {} /\ io \subseteq DocsIssues /\ io \cap excluded.io = {}
      BY FetchedAreOfTheList DEF UpTo
    <3>2. /\ corpus'.of = excluded.of /\ corpus'.docs = excluded.docs
          /\ corpus'.core = core /\ corpus'.io = io
      BY <2>4 DEF CorpusInv, TypeOK, Corpus
    <3>3. \A f \in Files :
            /\ excluded.of[f] <= splits[f].run
            /\ excluded.of[f] = splits[f].run =>
                 /\ splits[f].ids \subseteq excluded.core
                 /\ splits[f].docs = excluded.docs =>
                      splits[f].ids \cap DocsIssues \subseteq excluded.io
      BY <2>2 DEF CorpusInv, ExcludedInv
    <3> QED
      BY <2>2, <3>1, <3>2, <3>3 DEF CorpusIsOfSplits
  <2> QED
    BY <2>1, <2>3, <2>4
<1> QED
  <2>1. CloseIssue \/ FetchIssues \/ FetchDocs \/ StartSplit \/ StartCorpus \/ CorpusStops
          => UNCHANGED <<splits, corpus>>
    BY DEF CloseIssue, FetchIssues, FetchDocs, StartSplit, StartCorpus, CorpusStops,
           splitVars, corpusVars
  <2>2. UNCHANGED vars => UNCHANGED <<splits, corpus>>
    BY DEF vars, splitVars, corpusVars
  <2> QED
    BY <1>1, <1>2, <1>3, <2>1, <2>2 DEF Next

\* Every step keeps the inductive invariant.
LEMMA CorpusIsKept == CorpusInv /\ [Next]_vars => CorpusInv'
<1>1. CorpusInv /\ [Next]_vars => TypeOK'
  BY TypeIsKept DEF CorpusInv
<1> QED
  BY <1>1, RunsStayNew, DocsStayKnown, ExcludedStays, CorpusStays DEF CorpusInv

\* The inductive invariant implies the property.
LEMMA OfSplitsIsClean == CorpusInv => CorpusIsClean
<1> SUFFICES ASSUME CorpusInv, corpus.of = Stamps,
                    \A f \in Files : splits[f].docs = corpus.docs
             PROVE  (corpus.core \cup corpus.io) \cap UNION {splits[f].ids : f \in Files} = {}
  BY DEF CorpusIsClean
<1>1. \A f \in Files : corpus.of[f] = splits[f].run
  BY DEF Stamps
<1>2. \A f \in Files : (corpus.core \cup corpus.io) \cap splits[f].ids = {}
  BY <1>1 DEF CorpusInv, CorpusIsOfSplits
<1> QED
  BY <1>2

\* The corpus the assistant quotes from holds no issue the classifier was
\* trained or tested on, whatever the scripts did and wherever they stopped.
THEOREM CorpusStaysClean == Spec => []CorpusIsClean
<1>1. Spec => []CorpusInv
  BY CorpusFirst, CorpusIsKept, PTL DEF Spec
<1> QED
  BY <1>1, OfSplitsIsClean, PTL
=============================================================================
