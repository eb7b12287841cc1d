----------------------------- MODULE DataSplits -----------------------------
(***************************************************************************)
(* The scripts in ml/data that make the data of the classifier, and what   *)
(* app/rag/data/fetch_corpus.py leaves out because of them.  Each script   *)
(* is started by hand, in any order and more than once, and leaves files   *)
(* the others read.  Issues are numbered in the order they were created,   *)
(* and are closed in any order.                                            *)
(*                                                                         *)
(* Every file carries the number of the run that wrote it, and a split the *)
(* number of the fetch its docs issues come from and the issues it was     *)
(* computed from: history the code does not have, for the properties.  How *)
(* a fetch goes is CorpusFetch's subject; here it ends with some of the    *)
(* issues it asks for.  A fetch stopped in the middle of its own write     *)
(* stops every script that reads the file until it is fetched again, and   *)
(* is left out.                                                            *)
(***************************************************************************)
EXTENDS Integers, Sequences, FiniteSets, FiniteSetsExt

CONSTANTS
  CoreIssues, DocsIssues,   \* of home-assistant/core and home-assistant.io
  OpenAtFirst,              \* those not closed when the first script starts
  RawLabels,                \* the labels of each issue of core, in order
  LabelMap,                 \* LABEL_MAP
  MaxDocs,                  \* MAX_ISSUES of fetch_docs.py
  MaxCore, MaxIo,           \* MAX_CORE_ISSUES and MAX_DOCS_ISSUES of fetch_corpus.py
  MaxRuns, MaxFetches       \* bounds: runs of split.py and of fetch_docs.py

Issues == CoreIssues \cup DocsIssues

ASSUME SplitsAssumption ==
  /\ Issues \subseteq Nat /\ IsFiniteSet(Issues) /\ CoreIssues \cap DocsIssues = {}
  /\ OpenAtFirst \subseteq Issues
  /\ DOMAIN RawLabels = CoreIssues
  /\ {MaxDocs, MaxCore, MaxIo, MaxRuns, MaxFetches} \subseteq Nat

VARIABLES
  closed,    \* the issues GitHub lists
  raw,       \* issues.parquet, empty where it is absent
  docs,      \* docs_issues.parquet, the same
  fetches,   \* runs of fetch_docs.py that have saved
  writing,   \* the split split.py writes next, or "none"
  parts,     \* what it has computed
  runs,      \* runs of split.py
  splits,    \* train.parquet, val.parquet, test.parquet
  excluded,  \* what fetch_corpus.py leaves out, while it runs
  corpus     \* rag_corpus.parquet

splitVars == <<writing, parts, runs, splits>>
corpusVars == <<excluded, corpus>>
vars == <<closed, raw, docs, fetches, splitVars, corpusVars>>

Files == {"train", "val", "test"}
NoParts == [of |-> 0, data |-> {}, ids |-> [f \in Files |-> {}]]
\* A file that is not there, or that no script can read.
Unreadable(run) == [run |-> run, docs |-> 0, data |-> {}, ids |-> {}]
Stamps == [f \in Files |-> splits[f].run]
NoCorpus == [of |-> [f \in Files |-> 0], docs |-> 0, core |-> {}, io |-> {}, running |-> FALSE]

\* The n newest.
Newest(S, n) == {i \in S : Cardinality({j \in S : j > i}) < n}
\* What a fetch of at most n of S may end with: it stops where a page fails.
Fetched(S, n) == {Newest(S, k) : k \in 1..n} \ {{}}
UpTo(S, n) == {T \in SUBSET S : Cardinality(T) <= n}

Init ==
  /\ closed = Issues \ OpenAtFirst
  /\ raw = {} /\ docs = {} /\ fetches = 0
  /\ writing = "none" /\ parts = NoParts /\ runs = 0
  /\ splits = [f \in Files |-> Unreadable(0)]
  /\ excluded = NoCorpus /\ corpus = NoCorpus

CloseIssue ==
  /\ \E i \in Issues \ closed : closed' = closed \cup {i}
  /\ UNCHANGED <<raw, docs, fetches, splitVars, corpusVars>>

-----------------------------------------------------------------------------
(* fetch.py and fetch_docs.py                                              *)

\* Nothing is saved where nothing was collected.
FetchIssues ==
  /\ raw' \in Fetched(closed \cap CoreIssues, Cardinality(CoreIssues))
  /\ UNCHANGED <<closed, docs, fetches, splitVars, corpusVars>>

FetchDocs ==
  /\ fetches < MaxFetches
  /\ docs' \in Fetched(closed \cap DocsIssues, MaxDocs)
  /\ fetches' = fetches + 1
  /\ UNCHANGED <<closed, raw, splitVars, corpusVars>>

-----------------------------------------------------------------------------
(* label_map.py and split.py                                               *)

\* The class of the first label that is mapped; "none" without one.
MapLabels(labels) ==
  LET mapped == {n \in 1..Len(labels) : labels[n] \in DOMAIN LabelMap}
  IN  IF mapped = {} THEN "none" ELSE LabelMap[labels[Min(mapped)]]

\* Every issue of home-assistant.io is stamped "docs".
MappedLabel(i) == IF i \in DocsIssues THEN MapLabels(<<"docs">>) ELSE MapLabels(RawLabels[i])

\* Mutant of SplitOf: the last train issue of a label is in val again.
SplitOf_Overlaps(group, i) ==
  LET n == Cardinality(group)
      at == Cardinality({j \in group : j < i}) IN
  {f \in Files : CASE f = "train" -> at < (70 * n) \div 100
                   [] f = "val" -> at + 1 >= (70 * n) \div 100 /\ at < (85 * n) \div 100
                   [] f = "test" -> at >= (85 * n) \div 100}

\* Mutant of SplitOf: test begins one issue too late.
SplitOf_Loses(group, i) ==
  LET n == Cardinality(group)
      at == Cardinality({j \in group : j < i}) IN
  {f \in Files : CASE f = "train" -> at < (70 * n) \div 100
                   [] f = "val" -> at >= (70 * n) \div 100 /\ at < (85 * n) \div 100
                   [] f = "test" -> at > (85 * n) \div 100}

\* The splits an issue of a label is in, by its place among those of the
\* label: the oldest 70% train, the newest 15% test.  The code multiplies by
\* the double 0.70, which cuts some n, the first is 90, one issue earlier.
SplitOf(group, i) ==
  LET n == Cardinality(group)
      at == Cardinality({j \in group : j < i}) IN
  {f \in Files : CASE f = "train" -> at < (70 * n) \div 100
                   [] f = "val" -> at >= (70 * n) \div 100 /\ at < (85 * n) \div 100
                   [] f = "test" -> at >= (85 * n) \div 100}

Labelled(S) == {i \in S : MappedLabel(i) # "none"}
GroupOf(S, i) == {j \in S : MappedLabel(j) = MappedLabel(i)}

\* split_dataset, of the issues that have a class.
SplitDataset(S) ==
  [f \in Files |-> {i \in Labelled(S) : f \in SplitOf(GroupOf(S, i), i)}]

\* Both files are read and everything is computed; docs_issues.parquet may be
\* absent.  Without a labelled issue there is nothing to concatenate.
StartSplit ==
  /\ writing = "none" /\ runs < MaxRuns
  /\ raw # {} /\ Labelled(raw \cup docs) # {}
  /\ parts' = [of |-> fetches, data |-> raw \cup docs, ids |-> SplitDataset(raw \cup docs)]
  /\ runs' = runs + 1
  /\ writing' = "train"
  /\ UNCHANGED <<closed, raw, docs, fetches, splits, corpusVars>>

After(f) == CASE f = "train" -> "val" [] f = "val" -> "test" [] f = "test" -> "none"

\* Three calls of to_parquet, one after another.
WriteSplit ==
  /\ writing # "none"
  /\ splits' = [splits EXCEPT ![writing] =
                  [run |-> runs, docs |-> parts.of, data |-> parts.data,
                   ids |-> parts.ids[writing]]]
  /\ writing' = After(writing)
  /\ parts' = IF After(writing) = "none" THEN NoParts ELSE parts
  /\ UNCHANGED <<closed, raw, docs, fetches, runs, corpusVars>>

\* The script is stopped, or a write fails: the file it was writing may be
\* torn, and the later splits are those of an earlier run.
SplitStops ==
  /\ writing # "none"
  /\ splits' \in {splits, [splits EXCEPT ![writing] = Unreadable(runs)]}
  /\ writing' = "none" /\ parts' = NoParts
  /\ UNCHANGED <<closed, raw, docs, fetches, runs, corpusVars>>

-----------------------------------------------------------------------------
(* fetch_corpus.py                                                         *)

\* Mutant of CoreExcluded: only the training data is left out.
CoreExcluded_TrainOnly == splits["train"].ids
CoreExcluded == UNION {splits[f].ids : f \in Files}

\* load_core_excluded and load_docs_excluded raise where a file is missing,
\* and read_parquet where one is torn.
StartCorpus ==
  /\ ~excluded.running
  /\ \A f \in Files : splits[f].data # {}
  /\ docs # {}
  /\ excluded' = [of |-> Stamps, docs |-> fetches, core |-> CoreExcluded, io |-> docs,
                  running |-> TRUE]
  /\ UNCHANGED <<closed, raw, docs, fetches, splitVars, corpus>>

\* Of the issues that are not excluded, the newest of home-assistant.io; of
\* core only those whose comments could be fetched.  Each source may stop
\* early, and nothing is saved where nothing was collected.
WriteCorpus ==
  /\ excluded.running
  /\ \E core \in UpTo((closed \cap CoreIssues) \ excluded.core, MaxCore),
        io \in Fetched((closed \cap DocsIssues) \ excluded.io, MaxIo) \cup {{}} :
       corpus' = IF core \cup io = {} THEN corpus
                 ELSE [excluded EXCEPT !.core = core, !.io = io, !.running = FALSE]
  /\ excluded' = NoCorpus
  /\ UNCHANGED <<closed, raw, docs, fetches, splitVars>>

CorpusStops ==
  /\ excluded.running
  /\ excluded' = NoCorpus
  /\ UNCHANGED <<closed, raw, docs, fetches, splitVars, corpus>>

Next ==
  \/ CloseIssue \/ FetchIssues \/ FetchDocs
  \/ StartSplit \/ WriteSplit \/ SplitStops
  \/ StartCorpus \/ WriteCorpus \/ CorpusStops

Spec == Init /\ [][Next]_vars

-----------------------------------------------------------------------------
Split == [run : Nat, docs : Nat, data : SUBSET Issues, ids : SUBSET Issues]
Corpus == [of : [Files -> Nat], docs : Nat, core : SUBSET Issues, io : SUBSET DocsIssues,
           running : BOOLEAN]

TypeOK ==
  /\ closed \subseteq Issues
  /\ raw \subseteq CoreIssues /\ docs \subseteq DocsIssues
  /\ fetches \in Nat /\ runs \in Nat
  /\ writing \in Files \cup {"none"}
  /\ parts \in [of : Nat, data : SUBSET Issues, ids : [Files -> SUBSET Issues]]
  /\ splits \in [Files -> Split]
  /\ excluded \in Corpus
  /\ corpus \in Corpus /\ corpus.core \subseteq CoreIssues

OfOneDataSet == \A f, g \in Files : splits[f].data = splits[g].data
Earlier(f, g) == \A i \in splits[f].ids, j \in splits[g].ids :
                   MappedLabel(i) = MappedLabel(j) => i < j

\* Where the three files were computed from the same issues, by one run or by
\* several of which some stopped between two writes, they hold every labelled
\* issue of these, and no other; and each label's test issues are newer than
\* its val issues and those than its train issues, so that none is in two
\* (split.py:16-23, 44-46).
SplitsAreTemporal ==
  OfOneDataSet => /\ CoreExcluded = Labelled(splits["train"].data)
                  /\ Earlier("train", "val") /\ Earlier("train", "test") /\ Earlier("val", "test")

\* No issue the classifier was trained or tested on is in the corpus, also
\* where the splits are of several runs; unless the splits have been written
\* again since the corpus was begun, or hold docs issues of another fetch than
\* the corpus left out.
CorpusIsClean ==
  /\ corpus.of = Stamps
  /\ \A f \in Files : splits[f].docs = corpus.docs
  => (corpus.core \cup corpus.io) \cap UNION {splits[f].ids : f \in Files} = {}
=============================================================================
